----------------------------- MODULE StoreProofs -----------------------------
(***************************************************************************)
(* Proofs about what the device keeps on its card, as MCDevice composes    *)
(* it: the playlists of a manifest, the hash cache, the library and the    *)
(* configuration, for any number of files, calls, edits and faults.        *)
(***************************************************************************)
EXTENDS MCDevice, FiniteSetTheorems, TLAPS

-----------------------------------------------------------------------------
(* The playlists of a manifest.                                            *)

Dirs == [SyncLists -> SUBSET Files]
Rounds ==
    [pc : {"idle", "room", "fetch", "out", "in", "undoIn", "undoOut", "rules"},
     m : Manifests \cup {NoManifest}, need : SUBSET Files, from : SUBSET Files]

\* What TypeOK of the sync says.
SyncTyped ==
    /\ served \in Manifests /\ room \in Rooms
    /\ whole \subseteq Files
    /\ part \in [Files -> [n : Nat, good : BOOLEAN]]
    /\ \A f \in Files : part[f].n < Size[f]
    /\ dirs \in Dirs /\ staging \in Dirs /\ trash \in Dirs
    /\ {sFleet, keys, rules} \subseteq Manifests \cup {NoManifest}
    /\ sync \in Rounds
    /\ gone \subseteq Files /\ rotten \subseteq whole
    /\ sExcuse \subseteq {"undo", "early", "back"}
    /\ faults \in 0..MaxFaults

\* It is what TypeOK says.
LEMMA SyncTypes == Sync!TypeOK <=> SyncTyped
<1>1. {dirs, staging, trash} \subseteq Dirs
        <=> dirs \in Dirs /\ staging \in Dirs /\ trash \in Dirs
  OBVIOUS
<1> QED BY <1>1, Zenon DEF Sync!TypeOK, SyncTyped, Dirs, Rounds

\* The same after a step.
LEMMA SyncTypesNext == Sync!TypeOK' <=> SyncTyped'
<1>1. (Sync!TypeOK <=> SyncTyped)'
  BY SyncTypes, PTL
<1> QED BY <1>1

\* The constants and a round at rest.
LEMMA SyncConstants ==
    /\ Sync!Empty \in Dirs /\ \A n \in SyncLists : Sync!Empty[n] = {}
    /\ Sync!NoPart \in [n : Nat, good : BOOLEAN] /\ Sync!NoPart.n = 0
    /\ Sync!IdleRound \in Rounds /\ Sync!IdleRound.pc = "idle"
    /\ \A f \in Files : Size[f] \in Nat /\ 0 < Size[f]
    /\ \A m \in Manifests : m.lists \in Dirs
    /\ MaxFaults \in Nat
<1>1. /\ Size \in [Files -> Nat \ {0}] /\ MaxFaults \in Nat
      /\ \A m \in Manifests : m.lists \in Dirs
  BY ContentAssumption DEF Sync!SyncAssumption, Dirs
<1>2. \A f \in Files : Size[f] \in Nat /\ 0 < Size[f]
  BY <1>1
<1> QED BY <1>1, <1>2 DEF Sync!Empty, Sync!NoPart, Sync!IdleRound, Dirs, Rounds

\* A fault stays in its bound.
LEMMA SyncCount ==
    ASSUME Sync!TypeOK, NEW e, Sync!Fault(e) \/ UNCHANGED faults
    PROVE  faults' \in 0..MaxFaults
BY SyncTypes, SyncConstants DEF Sync!Fault, SyncTyped

\* A round goes on.
LEMMA RoundGoes ==
    ASSUME sync \in Rounds,
           NEW pc \in {"idle", "room", "fetch", "out", "in", "undoIn", "undoOut", "rules"},
           sync' = [sync EXCEPT !.pc = pc]
    PROVE  /\ sync' \in Rounds /\ sync'.pc = pc /\ sync'.m = sync.m
           /\ sync'.need = sync.need /\ sync'.from = sync.from
BY DEF Rounds

Quiet == {"idle", "room", "fetch", "rules"}

\* Beside a swap a step that leaves the playlists alone keeps the invariant when it
\* loses no object from sight.
LEMMA QuietStep ==
    ASSUME Sync!SyncInv, UNCHANGED <<dirs, staging, trash>>, Sync!TypeOK',
           \/ sync'.pc = sync.pc /\ sync'.m = sync.m
           \/ sync.pc \in Quiet /\ sync'.pc \in Quiet,
           sync'.pc # "idle" => sync'.m \in Manifests,
           "undo" \in sExcuse => "undo" \in sExcuse',
           rotten' = {}, whole \cup gone \subseteq whole' \cup gone',
           sync'.pc \in {"room", "fetch"} =>
                Sync!Used(sync'.m) \subseteq whole' \cup sync'.need \cup gone'
    PROVE  Sync!SyncInv'
<1>1. /\ Sync!RoundIsTidy /\ Sync!OldIsOne /\ Sync!NewIsOne /\ Sync!ObjectsFirst
  BY DEF Sync!SyncInv
<1>2. Sync!RoundIsTidy'
  BY <1>1 DEF Sync!RoundIsTidy, Quiet
<1>3. Sync!OldIsOne'
  <2>1. ASSUME NEW m PROVE /\ Sync!Of(dirs, m)' <=> Sync!Of(dirs, m)
                           /\ Sync!Of(trash, m)' <=> Sync!Of(trash, m)
    BY DEF Sync!Of, Sync!Has
  <2> QED BY <1>1, <2>1 DEF Sync!OldIsOne, Quiet
<1>4. Sync!NewIsOne'
  BY <1>1 DEF Sync!NewIsOne, Sync!Of, Sync!Has, Quiet
<1>5. Sync!ObjectsFirst'
  BY <1>1 DEF Sync!ObjectsFirst
<1> QED BY <1>2, <1>3, <1>4, <1>5 DEF Sync!SyncInv

\* The types and the parts of the invariant that the steps below start from.
LEMMA SyncFacts ==
    ASSUME Sync!SyncInv
    PROVE  /\ Sync!TypeOK /\ sync \in Rounds /\ rotten = {}
           /\ dirs \in Dirs /\ staging \in Dirs /\ trash \in Dirs
           /\ whole \subseteq Files /\ gone \subseteq Files
           /\ Sync!RoundIsTidy /\ Sync!OldIsOne /\ Sync!NewIsOne /\ Sync!ObjectsFirst
BY SyncTypes DEF Sync!SyncInv, Sync!ObjectsFirst, SyncTyped

\* A round begins: the hidden directories are empty already, and what it must fetch is
\* what the card does not have.
LEMMA SyncBegins == ASSUME Sync!SyncInv, Sync!applyManifest PROVE Sync!SyncInv'
<1> DEFINE m == served
           q == [pc |-> "room", m |-> m, need |-> Sync!missing(m),
                 from |-> UNION {Sync!Copies(f) : f \in Sync!missing(m)}]
<1>1. /\ sync.pc = "idle" /\ staging' = Sync!Empty /\ trash' = Sync!Empty
      /\ UNCHANGED <<served, room, whole, part, dirs, sFleet, keys, rules, gone, rotten,
                     sExcuse, faults>>
      /\ sync' \in {sync, q, [q EXCEPT !.pc = "rules"]}
  BY DEF Sync!applyManifest, Sync!sweepLeftovers
<1>2. UNCHANGED <<dirs, staging, trash>>
  BY <1>1, SyncFacts DEF Sync!RoundIsTidy
<1>3. m \in Manifests /\ Sync!Used(m) \subseteq Files
  <2>1. m \in Manifests
    BY SyncFacts, SyncTypes DEF SyncTyped
  <2>2. m.lists \in [SyncLists -> SUBSET Files]
    BY <2>1, SyncConstants DEF Dirs
  <2> QED BY <2>1, <2>2 DEF Sync!Used
<1>4. q \in Rounds /\ q.pc = "room" /\ q.m = m /\ q.need = Sync!missing(m)
  <2>1. Sync!missing(m) \subseteq Files
    BY <1>3 DEF Sync!missing
  <2>2. \A f : Sync!Copies(f) \subseteq Files
    BY SyncFacts DEF Sync!Copies
  <2>3. UNION {Sync!Copies(f) : f \in Sync!missing(m)} \subseteq Files
    BY <2>2
  <2> QED BY <1>3, <2>1, <2>3 DEF Rounds
<1> HIDE DEF q
<1>5. /\ sync' \in Rounds
      /\ sync' = sync \/ (sync'.pc \in {"room", "rules"} /\ sync'.m = m /\ sync'.need = Sync!missing(m))
  BY <1>1, <1>4, SyncFacts DEF Rounds
<1>6. Sync!TypeOK'
  BY <1>1, <1>2, <1>5, SyncFacts, SyncTypes, SyncTypesNext DEF SyncTyped
<1>7. Sync!Used(m) \subseteq whole \cup Sync!missing(m)
  BY DEF Sync!missing
<1>8. sync'.pc \in {"room", "fetch"} => Sync!Used(sync'.m) \subseteq whole' \cup sync'.need \cup gone'
  BY <1>1, <1>5, <1>7
<1>9. rotten' = {}
  BY <1>1, SyncFacts
<1> HIDE DEF m
<1> QED BY <1>1, <1>2, <1>3, <1>5, <1>6, <1>8, <1>9, QuietStep DEF Quiet

\* What leaves the card to make room is known to be gone.
LEMMA SyncMakesRoom == ASSUME Sync!SyncInv, Sync!makeRoom PROVE Sync!SyncInv'
<1>1. /\ sync.pc = "room" /\ sync \in Rounds /\ SyncTyped /\ sync.m \in Manifests
      /\ rotten = {}
      /\ UNCHANGED <<served, room, dirs, staging, trash, sFleet, keys, rules, faults>>
  BY SyncFacts, SyncTypes DEF Sync!makeRoom, Sync!RoundIsTidy
<1>2. /\ \/ sync' = [sync EXCEPT !.pc = "fetch"] \/ sync' = [sync EXCEPT !.pc = "rules"]
         \/ sync' = Sync!IdleRound
      /\ sExcuse' \in {sExcuse, sExcuse \cup {"early"}}
  BY DEF Sync!makeRoom
<1>3. \E w \in SUBSET Files, p \in SUBSET Files :
        /\ whole' = whole \ w /\ gone' = gone \cup w /\ rotten' = rotten \ w
        /\ part' = [f \in Files |-> IF f \in p THEN Sync!NoPart ELSE part[f]]
  <2>1. CASE UNCHANGED <<whole, part, gone, rotten>>
    <3>1. part' = [f \in Files |-> IF f \in {} THEN Sync!NoPart ELSE part[f]]
      BY <1>1, <2>1 DEF SyncTyped
    <3>2. whole' = whole \ {} /\ gone' = gone \cup {} /\ rotten' = rotten \ {}
      BY <2>1
    <3>3. {} \in SUBSET Files
      OBVIOUS
    <3> QED BY <3>1, <3>2, <3>3
  <2>2. ASSUME NEW w \in SUBSET Sync!Evictable, NEW p \in SUBSET Sync!Leftover,
               whole' = whole \ w, rotten' = rotten \ w, gone' = gone \cup w,
               part' = [f \in Files |-> IF f \in p THEN Sync!NoPart ELSE part[f]]
        PROVE  \E v \in SUBSET Files, q \in SUBSET Files :
                 /\ whole' = whole \ v /\ gone' = gone \cup v /\ rotten' = rotten \ v
                 /\ part' = [f \in Files |-> IF f \in q THEN Sync!NoPart ELSE part[f]]
    <3>1. w \subseteq whole /\ p \subseteq Files
      BY DEF Sync!Evictable, Sync!Leftover
    <3>2. w \in SUBSET Files /\ p \in SUBSET Files
      BY <1>1, <3>1 DEF SyncTyped
    <3> QED BY <2>2, <3>2, Zenon
  <2>3. \/ UNCHANGED <<whole, part, gone, rotten>>
        \/ \E w \in SUBSET Sync!Evictable, p \in SUBSET Sync!Leftover :
             /\ whole' = whole \ w /\ rotten' = rotten \ w /\ gone' = gone \cup w
             /\ part' = [f \in Files |-> IF f \in p THEN Sync!NoPart ELSE part[f]]
    BY DEF Sync!makeRoom
  <2> QED BY <2>1, <2>2, <2>3, Zenon
<1>4. PICK w \in SUBSET Files, p \in SUBSET Files :
        /\ whole' = whole \ w /\ gone' = gone \cup w /\ rotten' = rotten \ w
        /\ part' = [f \in Files |-> IF f \in p THEN Sync!NoPart ELSE part[f]]
  BY <1>3
<1>5. part' \in [Files -> [n : Nat, good : BOOLEAN]] /\ \A f \in Files : part'[f].n < Size[f]
  <2>1. ASSUME NEW f \in Files
        PROVE  part'[f] \in [n : Nat, good : BOOLEAN] /\ part'[f].n < Size[f]
    <3>1. part'[f] \in {Sync!NoPart, part[f]}
      BY <1>4
    <3> QED BY <1>1, <3>1, SyncConstants DEF SyncTyped
  <2> QED BY <1>4, <2>1
<1>6. /\ sync' \in Rounds /\ sync'.pc \in {"fetch", "rules", "idle"}
      /\ sync'.pc # "idle" => sync'.m = sync.m /\ sync'.need = sync.need
  BY <1>1, <1>2, RoundGoes, SyncConstants
<1>7. Sync!TypeOK'
  BY <1>1, <1>2, <1>4, <1>5, <1>6, SyncTypesNext DEF SyncTyped
<1>8. Sync!Used(sync.m) \subseteq whole \cup sync.need \cup gone
  BY <1>1, SyncFacts DEF Sync!ObjectsFirst
<1>9. /\ whole \cup gone \subseteq whole' \cup gone' /\ rotten' = {}
      /\ sync'.pc \in {"room", "fetch"} =>
            Sync!Used(sync'.m) \subseteq whole' \cup sync'.need \cup gone'
  BY <1>1, <1>4, <1>6, <1>8
<1> QED BY <1>1, <1>2, <1>6, <1>7, <1>9, QuietStep DEF Quiet

\* Blocks that arrive: a file is put in place only with its own bytes.
LEMMA PartArrives ==
    ASSUME SyncTyped, rotten = {}, NEW f \in Files, NEW start \in {0, part[f].n},
           NEW k \in 0..(Size[f] - start), NEW good \in BOOLEAN,
           Sync!Arrives(f, start, k, good)
    PROVE  /\ whole' \in {whole, whole \cup {f}} /\ rotten' = {}
           /\ part' \in [Files -> [n : Nat, good : BOOLEAN]]
           /\ \A g \in Files : part'[g].n < Size[g]
<1> DEFINE p == [n |-> start + k, good |-> good /\ (start = 0 \/ part[f].good)]
           q == IF p.n < Size[f] THEN p ELSE Sync!NoPart
<1>1. start \in Nat /\ Size[f] \in Nat /\ start + k \in Nat /\ part[f] \in [n : Nat, good : BOOLEAN]
  BY SyncConstants DEF SyncTyped
<1>2. p \in [n : Nat, good : BOOLEAN]
  BY <1>1
<1>3. q \in [n : Nat, good : BOOLEAN] /\ q.n < Size[f]
  BY <1>2, SyncConstants
<1>4. /\ whole' \in {whole, whole \cup {f}} /\ part' = [part EXCEPT ![f] = q]
      /\ rotten' = IF p.n = Size[f] /\ p.good /\ ~p.good THEN rotten \cup {f} ELSE rotten
  BY DEF Sync!Arrives, Sync!Checked
<1> HIDE DEF p, q
<1>5. part' \in [Files -> [n : Nat, good : BOOLEAN]] /\ \A g \in Files : part'[g].n < Size[g]
  BY <1>3, <1>4 DEF SyncTyped
<1> QED BY <1>4, <1>5

\* One object is fetched, or the round ends.
LEMMA SyncFetches == ASSUME Sync!SyncInv, Sync!fetch PROVE Sync!SyncInv'
<1>1. /\ sync.pc = "fetch" /\ sync \in Rounds /\ SyncTyped /\ sync.m \in Manifests
      /\ rotten = {} /\ sync.need \subseteq Files
      /\ UNCHANGED <<served, room, dirs, staging, trash, sFleet, keys, rules, sExcuse>>
  BY SyncFacts, SyncTypes DEF Sync!fetch, Sync!RoundIsTidy, Rounds
<1>2. PICK f \in sync.need :
        \/ /\ Sync!Copies(f) \cap sync.from # {}
           /\ whole' = whole \cup {f}
           /\ rotten' = rotten \cup (IF Sync!Copies(f) \cap sync.from \subseteq rotten THEN {f} ELSE {})
           /\ sync' = [sync EXCEPT !.need = @ \ {f}]
           /\ gone' = gone \ {f}
           /\ UNCHANGED <<part, faults>>
        \/ /\ \E start \in {0, part[f].n} :
                \/ /\ Sync!Arrives(f, start, Size[f] - start, TRUE)
                   /\ UNCHANGED faults
                \/ \E k \in 0..(Size[f] - start), good \in BOOLEAN :
                     /\ Sync!Fault("download")
                     /\ Sync!Arrives(f, start, k, good)
           /\ sync' = IF f \in whole' THEN [sync EXCEPT !.need = @ \ {f}] ELSE Sync!IdleRound
           /\ gone' = gone \ whole'
  BY DEF Sync!fetch
<1> DEFINE Fetched ==
            /\ whole' \in {whole, whole \cup {f}} /\ rotten' = {}
            /\ part' \in [Files -> [n : Nat, good : BOOLEAN]]
            /\ \A g \in Files : part'[g].n < Size[g]
            /\ faults' \in 0..MaxFaults
            /\ gone' \subseteq gone /\ gone \subseteq whole' \cup gone'
            /\ \/ sync' = [sync EXCEPT !.need = @ \ {f}] /\ f \in whole'
               \/ sync' = Sync!IdleRound
<1>3. Fetched
  <2>1. CASE /\ Sync!Copies(f) \cap sync.from # {}
             /\ whole' = whole \cup {f}
             /\ rotten' = rotten \cup (IF Sync!Copies(f) \cap sync.from \subseteq rotten THEN {f} ELSE {})
             /\ sync' = [sync EXCEPT !.need = @ \ {f}]
             /\ gone' = gone \ {f}
             /\ UNCHANGED <<part, faults>>
    BY <1>1, <2>1 DEF SyncTyped
  <2>2. ASSUME NEW start \in {0, part[f].n}, NEW k \in 0..(Size[f] - start), NEW good \in BOOLEAN,
               Sync!Arrives(f, start, k, good), Sync!Fault("download") \/ UNCHANGED faults,
               sync' = IF f \in whole' THEN [sync EXCEPT !.need = @ \ {f}] ELSE Sync!IdleRound,
               gone' = gone \ whole'
        PROVE  Fetched
    <3>1. f \in Files
      BY <1>1
    <3>2. /\ whole' \in {whole, whole \cup {f}} /\ rotten' = {}
          /\ part' \in [Files -> [n : Nat, good : BOOLEAN]]
          /\ \A g \in Files : part'[g].n < Size[g]
      BY <1>1, <2>2, <3>1, PartArrives
    <3>3. faults' \in 0..MaxFaults
      BY <1>1, <2>2, SyncCount, SyncFacts
    <3> QED BY <2>2, <3>2, <3>3
  <2>3. ASSUME NEW start \in {0, part[f].n}
        PROVE  Size[f] - start \in 0..(Size[f] - start) /\ TRUE \in BOOLEAN
    <3>1. f \in Files
      BY <1>1
    <3>2. part[f] \in [n : Nat, good : BOOLEAN] /\ part[f].n < Size[f] /\ Size[f] \in Nat
      BY <1>1, <3>1, SyncConstants DEF SyncTyped
    <3> QED BY <3>2
  <2> HIDE DEF Fetched
  <2> QED BY <1>2, <2>1, <2>2, <2>3
<1>4. /\ sync' \in Rounds /\ sync'.pc \in {"fetch", "idle"}
      /\ sync'.pc # "idle" => sync'.m = sync.m /\ sync'.need = sync.need \ {f} /\ f \in whole'
  <2>1. CASE sync' = [sync EXCEPT !.need = @ \ {f}] /\ f \in whole'
    BY <1>1, <2>1 DEF Rounds
  <2> QED BY <1>3, <2>1, SyncConstants
<1>5. Sync!TypeOK'
  BY <1>1, <1>3, <1>4, SyncTypesNext DEF SyncTyped
<1>6. Sync!Used(sync.m) \subseteq whole \cup sync.need \cup gone
  BY <1>1, SyncFacts DEF Sync!ObjectsFirst
<1>7. /\ whole \cup gone \subseteq whole' \cup gone' /\ rotten' = {}
      /\ sync'.pc \in {"room", "fetch"} =>
            Sync!Used(sync'.m) \subseteq whole' \cup sync'.need \cup gone'
  BY <1>1, <1>3, <1>4, <1>6
<1> QED BY <1>1, <1>4, <1>5, <1>7, QuietStep DEF Quiet

\* The playlists are written beside the live ones, with every object on the card.
LEMMA SyncWrites == ASSUME Sync!SyncInv, Sync!writePlaylists PROVE Sync!SyncInv'
<1>1. /\ sync.pc = "fetch" /\ sync.need = {} /\ sync \in Rounds /\ SyncTyped
      /\ sync.m \in Manifests /\ rotten = {} /\ sync.m.lists \in Dirs
      /\ staging = Sync!Empty /\ trash = Sync!Empty
      /\ UNCHANGED <<served, room, whole, part, dirs, trash, sFleet, keys, rules, gone,
                     rotten, sExcuse, faults>>
  BY SyncFacts, SyncTypes, SyncConstants DEF Sync!writePlaylists, Sync!RoundIsTidy
<1>2. Sync!Used(sync.m) \subseteq whole \cup gone
  BY <1>1, SyncFacts DEF Sync!ObjectsFirst
<1>3. CASE sync' = [sync EXCEPT !.pc = "rules"] /\ UNCHANGED staging
  <2>1. sync' \in Rounds /\ sync'.pc = "rules" /\ sync'.m = sync.m
    BY <1>1, <1>3, RoundGoes
  <2>2. Sync!TypeOK'
    BY <1>1, <1>3, <2>1, SyncTypesNext DEF SyncTyped
  <2> QED BY <1>1, <1>3, <2>1, <2>2, QuietStep DEF Quiet
<1>4. CASE sync' = [sync EXCEPT !.pc = "out"] /\ staging' = sync.m.lists
  <2>1. sync' \in Rounds /\ sync'.pc = "out" /\ sync'.m = sync.m
    BY <1>1, <1>4, RoundGoes
  <2>2. Sync!TypeOK'
    BY <1>1, <1>4, <2>1, SyncTypesNext DEF SyncTyped
  <2>3. Sync!RoundIsTidy'
    BY <1>1, <2>1 DEF Sync!RoundIsTidy
  <2>4. Sync!OldIsOne'
    <3>1. ASSUME NEW m PROVE Sync!Of(dirs, m)' <=> Sync!Of(dirs, m)
      BY <1>1 DEF Sync!Of, Sync!Has
    <3>2. ASSUME NEW m PROVE Sync!Of(trash, m)' <=> Sync!Of(trash, m)
      BY <1>1 DEF Sync!Of, Sync!Has
    <3> QED BY <1>1, <2>1, <3>1, <3>2, SyncFacts DEF Sync!OldIsOne
  <2>5. Sync!NewIsOne'
    BY <1>4, <2>1 DEF Sync!NewIsOne, Sync!Of, Sync!Has
  <2>6. Sync!ObjectsFirst'
    <3>1. \A n \in SyncLists : staging'[n] \subseteq whole \cup gone
      BY <1>2, <1>4 DEF Sync!Used
    <3>2. \A n \in SyncLists : dirs[n] \cup trash[n] \subseteq whole \cup gone
      BY SyncFacts DEF Sync!ObjectsFirst
    <3> QED BY <1>1, <2>1, <3>1, <3>2 DEF Sync!ObjectsFirst
  <2> QED BY <2>2, <2>3, <2>4, <2>5, <2>6 DEF Sync!SyncInv
<1> QED BY <1>3, <1>4 DEF Sync!writePlaylists

\* The old playlists go to the trash one by one.
LEMMA SyncSwapsOut == ASSUME Sync!SyncInv, Sync!swapOut PROVE Sync!SyncInv'
<1>1. /\ sync.pc = "out" /\ sync \in Rounds /\ SyncTyped /\ sync.m \in Manifests
      /\ rotten = {} /\ Sync!Of(staging, sync.m)
      /\ UNCHANGED <<served, room, whole, part, staging, sFleet, keys, rules, gone,
                     rotten, sExcuse, faults>>
  BY SyncFacts, SyncTypes DEF Sync!swapOut, Sync!RoundIsTidy, Sync!NewIsOne
<1>2. \/ "undo" \in sExcuse
      \/ \E m \in Manifests : Sync!Of(trash, m) /\ Sync!Of(dirs, m)
  BY <1>1, SyncFacts DEF Sync!OldIsOne
<1>3. \A n \in SyncLists : dirs[n] \cup staging[n] \cup trash[n] \subseteq whole \cup gone
  BY SyncFacts DEF Sync!ObjectsFirst
<1>4. ASSUME NEW n \in SyncLists, trash' = [trash EXCEPT ![n] = dirs[n]],
             dirs' = [dirs EXCEPT ![n] = {}], UNCHANGED sync, Sync!Has(dirs, n)
      PROVE  Sync!SyncInv'
  <2>1. dirs[n] \in SUBSET Files /\ {} \in SUBSET Files
    BY <1>1 DEF SyncTyped, Dirs
  <2>2. /\ trash' \in Dirs /\ trash'[n] = dirs[n]
        /\ dirs' \in Dirs /\ dirs'[n] = {}
        /\ \A k \in SyncLists : k # n => trash'[k] = trash[k] /\ dirs'[k] = dirs[k]
    <3>1. trash \in Dirs /\ dirs \in Dirs
      BY <1>1 DEF SyncTyped
    <3>2. trash' \in Dirs /\ trash'[n] = dirs[n] /\ \A k \in SyncLists : k # n => trash'[k] = trash[k]
      BY <1>4, <2>1, <3>1 DEF Dirs
    <3>3. dirs' \in Dirs /\ dirs'[n] = {} /\ \A k \in SyncLists : k # n => dirs'[k] = dirs[k]
      BY <1>4, <2>1, <3>1 DEF Dirs
    <3> QED BY <3>2, <3>3
  <2>3. Sync!TypeOK'
    BY <1>1, <1>4, <2>2, SyncTypesNext DEF SyncTyped
  <2>4. Sync!RoundIsTidy'
    BY <1>1, <1>4 DEF Sync!RoundIsTidy
  <2>5. Sync!OldIsOne'
    <3>1. ASSUME NEW m \in Manifests, Sync!Of(trash, m), Sync!Of(dirs, m)
          PROVE  Sync!Of(trash, m)' /\ Sync!Of(dirs, m)'
      BY <1>4, <2>2, <3>1 DEF Sync!Of, Sync!Has
    <3> QED BY <1>1, <1>2, <3>1 DEF Sync!OldIsOne
  <2>6. Sync!NewIsOne'
    BY <1>1, <1>4 DEF Sync!NewIsOne, Sync!Of, Sync!Has
  <2>7. Sync!ObjectsFirst'
    <3>1. ASSUME NEW k \in SyncLists
          PROVE  dirs'[k] \cup staging'[k] \cup trash'[k] \subseteq whole \cup gone
      <4>1. CASE k = n
        BY <1>1, <1>3, <2>2, <4>1
      <4>2. CASE k # n
        BY <1>1, <1>3, <2>2, <4>2
      <4> QED BY <4>1, <4>2
    <3> QED BY <1>1, <1>4, <3>1 DEF Sync!ObjectsFirst
  <2> QED BY <2>3, <2>4, <2>5, <2>6, <2>7 DEF Sync!SyncInv
<1>5. ASSUME dirs = Sync!Empty, sync' = [sync EXCEPT !.pc = "in"], UNCHANGED <<dirs, trash>>
      PROVE  Sync!SyncInv'
  <2>1. sync' \in Rounds /\ sync'.pc = "in" /\ sync'.m = sync.m
    BY <1>1, <1>5, RoundGoes
  <2>2. Sync!TypeOK'
    BY <1>1, <1>5, <2>1, SyncTypesNext DEF SyncTyped
  <2>3. Sync!RoundIsTidy'
    BY <1>1, <2>1 DEF Sync!RoundIsTidy
  <2>4. Sync!OldIsOne'
    <3>1. ASSUME NEW m PROVE Sync!Of(trash, m)' <=> Sync!Of(trash, m)
      BY <1>5 DEF Sync!Of, Sync!Has
    <3> QED BY <1>1, <1>2, <2>1, <3>1 DEF Sync!OldIsOne
  <2>5. Sync!NewIsOne'
    <3>1. \A n \in SyncLists : ~Sync!Has(dirs', n)
      BY <1>5, SyncConstants DEF Sync!Has
    <3>2. Sync!Of(staging, sync.m)'
      BY <1>1, <2>1 DEF Sync!Of, Sync!Has
    <3>3. Sync!Of(dirs, sync.m)'
      BY <3>1 DEF Sync!Of
    <3> QED BY <3>2, <3>3 DEF Sync!NewIsOne
  <2>6. Sync!ObjectsFirst'
    BY <1>1, <1>3, <1>5, <2>1 DEF Sync!ObjectsFirst
  <2> QED BY <2>2, <2>3, <2>4, <2>5, <2>6 DEF Sync!SyncInv
<1> QED BY <1>4, <1>5 DEF Sync!swapOut

\* A directory with nothing in it is of any manifest.
LEMMA EmptyIsOf ==
    ASSUME NEW d, NEW m, \A n \in SyncLists : d[n] = {} PROVE Sync!Of(d, m)
BY DEF Sync!Of, Sync!Has

\* The new playlists take their places one by one.
LEMMA SyncSwapsIn == ASSUME Sync!SyncInv, Sync!swapIn PROVE Sync!SyncInv'
<1>1. PICK n \in SyncLists :
        /\ sync.pc = "in" /\ Sync!Has(staging, n)
        /\ dirs' = [dirs EXCEPT ![n] = staging[n]]
        /\ staging' = [staging EXCEPT ![n] = {}]
  BY DEF Sync!swapIn, Sync!SwapInReady
<1>2. /\ sync \in Rounds /\ SyncTyped /\ sync.m \in Manifests
      /\ rotten = {} /\ Sync!Of(staging, sync.m) /\ Sync!Of(dirs, sync.m)
      /\ UNCHANGED <<served, room, whole, part, trash, sFleet, keys, rules, sync, gone,
                     rotten, sExcuse, faults>>
  BY <1>1, SyncFacts, SyncTypes DEF Sync!swapIn, Sync!RoundIsTidy, Sync!NewIsOne
<1>3. /\ staging' \in Dirs /\ staging'[n] = {} /\ \A k \in SyncLists : k # n => staging'[k] = staging[k]
      /\ dirs' \in Dirs /\ dirs'[n] = staging[n] /\ \A k \in SyncLists : k # n => dirs'[k] = dirs[k]
  <2>1. staging \in Dirs /\ dirs \in Dirs
    BY <1>2 DEF SyncTyped
  <2>2. staging' \in Dirs /\ staging'[n] = {} /\ \A k \in SyncLists : k # n => staging'[k] = staging[k]
    BY <1>1, <2>1 DEF Dirs
  <2>3. dirs' \in Dirs /\ dirs'[n] = staging[n] /\ \A k \in SyncLists : k # n => dirs'[k] = dirs[k]
    BY <1>1, <2>1 DEF Dirs
  <2> QED BY <2>2, <2>3
<1>4. Sync!TypeOK'
  BY <1>2, <1>3, SyncTypesNext DEF SyncTyped
<1>5. Sync!RoundIsTidy'
  BY <1>1, <1>2 DEF Sync!RoundIsTidy
<1>6. Sync!OldIsOne'
  <2>1. \/ "undo" \in sExcuse
        \/ \E m \in Manifests : Sync!Of(trash, m)
    BY SyncFacts DEF Sync!OldIsOne
  <2>2. ASSUME NEW m PROVE Sync!Of(trash, m)' <=> Sync!Of(trash, m)
    BY <1>2 DEF Sync!Of, Sync!Has
  <2> QED BY <1>1, <1>2, <2>1, <2>2 DEF Sync!OldIsOne
<1>7. Sync!NewIsOne'
  <2>1. \A k \in SyncLists : dirs'[k] # {} => dirs'[k] = sync.m.lists[k]
    <3> SUFFICES ASSUME NEW k \in SyncLists, dirs'[k] # {} PROVE dirs'[k] = sync.m.lists[k]
      OBVIOUS
    <3>1. CASE k = n
      BY <1>1, <1>2, <1>3, <3>1 DEF Sync!Of, Sync!Has
    <3>2. CASE k # n
      BY <1>2, <1>3, <3>2 DEF Sync!Of, Sync!Has
    <3> QED BY <3>1, <3>2
  <2>2. \A k \in SyncLists : staging'[k] # {} => staging'[k] = sync.m.lists[k]
    BY <1>2, <1>3 DEF Sync!Of, Sync!Has
  <2> QED BY <1>2, <2>1, <2>2 DEF Sync!NewIsOne, Sync!Of, Sync!Has
<1>8. Sync!ObjectsFirst'
  <2>1. \A k \in SyncLists : dirs[k] \cup staging[k] \cup trash[k] \subseteq whole \cup gone
    BY SyncFacts DEF Sync!ObjectsFirst
  <2>2. ASSUME NEW k \in SyncLists
        PROVE  dirs'[k] \cup staging'[k] \cup trash'[k] \subseteq whole \cup gone
    <3>1. CASE k = n
      BY <1>2, <1>3, <2>1, <3>1
    <3>2. CASE k # n
      BY <1>2, <1>3, <2>1, <3>2
    <3> QED BY <3>1, <3>2
  <2> QED BY <1>1, <1>2, <2>2 DEF Sync!ObjectsFirst
<1> QED BY <1>4, <1>5, <1>6, <1>7, <1>8 DEF Sync!SyncInv

\* A swap that went through leaves the playlists of the new manifest only.
LEMMA SyncSwapEnds == ASSUME Sync!SyncInv, Sync!swapEnds PROVE Sync!SyncInv'
<1>1. /\ sync.pc = "in" /\ staging = Sync!Empty /\ trash' = Sync!Empty
      /\ sync' = [sync EXCEPT !.pc = "rules"] /\ sExcuse' = sExcuse \ {"undo"}
      /\ UNCHANGED <<served, room, whole, part, dirs, staging, sFleet, keys, rules, gone,
                     rotten, faults>>
  BY DEF Sync!swapEnds
<1>2. /\ sync \in Rounds /\ SyncTyped /\ sync.m \in Manifests
      /\ rotten = {} /\ Sync!Of(dirs, sync.m)
  BY <1>1, SyncFacts, SyncTypes DEF Sync!RoundIsTidy, Sync!NewIsOne
<1>3. sync' \in Rounds /\ sync'.pc = "rules" /\ sync'.m = sync.m
  BY <1>1, <1>2, RoundGoes
<1>4. Sync!TypeOK'
  BY <1>1, <1>2, <1>3, SyncConstants, SyncTypesNext DEF SyncTyped
<1>5. Sync!RoundIsTidy'
  BY <1>1, <1>2, <1>3 DEF Sync!RoundIsTidy
<1>6. Sync!OldIsOne'
  <2>1. Sync!Of(dirs', sync.m)
    BY <1>1, <1>2 DEF Sync!Of, Sync!Has
  <2>2. Sync!Of(trash', sync.m)
    BY <1>1, SyncConstants, EmptyIsOf
  <2> QED BY <1>2, <2>1, <2>2 DEF Sync!OldIsOne
<1>7. Sync!NewIsOne'
  BY <1>3 DEF Sync!NewIsOne
<1>8. Sync!ObjectsFirst'
  <2>1. \A k \in SyncLists : dirs[k] \cup staging[k] \cup trash[k] \subseteq whole \cup gone
    BY SyncFacts DEF Sync!ObjectsFirst
  <2>2. \A k \in SyncLists : trash'[k] = {}
    BY <1>1, SyncConstants
  <2>3. \A k \in SyncLists : dirs'[k] \cup staging'[k] \cup trash'[k] \subseteq whole' \cup gone'
    BY <1>1, <2>1, <2>2
  <2> QED BY <1>1, <1>2, <1>3, <2>3 DEF Sync!ObjectsFirst
<1> QED BY <1>4, <1>5, <1>6, <1>7, <1>8 DEF Sync!SyncInv

\* A rename of the swap fails: what is live stays what it is.
LEMMA SyncRenameFails == ASSUME Sync!SyncInv, Sync!renameFails PROVE Sync!SyncInv'
<1>1. /\ sync.pc \in {"out", "in"}
      /\ sync' = [sync EXCEPT !.pc = IF sync.pc = "in" THEN "undoIn" ELSE "undoOut"]
      /\ UNCHANGED <<served, room, whole, part, dirs, staging, trash, sFleet, keys, rules,
                     gone, rotten, sExcuse>>
      /\ faults' \in 0..MaxFaults
  BY SyncCount, SyncFacts DEF Sync!renameFails, Sync!cardVars
<1>2. sync \in Rounds /\ SyncTyped /\ sync.m \in Manifests /\ rotten = {}
  BY <1>1, SyncFacts, SyncTypes DEF Sync!RoundIsTidy
<1>3. /\ sync' \in Rounds /\ sync'.m = sync.m
      /\ sync'.pc = IF sync.pc = "in" THEN "undoIn" ELSE "undoOut"
  BY <1>1, <1>2, RoundGoes
<1>4. Sync!TypeOK'
  BY <1>1, <1>2, <1>3, SyncTypesNext DEF SyncTyped
<1>5. Sync!RoundIsTidy'
  BY <1>1, <1>2, <1>3 DEF Sync!RoundIsTidy
<1>6. Sync!OldIsOne' /\ Sync!NewIsOne'
  <2>1. ASSUME NEW m PROVE /\ Sync!Of(dirs, m)' <=> Sync!Of(dirs, m)
                           /\ Sync!Of(trash, m)' <=> Sync!Of(trash, m)
    BY <1>1 DEF Sync!Of, Sync!Has
  <2>2. Sync!OldIsOne'
    BY <1>1, <1>3, <2>1, SyncFacts DEF Sync!OldIsOne
  <2>3. Sync!Of(dirs, sync.m)' <=> Sync!Of(dirs, sync.m)
    BY <1>1, <1>3 DEF Sync!Of, Sync!Has
  <2>4. Sync!NewIsOne'
    BY <1>1, <1>3, <2>3, SyncFacts DEF Sync!NewIsOne
  <2> QED BY <2>2, <2>4
<1>7. Sync!ObjectsFirst'
  BY <1>1, <1>3, SyncFacts DEF Sync!ObjectsFirst
<1> QED BY <1>4, <1>5, <1>6, <1>7 DEF Sync!SyncInv

\* The undo takes the new playlists back, or leaves some of them and says so.
LEMMA SyncUndoesIn == ASSUME Sync!SyncInv, Sync!undoIn PROVE Sync!SyncInv'
<1>1. PICK left \in SUBSET {n \in SyncLists : Sync!Has(dirs, n)} :
        /\ \/ left = {} /\ UNCHANGED <<sExcuse, faults>>
           \/ left # {} /\ Sync!Fault("undo") /\ sExcuse' = sExcuse \cup {"undo"}
        /\ dirs' = [n \in SyncLists |-> IF n \in left THEN dirs[n] ELSE {}]
  BY DEF Sync!undoIn
<1>2. /\ sync.pc = "undoIn" /\ sync' = [sync EXCEPT !.pc = "undoOut"]
      /\ UNCHANGED <<served, room, whole, part, staging, trash, sFleet, keys, rules, gone,
                     rotten>>
  BY DEF Sync!undoIn
<1>3. sync \in Rounds /\ SyncTyped /\ sync.m \in Manifests /\ rotten = {}
  BY <1>2, SyncFacts, SyncTypes DEF Sync!RoundIsTidy
<1>4. sync' \in Rounds /\ sync'.pc = "undoOut" /\ sync'.m = sync.m
  BY <1>2, <1>3, RoundGoes
<1>5. /\ dirs' \in Dirs /\ \A n \in SyncLists : dirs'[n] \subseteq dirs[n]
      /\ left = {} => \A n \in SyncLists : dirs'[n] = {}
  <2>1. \A n \in SyncLists : dirs'[n] \in SUBSET Files /\ dirs'[n] \subseteq dirs[n]
    BY <1>1, <1>3 DEF SyncTyped, Dirs
  <2> QED BY <1>1, <2>1 DEF Dirs
<1>6. Sync!TypeOK'
  <2>1. faults' \in 0..MaxFaults /\ sExcuse' \subseteq {"undo", "early", "back"}
    BY <1>1, <1>3, SyncCount, SyncFacts DEF SyncTyped
  <2> QED BY <1>2, <1>3, <1>4, <1>5, <2>1, SyncTypesNext DEF SyncTyped
<1>7. Sync!RoundIsTidy'
  BY <1>3, <1>4 DEF Sync!RoundIsTidy
<1>8. Sync!OldIsOne'
  <2>1. CASE left # {}
    BY <1>1, <2>1 DEF Sync!OldIsOne
  <2>2. CASE left = {}
    <3>1. "undo" \in sExcuse \/ \E m \in Manifests : Sync!Of(trash, m)
      BY SyncFacts DEF Sync!OldIsOne
    <3>2. ASSUME NEW m PROVE Sync!Of(trash', m) <=> Sync!Of(trash, m)
      BY <1>2 DEF Sync!Of, Sync!Has
    <3>3. ASSUME NEW m PROVE Sync!Of(dirs', m)
      BY <1>5, <2>2, EmptyIsOf
    <3> QED BY <1>1, <2>2, <3>1, <3>2, <3>3 DEF Sync!OldIsOne
  <2> QED BY <2>1, <2>2
<1>9. Sync!NewIsOne'
  BY <1>4 DEF Sync!NewIsOne
<1>10. Sync!ObjectsFirst'
  <2>1. \A k \in SyncLists : dirs[k] \cup staging[k] \cup trash[k] \subseteq whole \cup gone
    BY SyncFacts DEF Sync!ObjectsFirst
  <2>2. \A k \in SyncLists : dirs'[k] \cup staging'[k] \cup trash'[k] \subseteq whole' \cup gone'
    BY <1>2, <1>5, <2>1
  <2> QED BY <1>2, <1>3, <1>4, <2>2 DEF Sync!ObjectsFirst
<1> QED BY <1>6, <1>7, <1>8, <1>9, <1>10 DEF Sync!SyncInv

\* The undo brings the old playlists back and empties the hidden directories.
LEMMA SyncUndoesOut == ASSUME Sync!SyncInv, Sync!undoOut PROVE Sync!SyncInv'
<1>1. /\ sync.pc = "undoOut"
      /\ UNCHANGED <<served, room, whole, part, sFleet, keys, rules, gone, rotten, sExcuse, faults>>
  BY DEF Sync!undoOut
<1>2. /\ sync \in Rounds /\ SyncTyped /\ sync.m \in Manifests /\ rotten = {}
      /\ "undo" \in sExcuse \/ \E m \in Manifests : Sync!Of(trash, m) /\ Sync!Of(dirs, m)
      /\ \A k \in SyncLists : dirs[k] \cup staging[k] \cup trash[k] \subseteq whole \cup gone
  BY <1>1, SyncFacts, SyncTypes DEF Sync!RoundIsTidy, Sync!OldIsOne, Sync!ObjectsFirst
<1>3. ASSUME NEW n \in SyncLists, Sync!Has(trash, n), dirs' = [dirs EXCEPT ![n] = trash[n]],
             trash' = [trash EXCEPT ![n] = {}], UNCHANGED <<staging, sync>>
      PROVE  Sync!SyncInv'
  <2>1. /\ trash' \in Dirs /\ trash'[n] = {} /\ dirs' \in Dirs /\ dirs'[n] = trash[n]
        /\ \A k \in SyncLists : k # n => trash'[k] = trash[k] /\ dirs'[k] = dirs[k]
    <3>1. trash \in Dirs /\ dirs \in Dirs
      BY <1>2 DEF SyncTyped
    <3>2. trash' \in Dirs /\ trash'[n] = {} /\ \A k \in SyncLists : k # n => trash'[k] = trash[k]
      BY <1>3, <3>1 DEF Dirs
    <3>3. dirs' \in Dirs /\ dirs'[n] = trash[n] /\ \A k \in SyncLists : k # n => dirs'[k] = dirs[k]
      BY <1>3, <3>1 DEF Dirs
    <3> QED BY <3>2, <3>3
  <2>2. Sync!TypeOK'
    BY <1>1, <1>2, <1>3, <2>1, SyncTypesNext DEF SyncTyped
  <2>3. Sync!RoundIsTidy'
    BY <1>1, <1>2, <1>3 DEF Sync!RoundIsTidy
  <2>4. Sync!OldIsOne'
    <3>1. ASSUME NEW m \in Manifests, Sync!Of(trash, m), Sync!Of(dirs, m)
          PROVE  Sync!Of(trash', m) /\ Sync!Of(dirs', m)
      BY <1>3, <2>1, <3>1 DEF Sync!Of, Sync!Has
    <3> QED BY <1>1, <1>2, <3>1 DEF Sync!OldIsOne
  <2>5. Sync!NewIsOne'
    BY <1>1, <1>3 DEF Sync!NewIsOne
  <2>6. Sync!ObjectsFirst'
    <3>1. ASSUME NEW k \in SyncLists
          PROVE  dirs'[k] \cup staging'[k] \cup trash'[k] \subseteq whole \cup gone
      <4>1. CASE k = n
        BY <1>2, <1>3, <2>1, <4>1
      <4>2. CASE k # n
        BY <1>2, <1>3, <2>1, <4>2
      <4> QED BY <4>1, <4>2
    <3> QED BY <1>1, <1>2, <1>3, <3>1 DEF Sync!ObjectsFirst
  <2> QED BY <2>2, <2>3, <2>4, <2>5, <2>6 DEF Sync!SyncInv
<1>4. ASSUME trash' = Sync!Empty, staging' = Sync!Empty, sync' = Sync!IdleRound, UNCHANGED dirs
      PROVE  Sync!SyncInv'
  <2>1. /\ sync' \in Rounds /\ sync'.pc = "idle" /\ trash' \in Dirs /\ staging' \in Dirs
        /\ \A n \in SyncLists : trash'[n] = {} /\ staging'[n] = {}
    BY <1>4, SyncConstants
  <2>2. Sync!TypeOK'
    BY <1>1, <1>2, <1>4, <2>1, SyncTypesNext DEF SyncTyped
  <2>3. Sync!RoundIsTidy' /\ Sync!NewIsOne'
    BY <1>4, <2>1 DEF Sync!RoundIsTidy, Sync!NewIsOne
  <2>4. Sync!OldIsOne'
    <3>1. ASSUME NEW m PROVE Sync!Of(dirs', m) <=> Sync!Of(dirs, m)
      BY <1>4 DEF Sync!Of, Sync!Has
    <3>2. ASSUME NEW m PROVE Sync!Of(trash', m)
      BY <2>1, EmptyIsOf
    <3> QED BY <1>1, <1>2, <3>1, <3>2 DEF Sync!OldIsOne
  <2>5. Sync!ObjectsFirst'
    BY <1>1, <1>2, <1>4, <2>1 DEF Sync!ObjectsFirst
  <2> QED BY <2>2, <2>3, <2>4, <2>5 DEF Sync!SyncInv
<1> QED BY <1>3, <1>4 DEF Sync!undoOut

\* The manifest is recorded, or its save failed.
LEMMA SyncRecords == ASSUME Sync!SyncInv, Sync!applyRules PROVE Sync!SyncInv'
<1>1. /\ sync.pc = "rules" /\ sync' = Sync!IdleRound
      /\ UNCHANGED <<served, room, whole, part, dirs, staging, trash, gone, rotten>>
      /\ sExcuse' = sExcuse \/ (sExcuse' = {} /\ dirs = sync.m.lists)
  BY DEF Sync!applyRules
<1>2. /\ sync \in Rounds /\ SyncTyped /\ sync.m \in Manifests /\ rotten = {}
      /\ trash = Sync!Empty
  BY <1>1, SyncFacts, SyncTypes DEF Sync!RoundIsTidy
<1>3. sync' \in Rounds /\ sync'.pc = "idle"
  BY <1>1, SyncConstants
<1>4. Sync!TypeOK'
  <2>1. /\ faults' \in 0..MaxFaults
        /\ {sFleet', keys', rules'} \subseteq Manifests \cup {NoManifest}
    <3>1. CASE Sync!Fault("save") /\ UNCHANGED <<sFleet, keys, rules, sExcuse>>
      <4>1. faults' \in 0..MaxFaults
        BY <3>1, SyncCount, SyncFacts
      <4> QED BY <1>2, <3>1, <4>1 DEF SyncTyped
    <3>2. CASE sFleet' = sync.m /\ keys' = sync.m /\ rules' = sync.m /\ UNCHANGED faults
      BY <1>2, <3>2 DEF SyncTyped
    <3> QED BY <3>1, <3>2 DEF Sync!applyRules
  <2> QED BY <1>1, <1>2, <1>3, <2>1, SyncTypesNext DEF SyncTyped
<1>5. CASE sExcuse' = sExcuse
  BY <1>1, <1>2, <1>3, <1>4, <1>5, QuietStep DEF Quiet
<1>6. CASE dirs = sync.m.lists
  <2>1. Sync!RoundIsTidy' /\ Sync!NewIsOne'
    BY <1>1, <1>3, SyncFacts DEF Sync!RoundIsTidy, Sync!NewIsOne
  <2>2. Sync!OldIsOne'
    <3>1. Sync!Of(dirs', sync.m)
      BY <1>1, <1>6 DEF Sync!Of
    <3>2. Sync!Of(trash', sync.m)
      BY <1>1, <1>2, SyncConstants, EmptyIsOf
    <3> QED BY <1>2, <3>1, <3>2 DEF Sync!OldIsOne
  <2>3. Sync!ObjectsFirst'
    BY <1>1, <1>3, SyncFacts DEF Sync!ObjectsFirst
  <2> QED BY <1>4, <2>1, <2>2, <2>3 DEF Sync!SyncInv
<1> QED BY <1>1, <1>5, <1>6

\* A power cut in the middle of anything: what is live is of one manifest, and the next
\* start sweeps the rest.
LEMMA SyncCut == ASSUME Sync!SyncInv, Sync!PowerCut PROVE Sync!SyncInv'
<1>1. /\ sync' = Sync!IdleRound /\ staging' = Sync!Empty /\ trash' = Sync!Empty
      /\ keys' = sFleet /\ rules' = sFleet /\ faults' \in 0..MaxFaults
      /\ UNCHANGED <<served, room, whole, dirs, sFleet, gone, rotten, sExcuse>>
  BY SyncCount, SyncFacts DEF Sync!PowerCut, Sync!sweepLeftovers
<1>2. PICK bad \in SUBSET {f \in Files : part[f].n > 0} :
        part' = [f \in Files |-> IF f \in bad THEN [part[f] EXCEPT !.good = FALSE] ELSE part[f]]
  BY DEF Sync!PowerCut
<1>3. SyncTyped /\ rotten = {} /\ sync \in Rounds
  BY SyncFacts, SyncTypes
<1>4. /\ sync' \in Rounds /\ sync'.pc = "idle" /\ trash' \in Dirs /\ staging' \in Dirs
      /\ \A n \in SyncLists : trash'[n] = {} /\ staging'[n] = {}
  BY <1>1, SyncConstants
<1>5. part' \in [Files -> [n : Nat, good : BOOLEAN]] /\ \A f \in Files : part'[f].n < Size[f]
  <2>1. ASSUME NEW f \in Files
        PROVE  part'[f] \in [n : Nat, good : BOOLEAN] /\ part'[f].n < Size[f]
    <3>1. part[f] \in [n : Nat, good : BOOLEAN] /\ part[f].n < Size[f]
      BY <1>3 DEF SyncTyped
    <3>2. part'[f] \in {part[f], [part[f] EXCEPT !.good = FALSE]}
      BY <1>2
    <3>3. /\ [part[f] EXCEPT !.good = FALSE] \in [n : Nat, good : BOOLEAN]
          /\ [part[f] EXCEPT !.good = FALSE].n = part[f].n
      BY <3>1
    <3> QED BY <3>1, <3>2, <3>3
  <2> QED BY <1>2, <2>1
<1>6. Sync!TypeOK'
  BY <1>1, <1>3, <1>4, <1>5, SyncTypesNext DEF SyncTyped
<1>7. Sync!RoundIsTidy' /\ Sync!NewIsOne'
  BY <1>1, <1>4 DEF Sync!RoundIsTidy, Sync!NewIsOne
<1>8. Sync!OldIsOne'
  <2>1. ASSUME NEW m PROVE Sync!Of(dirs', m) <=> Sync!Of(dirs, m)
    BY <1>1 DEF Sync!Of, Sync!Has
  <2>2. ASSUME NEW m PROVE Sync!Of(trash', m)
    BY <1>4, EmptyIsOf
  <2>3. CASE sync.pc \in {"in", "undoIn"}
    <3>1. sync.m \in Manifests /\ Sync!Of(dirs, sync.m)
      BY <2>3, SyncFacts DEF Sync!RoundIsTidy, Sync!NewIsOne
    <3>2. sync.m \in Manifests /\ Sync!Of(dirs', sync.m) /\ Sync!Of(trash', sync.m)
      BY <1>1, <1>4, <3>1, EmptyIsOf DEF Sync!Of, Sync!Has
    <3> QED BY <3>2 DEF Sync!OldIsOne
  <2>4. CASE sync.pc \notin {"in", "undoIn"}
    <3>1. "undo" \in sExcuse \/ \E m \in Manifests : Sync!Of(dirs, m)
      BY <2>4, SyncFacts DEF Sync!OldIsOne
    <3> QED BY <1>1, <2>1, <2>2, <3>1 DEF Sync!OldIsOne
  <2> QED BY <2>3, <2>4
<1>9. Sync!ObjectsFirst'
  BY <1>1, <1>3, <1>4, SyncFacts DEF Sync!ObjectsFirst
<1> QED BY <1>6, <1>7, <1>8, <1>9 DEF Sync!SyncInv

\* A person takes an object or a playlist from the card.
LEMMA SyncLaptop == ASSUME Sync!SyncInv, Sync!Laptop PROVE Sync!SyncInv'
<1>1. /\ sync.pc = "idle" /\ faults' \in 0..MaxFaults /\ keys' = sFleet /\ rules' = sFleet
      /\ UNCHANGED <<served, room, part, staging, trash, sFleet, sync, sExcuse>>
  BY SyncCount, SyncFacts DEF Sync!Laptop
<1>2. SyncTyped /\ rotten = {} /\ sync \in Rounds
  BY SyncFacts, SyncTypes
<1>3. ASSUME NEW f \in whole, whole' = whole \ {f}, rotten' = rotten \ {f},
             gone' = gone \cup {f}, UNCHANGED dirs
      PROVE  Sync!SyncInv'
  <2>1. Sync!TypeOK'
    BY <1>1, <1>2, <1>3, SyncTypesNext DEF SyncTyped
  <2>2. whole \cup gone \subseteq whole' \cup gone' /\ rotten' = {}
    BY <1>2, <1>3
  <2> QED BY <1>1, <1>3, <2>1, <2>2, QuietStep
<1>4. ASSUME NEW n \in SyncLists, dirs' = [dirs EXCEPT ![n] = {}], UNCHANGED <<whole, gone, rotten>>
      PROVE  Sync!SyncInv'
  <2>1. dirs' \in Dirs /\ dirs'[n] = {} /\ \A k \in SyncLists : k # n => dirs'[k] = dirs[k]
    BY <1>2, <1>4 DEF SyncTyped, Dirs
  <2>2. Sync!TypeOK'
    BY <1>1, <1>2, <1>4, <2>1, SyncTypesNext DEF SyncTyped
  <2>3. Sync!RoundIsTidy' /\ Sync!NewIsOne'
    BY <1>1, SyncFacts DEF Sync!RoundIsTidy, Sync!NewIsOne
  <2>4. Sync!OldIsOne'
    <3>1. \/ "undo" \in sExcuse \/ \E m \in Manifests : Sync!Of(trash, m) /\ Sync!Of(dirs, m)
      BY <1>1, SyncFacts DEF Sync!OldIsOne
    <3>2. ASSUME NEW m, Sync!Of(trash, m), Sync!Of(dirs, m)
          PROVE  Sync!Of(trash', m) /\ Sync!Of(dirs', m)
      BY <1>1, <2>1, <3>2 DEF Sync!Of, Sync!Has
    <3> QED BY <1>1, <3>1, <3>2 DEF Sync!OldIsOne
  <2>5. Sync!ObjectsFirst'
    <3>1. \A k \in SyncLists : dirs[k] \cup staging[k] \cup trash[k] \subseteq whole \cup gone
      BY SyncFacts DEF Sync!ObjectsFirst
    <3>2. ASSUME NEW k \in SyncLists
          PROVE  dirs'[k] \cup staging'[k] \cup trash'[k] \subseteq whole \cup gone
      <4>1. CASE k = n
        BY <1>1, <2>1, <3>1, <4>1
      <4>2. CASE k # n
        BY <1>1, <2>1, <3>1, <4>2
      <4> QED BY <4>1, <4>2
    <3> QED BY <1>1, <1>2, <1>4, <3>2 DEF Sync!ObjectsFirst
  <2> QED BY <2>2, <2>3, <2>4, <2>5 DEF Sync!SyncInv
<1> QED BY <1>3, <1>4 DEF Sync!Laptop

\* The server has another manifest, or local files take their room: the card stays.
LEMMA SyncServed ==
    ASSUME Sync!SyncInv,
           (\E m \in Manifests : Sync!NewManifest(m)) \/ (\E r \in Rooms : Sync!NewRoom(r))
    PROVE  Sync!SyncInv'
<1>1. /\ faults' \in 0..MaxFaults /\ served' \in Manifests /\ room' \in Rooms
      /\ UNCHANGED <<whole, part, dirs, staging, trash, sFleet, keys, rules, sync, gone, rotten>>
      /\ sExcuse' \in {sExcuse, sExcuse \cup {"back"}}
  <2>1. faults' \in 0..MaxFaults
    BY SyncCount, SyncFacts DEF Sync!NewManifest, Sync!NewRoom
  <2>2. served \in Manifests /\ room \in Rooms
    BY SyncFacts, SyncTypes DEF SyncTyped
  <2>3. ASSUME NEW m \in Manifests, Sync!NewManifest(m)
        PROVE  /\ served' \in Manifests /\ room' \in Rooms
               /\ UNCHANGED <<whole, part, dirs, staging, trash, sFleet, keys, rules, sync, gone, rotten>>
               /\ sExcuse' \in {sExcuse, sExcuse \cup {"back"}}
    <3>1. sExcuse \cup {} = sExcuse
      OBVIOUS
    <3> QED BY <2>2, <2>3, <3>1 DEF Sync!NewManifest, Sync!cardVars
  <2>4. ASSUME NEW r \in Rooms, Sync!NewRoom(r)
        PROVE  /\ served' \in Manifests /\ room' \in Rooms
               /\ UNCHANGED <<whole, part, dirs, staging, trash, sFleet, keys, rules, sync, gone, rotten>>
               /\ sExcuse' \in {sExcuse, sExcuse \cup {"back"}}
    BY <2>2, <2>4 DEF Sync!NewRoom, Sync!cardVars
  <2> QED BY <2>1, <2>3, <2>4
<1>2. SyncTyped /\ rotten = {} /\ sync \in Rounds
  BY SyncFacts, SyncTypes
<1>3. Sync!TypeOK'
  BY <1>1, <1>2, SyncTypesNext DEF SyncTyped
<1>4. /\ sync'.pc # "idle" => sync'.m \in Manifests
      /\ sync'.pc \in {"room", "fetch"} =>
            Sync!Used(sync'.m) \subseteq whole' \cup sync'.need \cup gone'
  BY <1>1, SyncFacts DEF Sync!RoundIsTidy, Sync!ObjectsFirst
<1> QED BY <1>1, <1>2, <1>3, <1>4, QuietStep

\* A new card has nothing on it.
LEMMA SyncInit == Sync!Init => Sync!SyncInv
<1> SUFFICES ASSUME Sync!Init PROVE Sync!SyncInv
  OBVIOUS
<1>1. /\ served \in Manifests /\ room \in Rooms /\ whole = {}
      /\ part = [f \in Files |-> Sync!NoPart]
      /\ dirs = Sync!Empty /\ staging = Sync!Empty /\ trash = Sync!Empty
      /\ sFleet = NoManifest /\ keys = NoManifest /\ rules = NoManifest
      /\ sync = Sync!IdleRound /\ gone = {} /\ rotten = {} /\ sExcuse = {} /\ faults = 0
  BY DEF Sync!Init
<1>2. Sync!TypeOK
  BY <1>1, SyncConstants, SyncTypes DEF SyncTyped
<1>3. Sync!RoundIsTidy /\ Sync!NewIsOne
  BY <1>1, SyncConstants DEF Sync!RoundIsTidy, Sync!NewIsOne
<1>4. Sync!OldIsOne
  <2>1. ASSUME NEW m PROVE Sync!Of(dirs, m) /\ Sync!Of(trash, m)
    BY <1>1, SyncConstants, EmptyIsOf
  <2> QED BY <1>1, <2>1 DEF Sync!OldIsOne
<1>5. Sync!ObjectsFirst
  BY <1>1, SyncConstants DEF Sync!ObjectsFirst
<1> QED BY <1>2, <1>3, <1>4, <1>5 DEF Sync!SyncInv

\* Every step of the sync keeps the invariant.
LEMMA SyncStep == ASSUME Sync!SyncInv, Sync!Next PROVE Sync!SyncInv'
BY SyncBegins, SyncMakesRoom, SyncFetches, SyncWrites, SyncSwapsOut, SyncSwapsIn, SyncSwapEnds,
   SyncRenameFails, SyncUndoesIn, SyncUndoesOut, SyncRecords, SyncCut, SyncLaptop, SyncServed
   DEF Sync!Next

\* A component that is not in focus does not move.
LEMMA SyncFrame == ASSUME Sync!SyncInv, UNCHANGED syncVars PROVE Sync!SyncInv'
<1>1. UNCHANGED <<served, room, whole, part, dirs, staging, trash, sFleet, keys, rules, sync,
                  gone, rotten, sExcuse, faults>>
  BY DEF syncVars
<1>2. SyncTyped' = SyncTyped /\ Sync!TypeOK'
  BY <1>1, SyncFacts, SyncTypes, SyncTypesNext DEF SyncTyped
<1>3. /\ sync'.pc # "idle" => sync'.m \in Manifests
      /\ sync'.pc \in {"room", "fetch"} =>
            Sync!Used(sync'.m) \subseteq whole' \cup sync'.need \cup gone'
  BY <1>1, SyncFacts DEF Sync!RoundIsTidy, Sync!ObjectsFirst
<1> QED BY <1>1, <1>2, <1>3, SyncFacts, QuietStep

\* CardIsWhole (a playlist is the old one or the new one, and its objects are there):
\* for every set of manifests, files and rooms and any number of cuts, failed renames,
\* broken downloads and evictions, the live playlists are of one manifest unless a
\* rename of an undo failed, and each object of theirs is on the card with its own
\* bytes unless it was evicted or taken by hand.
THEOREM CardSafe == DeviceSpec => []CardIsWhole
<1>1. DeviceInit => Sync!SyncInv
  BY SyncInit DEF DeviceInit
<1>2. Sync!SyncInv /\ [DeviceNext]_deviceVars => Sync!SyncInv'
  <2> SUFFICES ASSUME Sync!SyncInv, [DeviceNext]_deviceVars PROVE Sync!SyncInv'
    OBVIOUS
  <2>1. Sync!Next \/ UNCHANGED syncVars
    BY DEF DeviceNext, OfPower, OfSync, OfEditor, OfHash, OfConfig, OfSched, OfInstall, deviceVars
  <2> QED BY <2>1, SyncStep, SyncFrame
<1>3. Sync!SyncInv => CardIsWhole
  <2> SUFFICES ASSUME Sync!SyncInv PROVE Sync!CardIsWhole
    BY DEF CardIsWhole
  <2>1. Sync!NeverMixed
    <3>1. CASE sync.pc \in {"in", "undoIn"}
      <4>1. sync.m \in Manifests /\ Sync!Of(dirs, sync.m)
        BY <3>1, SyncFacts DEF Sync!RoundIsTidy, Sync!NewIsOne
      <4> QED BY <4>1 DEF Sync!NeverMixed, Sync!Of
    <3>2. CASE sync.pc \notin {"in", "undoIn"}
      BY <3>2, SyncFacts DEF Sync!OldIsOne, Sync!NeverMixed, Sync!Of
    <3> QED BY <3>1, <3>2
  <2>2. Sync!ItemsOnCard
    BY SyncFacts DEF Sync!ObjectsFirst, Sync!ItemsOnCard
  <2> QED BY <2>1, <2>2, SyncFacts DEF Sync!CardIsWhole
<1> QED BY <1>1, <1>2, <1>3, PTL DEF DeviceSpec

-----------------------------------------------------------------------------
(* The hash cache.                                                         *)

HPaths == Local \cup {Object}
Seen == [HPaths -> 0..MaxVersions]
Caches == [HPaths -> [stamp : 0..MaxVersions, sha : 0..MaxVersions]]
Snaps == [root : BOOLEAN, paired : BOOLEAN, bad : BOOLEAN, seen : Seen]
Passes ==
    [pc : {"idle", "prune", "files", "read", "save"}, todo : SUBSET HPaths, seen : Seen,
     skip : SUBSET HPaths, root : BOOLEAN, fleet : BOOLEAN, at : HPaths,
     fd : 0..MaxVersions, copy : Caches, moved : BOOLEAN]

\* What TypeOK of the cache says.
HashTyped ==
    /\ hDisk \in Seen /\ hMade \in 0..MaxVersions /\ hEvents \in 0..MaxHash
    /\ {parses, hPaired, wake, dirty} \subseteq BOOLEAN
    /\ hSnap \in Snaps /\ pass \in Passes /\ entries \in Caches /\ hFile \in Caches

\* It is what TypeOK says.
LEMMA HashTypes == Hash!TypeOK <=> HashTyped
BY Zenon DEF Hash!TypeOK, Hash!Caches, Hash!Paths, Hash!Versions, HashTyped, HPaths, Seen,
   Caches, Snaps, Passes

\* The same after a step.
LEMMA HashTypesNext == Hash!TypeOK' <=> HashTyped'
<1>1. (Hash!TypeOK <=> HashTyped)'
  BY HashTypes, PTL
<1> QED BY <1>1

\* The parts of the invariant, with the names of this module.
HashParts ==
    /\ HashTyped
    /\ dirty = FALSE => hFile = entries
    /\ Hash!Own(entries) /\ Hash!Own(hFile) /\ Hash!Own(pass.copy)
    /\ pass.pc = "save" /\ pass.moved = FALSE => pass.copy = entries

\* They are the invariant.
LEMMA HashInvIs == Hash!HashInv <=> HashParts
<1>1. HashTyped => dirty \in BOOLEAN /\ pass.moved \in BOOLEAN
  BY DEF HashTyped, Passes
<1> QED BY <1>1, HashTypes DEF Hash!HashInv, HashParts, Hash!SavedIsOnDisk

\* The same after a step.
LEMMA HashInvNext == Hash!HashInv' <=> HashParts'
<1>1. (Hash!HashInv <=> HashParts)'
  BY HashInvIs, PTL
<1> QED BY <1>1

\* A new cache is empty, and so is a pass at rest.
LEMMA HashConstants ==
    /\ Hash!Empty \in Caches /\ Hash!Own(Hash!Empty)
    /\ Hash!IdlePass \in Passes /\ Hash!IdlePass.pc = "idle" /\ Hash!IdlePass.copy = Hash!Empty
    /\ MaxVersions \in Nat /\ MaxHash \in Nat
<1>1. MaxVersions \in Nat /\ MaxHash \in Nat /\ 0 \in 0..MaxVersions
  BY BoundAssumption
<1>2. Hash!Empty = [p \in HPaths |-> [stamp |-> 0, sha |-> 0]]
  BY DEF Hash!Empty, Hash!NoEntry, Hash!Paths, HPaths
<1>3. Hash!Empty \in Caches /\ Hash!Own(Hash!Empty)
  BY <1>1, <1>2 DEF Caches, Hash!Own, Hash!Paths, HPaths
<1>4. /\ Object \in HPaths /\ [p \in HPaths |-> 0] \in Seen
  BY <1>1 DEF HPaths, Seen
<1>5. Hash!IdlePass =
        [pc |-> "idle", todo |-> {}, seen |-> [p \in HPaths |-> 0], skip |-> {}, root |-> TRUE,
         fleet |-> FALSE, at |-> Object, fd |-> 0, copy |-> Hash!Empty, moved |-> FALSE]
  BY DEF Hash!IdlePass, Hash!Paths, HPaths
<1> QED BY <1>1, <1>3, <1>4, <1>5 DEF Passes

\* A scan sees files that are there.
LEMMA HashScans == ASSUME HashTyped, NEW ok \in BOOLEAN PROVE Hash!Scan(ok) \in Snaps
<1>1. /\ hDisk \in Seen /\ hPaired \in BOOLEAN /\ parses \in BOOLEAN /\ 0 \in 0..MaxVersions
  BY HashConstants DEF HashTyped
<1> DEFINE s == [p \in HPaths |->
                   IF ok /\ (IF p = Object THEN hPaired ELSE parses) THEN hDisk[p] ELSE 0]
<1>2. s \in Seen
  BY <1>1 DEF Seen
<1>3. Hash!Scan(ok) = [root |-> ok, paired |-> hPaired, bad |-> ok /\ ~parses, seen |-> s]
  BY DEF Hash!Scan, Hash!Paths, HPaths
<1> HIDE DEF s
<1>4. (ok /\ ~parses) \in BOOLEAN
  OBVIOUS
<1> QED BY <1>1, <1>2, <1>3, <1>4 DEF Snaps

\* An event stays in its bound.
LEMMA HashCount ==
    ASSUME hEvents \in 0..MaxHash, NEW e, Hash!Event(e) \/ UNCHANGED hEvents
    PROVE  hEvents' \in 0..MaxHash
BY HashConstants DEF Hash!Event

\* A hash with its stamp goes into the cache.
LEMMA HashPuts ==
    ASSUME HashParts, NEW p \in HPaths, NEW x \in 0..MaxVersions, Hash!Put(p, x, x)
    PROVE  entries' \in Caches /\ Hash!Own(entries') /\ dirty' = TRUE /\ hFile' = hFile
<1> DEFINE e == [stamp |-> x, sha |-> x]
<1>1. e \in [stamp : 0..MaxVersions, sha : 0..MaxVersions] /\ e.stamp = e.sha
  OBVIOUS
<1>2. entries' = [entries EXCEPT ![p] = e] /\ dirty' = TRUE /\ hFile' = hFile
  BY DEF Hash!Put
<1>3. entries \in Caches /\ Hash!Own(entries)
  BY DEF HashParts, HashTyped
<1> HIDE DEF e
<1>4. entries' \in Caches
  BY <1>1, <1>2, <1>3 DEF Caches
<1>5. \A q \in HPaths : entries'[q].stamp = entries'[q].sha
  BY <1>1, <1>2, <1>3 DEF Caches, Hash!Own, Hash!Paths, HPaths
<1> QED BY <1>2, <1>4, <1>5 DEF Hash!Own, Hash!Paths, HPaths

\* The steps of the pass that leave the cache alone.
LEMMA HashLooks ==
    ASSUME HashParts, Hash!hashPending \/ Hash!hashFile \/ Hash!save PROVE HashParts'
<1>1. /\ HashTyped /\ pass \in Passes /\ hDisk \in Seen /\ hSnap \in Snaps /\ hFile \in Caches
      /\ entries \in Caches /\ dirty \in BOOLEAN /\ Hash!Own(pass.copy) /\ Hash!Own(entries)
  BY DEF HashParts, HashTyped
<1>2. /\ UNCHANGED <<hDisk, parses, hPaired, hSnap, hMade, entries, dirty, hFile, hEvents>>
      /\ wake' \in BOOLEAN
  BY <1>1 DEF Hash!hashPending, Hash!hashFile, Hash!save, Hash!world, HashTyped
<1>3. /\ pass' \in Passes /\ Hash!Own(pass'.copy)
      /\ pass'.pc = "save" => pass'.copy = entries
  <2>1. CASE Hash!hashPending
    <3> DEFINE todo == {p \in HPaths : hSnap.seen[p] # 0 /\ Hash!NotKnown(p)}
               skip == IF hSnap.bad THEN Local ELSE {}
    <3>1. /\ todo \in SUBSET HPaths /\ skip \in SUBSET HPaths
          /\ hSnap.seen \in Seen /\ hSnap.root \in BOOLEAN /\ hSnap.paired \in BOOLEAN
      BY <1>1 DEF HPaths, Snaps
    <3>2. pass' = [Hash!IdlePass EXCEPT !.pc = "prune", !.seen = hSnap.seen, !.root = hSnap.root,
                       !.skip = skip, !.fleet = hSnap.paired, !.todo = todo]
      BY <2>1 DEF Hash!hashPending, Hash!Paths, HPaths
    <3> HIDE DEF todo, skip
    <3>3. pass' \in Passes /\ pass'.pc = "prune" /\ pass'.copy = Hash!IdlePass.copy
      BY <3>1, <3>2, HashConstants DEF Passes
    <3> QED BY <3>3, HashConstants
  <2>2. CASE Hash!hashFile
    <3>1. PICK p \in pass.todo :
            pass' = IF hDisk[p] = 0 THEN [pass EXCEPT !.todo = @ \ {p}]
                    ELSE [pass EXCEPT !.pc = "read", !.todo = @ \ {p}, !.at = p, !.fd = hDisk[p]]
      BY <2>2 DEF Hash!hashFile
    <3>2. p \in HPaths /\ hDisk[p] \in 0..MaxVersions /\ pass.pc = "files"
      BY <1>1, <2>2 DEF Passes, Seen, Hash!hashFile
    <3>3. pass' \in Passes /\ pass'.pc \in {"files", "read"} /\ pass'.copy = pass.copy
      BY <1>1, <3>1, <3>2 DEF Passes
    <3> QED BY <1>1, <3>3
  <2>3. CASE Hash!save
    <3>1. CASE pass' = Hash!IdlePass
      BY <3>1, HashConstants
    <3>2. CASE pass' = [Hash!IdlePass EXCEPT !.pc = "save", !.copy = entries]
      <4>1. pass' \in Passes /\ pass'.copy = entries
        BY <1>1, <3>2, HashConstants DEF Passes
      <4> QED BY <1>1, <4>1
    <3> QED BY <2>3, <3>1, <3>2 DEF Hash!save
  <2> QED BY <2>1, <2>2, <2>3
<1>4. HashTyped'
  BY <1>1, <1>2, <1>3 DEF HashTyped
<1>5. Hash!Own(entries)' /\ Hash!Own(hFile)' /\ Hash!Own(pass.copy)'
  BY <1>2, <1>3 DEF HashParts, Hash!Own
<1> QED BY <1>2, <1>3, <1>4, <1>5 DEF HashParts

\* What a pass drops, it drops with its stamp.
LEMMA HashPrunes == ASSUME HashParts, Hash!prune PROVE HashParts'
<1> DEFINE skip == pass.skip \cup (IF hPaired THEN {} ELSE {Object})
           lost == {p \in HPaths \ skip : pass.root /\ pass.seen[p] = 0 /\ entries[p] # Hash!NoEntry}
<1>1. /\ pass.pc = "prune" /\ pass' = [pass EXCEPT !.pc = "files"]
      /\ entries' = [p \in HPaths |-> IF p \in lost THEN Hash!NoEntry ELSE entries[p]]
      /\ dirty' = (dirty \/ lost # {})
      /\ UNCHANGED <<hDisk, parses, hPaired, hSnap, hMade, wake, hFile, hEvents>>
  BY DEF Hash!prune, Hash!world, Hash!Paths, HPaths
<1>2. /\ HashTyped /\ pass \in Passes /\ entries \in Caches /\ dirty \in BOOLEAN
      /\ dirty = FALSE => hFile = entries
      /\ Hash!Own(pass.copy) /\ Hash!Own(entries) /\ Hash!Own(hFile)
  BY DEF HashParts, HashTyped
<1>3. pass' \in Passes /\ pass'.pc = "files" /\ pass'.copy = pass.copy
  BY <1>1, <1>2 DEF Passes
<1> HIDE DEF lost
<1>4. entries' \in Caches /\ (lost = {} => entries' = entries)
  <2>1. Hash!NoEntry \in [stamp : 0..MaxVersions, sha : 0..MaxVersions]
    BY HashConstants DEF Hash!NoEntry
  <2> QED BY <1>1, <1>2, <2>1 DEF Caches
<1>5. Hash!Own(entries')
  <2>1. Hash!NoEntry.stamp = Hash!NoEntry.sha
    BY DEF Hash!NoEntry
  <2> QED BY <1>1, <1>2, <2>1 DEF Hash!Own, Hash!Paths, HPaths
<1>6. dirty' \in BOOLEAN /\ (dirty' = FALSE => dirty = FALSE /\ lost = {})
  BY <1>1, <1>2
<1>7. HashTyped'
  BY <1>1, <1>2, <1>3, <1>4, <1>6 DEF HashTyped
<1>8. Hash!Own(hFile)' /\ Hash!Own(pass.copy)' /\ Hash!Own(entries)'
  BY <1>1, <1>2, <1>3, <1>5 DEF Hash!Own
<1> QED BY <1>1, <1>2, <1>3, <1>4, <1>6, <1>7, <1>8 DEF HashParts

\* A hash of the pass: the stamp is that of the file that was read.
LEMMA HashFinds == ASSUME HashParts, Hash!HashDone PROVE HashParts'
<1>1. /\ pass.pc = "read" /\ pass' = [pass EXCEPT !.pc = "files", !.fd = 0]
      /\ Hash!Put(pass.at, pass.fd, pass.fd)
      /\ UNCHANGED <<hDisk, parses, hPaired, hSnap, hMade, wake, hEvents>>
  BY DEF Hash!HashDone, Hash!StampAfter, Hash!world
<1>2. /\ HashTyped /\ pass \in Passes /\ Hash!Own(pass.copy) /\ Hash!Own(hFile)
  BY DEF HashParts, HashTyped
<1>3. pass.at \in HPaths /\ pass.fd \in 0..MaxVersions
  BY <1>2 DEF Passes
<1>4. entries' \in Caches /\ Hash!Own(entries') /\ dirty' = TRUE /\ hFile' = hFile
  <2> DEFINE p == pass.at
             x == pass.fd
  <2>1. p \in HPaths /\ x \in 0..MaxVersions /\ Hash!Put(p, x, x)
    BY <1>1, <1>3
  <2> HIDE DEF p, x
  <2> QED BY <2>1, HashPuts
<1>5. pass' \in Passes /\ pass'.pc = "files" /\ pass'.copy = pass.copy
  <2>1. 0 \in 0..MaxVersions /\ pass' = [pass EXCEPT !.pc = "files", !.fd = 0] /\ pass \in Passes
    BY <1>1, <1>2, HashConstants
  <2> QED BY <2>1 DEF Passes
<1>6. HashTyped'
  BY <1>1, <1>2, <1>4, <1>5 DEF HashTyped
<1>7. Hash!Own(hFile)' /\ Hash!Own(pass.copy)' /\ Hash!Own(entries)'
  BY <1>2, <1>4, <1>5 DEF Hash!Own
<1> QED BY <1>4, <1>5, <1>6, <1>7 DEF HashParts

\* The write of a save: the cache counts as saved only when nothing moved meanwhile.
LEMMA HashSaves == ASSUME HashParts, Hash!SaveWrite PROVE HashParts'
<1>1. /\ pass.pc = "save" /\ pass' = Hash!IdlePass
      /\ UNCHANGED <<hDisk, parses, hPaired, hSnap, hMade, wake, entries>>
      /\ \/ hFile' = pass.copy /\ dirty' = pass.moved /\ UNCHANGED hEvents
         \/ Hash!Event("save") /\ UNCHANGED <<hFile, dirty>>
  BY DEF Hash!SaveWrite, Hash!world, Hash!StillDirty
<1>2. /\ HashTyped /\ pass \in Passes /\ entries \in Caches /\ dirty \in BOOLEAN
      /\ dirty = FALSE => hFile = entries
      /\ Hash!Own(pass.copy) /\ Hash!Own(entries) /\ Hash!Own(hFile)
      /\ pass.moved = FALSE => pass.copy = entries
  BY <1>1 DEF HashParts, HashTyped
<1>3. /\ pass' \in Passes /\ pass'.pc = "idle" /\ pass'.copy = Hash!Empty
      /\ pass.copy \in Caches /\ pass.moved \in BOOLEAN /\ hEvents' \in 0..MaxHash
  BY <1>1, <1>2, HashConstants, HashCount DEF Passes, HashTyped
<1>4. HashTyped'
  BY <1>1, <1>2, <1>3 DEF HashTyped
<1>5. dirty' = FALSE => hFile' = entries'
  BY <1>1, <1>2
<1>6. Hash!Own(hFile)' /\ Hash!Own(pass.copy)' /\ Hash!Own(entries)'
  BY <1>1, <1>2, <1>3, HashConstants DEF Hash!Own
<1> QED BY <1>3, <1>4, <1>5, <1>6 DEF HashParts

\* The fleet client notes the hash of what it stored; a save that runs learns of it.
LEMMA HashNotes == ASSUME HashParts, Hash!NoteSHA PROVE HashParts'
<1>1. /\ Hash!Put(Object, hDisk[Object], hDisk[Object])
      /\ pass' = [pass EXCEPT !.moved = pass.pc = "save"]
      /\ UNCHANGED <<hDisk, parses, hPaired, hSnap, hMade, wake, hEvents>>
  BY DEF Hash!NoteSHA, Hash!world
<1>2. /\ HashTyped /\ pass \in Passes /\ Hash!Own(pass.copy) /\ Hash!Own(hFile)
      /\ Object \in HPaths /\ hDisk[Object] \in 0..MaxVersions
  BY DEF HashParts, HashTyped, Seen, HPaths
<1>3. entries' \in Caches /\ Hash!Own(entries') /\ dirty' = TRUE /\ hFile' = hFile
  <2> DEFINE p == Object
             x == hDisk[Object]
  <2>1. p \in HPaths /\ x \in 0..MaxVersions /\ Hash!Put(p, x, x)
    BY <1>1, <1>2
  <2> HIDE DEF p, x
  <2> QED BY <2>1, HashPuts
<1>4. /\ pass' \in Passes /\ pass'.copy = pass.copy
      /\ pass'.pc = "save" => pass'.moved = TRUE
  <2> DEFINE b == pass.pc = "save"
  <2>1. b \in BOOLEAN /\ pass' = [pass EXCEPT !.moved = b] /\ (pass.pc = "save" => b = TRUE)
    BY <1>1
  <2> HIDE DEF b
  <2> QED BY <1>2, <2>1 DEF Passes
<1>5. HashTyped'
  BY <1>1, <1>2, <1>3, <1>4 DEF HashTyped
<1>6. Hash!Own(hFile)' /\ Hash!Own(pass.copy)' /\ Hash!Own(entries)'
  BY <1>2, <1>3, <1>4 DEF Hash!Own
<1> QED BY <1>3, <1>4, <1>5, <1>6 DEF HashParts

\* Files, scans, the pairing and a person leave the cache alone.
LEMMA HashWorld ==
    ASSUME HashParts,
           \/ \E p \in HPaths : Hash!FileChanges(p)
           \/ Hash!store \/ Hash!Pairing \/ Hash!Person
    PROVE  HashParts'
<1>1. /\ HashTyped /\ hDisk \in Seen /\ hMade \in 0..MaxVersions /\ hSnap \in Snaps
      /\ hEvents \in 0..MaxHash
      /\ parses \in BOOLEAN /\ hPaired \in BOOLEAN /\ wake \in BOOLEAN
  BY DEF HashParts, HashTyped
<1>2. UNCHANGED <<pass, entries, dirty, hFile>>
  BY DEF Hash!FileChanges, Hash!store, Hash!Pairing, Hash!Person
<1>3. /\ hDisk' \in Seen /\ hMade' \in 0..MaxVersions
  <2>1. ASSUME NEW p \in HPaths, Hash!FileChanges(p)
        PROVE  hDisk' \in Seen /\ hMade' \in 0..MaxVersions
    <3>1. /\ hMade < MaxVersions /\ hMade' = hMade + 1
          /\ hDisk' \in {[hDisk EXCEPT ![p] = 0], [hDisk EXCEPT ![p] = hMade']}
      BY <2>1 DEF Hash!FileChanges
    <3>2. hMade' \in 0..MaxVersions /\ 0 \in 0..MaxVersions
      BY <1>1, <3>1, HashConstants
    <3> QED BY <1>1, <3>1, <3>2 DEF Seen
  <2>2. Hash!store \/ Hash!Pairing \/ Hash!Person => UNCHANGED <<hDisk, hMade>>
    BY DEF Hash!store, Hash!Pairing, Hash!Person
  <2> QED BY <1>1, <2>1, <2>2
<1>4. hSnap' \in Snaps
  <2>1. CASE Hash!store
    BY <1>1, <2>1, HashScans DEF Hash!store
  <2>2. CASE hSnap' = hSnap
    BY <1>1, <2>2
  <2> QED BY <2>1, <2>2 DEF Hash!FileChanges, Hash!Pairing, Hash!Person
<1>5. hEvents' \in 0..MaxHash
  <2>1. (\E e : Hash!Event(e)) \/ UNCHANGED hEvents
    BY DEF Hash!FileChanges, Hash!store, Hash!Pairing, Hash!Person
  <2> QED BY <1>1, <2>1, HashCount
<1>6. parses' \in BOOLEAN /\ hPaired' \in BOOLEAN /\ wake' \in BOOLEAN
  BY <1>1 DEF Hash!FileChanges, Hash!store, Hash!Pairing, Hash!Person
<1>7. HashTyped'
  BY <1>1, <1>2, <1>3, <1>4, <1>5, <1>6 DEF HashTyped
<1> QED BY <1>2, <1>7 DEF HashParts, Hash!Own

\* The daemon starts again with the cache of the disk.
LEMMA HashRestarts == ASSUME HashParts, Hash!loadCache PROVE HashParts'
<1>1. /\ HashTyped /\ hFile \in Caches /\ Hash!Own(hFile) /\ hEvents \in 0..MaxHash
  BY DEF HashParts, HashTyped
<1>2. /\ hSnap' = Hash!Scan(TRUE) /\ wake' = TRUE /\ pass' = Hash!IdlePass
      /\ entries' = hFile /\ dirty' = FALSE /\ hFile' = hFile
      /\ UNCHANGED <<hDisk, parses, hPaired, hMade>>
  BY DEF Hash!loadCache
<1>3. hSnap' \in Snaps /\ hEvents' \in 0..MaxHash
  BY <1>1, <1>2, HashScans, HashCount DEF Hash!loadCache
<1>4. HashTyped'
  BY <1>1, <1>2, <1>3, HashConstants DEF HashTyped
<1>5. Hash!Own(hFile)' /\ Hash!Own(pass.copy)' /\ Hash!Own(entries)' /\ pass'.pc = "idle"
  BY <1>1, <1>2, HashConstants DEF Hash!Own
<1> QED BY <1>2, <1>4, <1>5 DEF HashParts

\* A new device has an empty cache.
LEMMA HashInit == Hash!Init => Hash!HashInv
<1> SUFFICES ASSUME Hash!Init PROVE HashParts
  BY HashInvIs
<1>1. /\ hDisk = [p \in HPaths |-> 0] /\ parses = TRUE /\ hPaired = FALSE
      /\ hSnap = Hash!Scan(TRUE) /\ wake = TRUE /\ pass = Hash!IdlePass
      /\ entries = Hash!Empty /\ hFile = Hash!Empty /\ dirty = FALSE /\ hMade = 0 /\ hEvents = 0
  BY DEF Hash!Init, Hash!Paths, HPaths
<1>2. 0 \in 0..MaxVersions /\ 0 \in 0..MaxHash
  BY HashConstants
<1>3. hDisk \in Seen
  BY <1>1, <1>2 DEF Seen
<1>4. hSnap \in Snaps
  <2> DEFINE s == [p \in HPaths |->
                     IF TRUE /\ (IF p = Object THEN hPaired ELSE parses) THEN hDisk[p] ELSE 0]
  <2>1. s \in Seen
    BY <1>1, <1>2 DEF Seen
  <2>2. hSnap = [root |-> TRUE, paired |-> FALSE, bad |-> FALSE, seen |-> s]
    BY <1>1 DEF Hash!Scan, Hash!Paths, HPaths
  <2> HIDE DEF s
  <2> QED BY <2>1, <2>2 DEF Snaps
<1>5. HashTyped
  BY <1>1, <1>2, <1>3, <1>4, HashConstants DEF HashTyped
<1> QED BY <1>1, <1>5, HashConstants DEF HashParts

\* Every step keeps the invariant.
LEMMA HashStep == ASSUME Hash!HashInv, Hash!Next PROVE Hash!HashInv'
<1> SUFFICES ASSUME HashParts, Hash!Next PROVE HashParts'
  BY HashInvIs, HashInvNext
<1>1. Hash!Paths = HPaths
  BY DEF Hash!Paths, HPaths
<1> QED BY <1>1, HashLooks, HashPrunes, HashFinds, HashSaves, HashNotes, HashWorld, HashRestarts
        DEF Hash!Next, Hash!HashInBackground

\* A component that is not in focus does not move.
LEMMA HashFrame == ASSUME Hash!HashInv, UNCHANGED hashVars PROVE Hash!HashInv'
<1>1. UNCHANGED <<hDisk, parses, hPaired, hSnap, wake, pass, entries, dirty, hFile, hMade,
                  hEvents>>
  BY DEF hashVars
<1>2. HashParts
  BY HashInvIs
<1>3. HashTyped'
  BY <1>1, <1>2 DEF HashParts, HashTyped
<1>4. HashParts'
  BY <1>1, <1>2, <1>3 DEF HashParts, Hash!Own
<1> QED BY <1>4, HashInvNext

\* The invariant gives what the device promises of its cache.
LEMMA HashPromises == Hash!HashInv => Hash!CacheIsTrue
BY DEF Hash!HashInv, Hash!CacheIsTrue, Hash!HashIsRight, Hash!Own

-----------------------------------------------------------------------------
(* The library.                                                            *)

Spots == Playlists \X Numbers
Tomls == [there : BOOLEAN, parses : BOOLEAN, items : SUBSET Numbers]
Looks == [root : BOOLEAN, paired : BOOLEAN, lists : SUBSET Playlists, bad : SUBSET Playlists,
          seen : [Spots -> 0..MaxVersions]]
CallStates ==
    [pc : {"idle", "write", "retitle", "scan", "store", "notify"},
     op : {"none", "create", "save", "delete", "remove", "rename", "upload", "rescan"},
     list : Playlists, to : SUBSET Numbers, n : Numbers \cup {0}, parsed : BOOLEAN,
     part : SUBSET Playlists, moved : BOOLEAN, scan : SUBSET Looks]

\* What TypeOK of the library says.
EditorTyped ==
    /\ disk \in [Spots -> 0..MaxVersions] /\ made \in 0..MaxVersions
    /\ toml \in [Playlists -> Tomls]
    /\ \A l \in Playlists : toml[l].parses = TRUE => toml[l].there = TRUE
    /\ paired \in BOOLEAN
    /\ snap \in Looks /\ lTold \in Looks
    /\ call \in [Calls -> CallStates]
    /\ reserved \subseteq Spots /\ kept \subseteq [path : Spots, is : (0..MaxVersions) \ {0}]
    /\ timer \in {"none", "set", "fired"}
    /\ calls \in 0..MaxCalls /\ events \in 0..MaxLibEvents

\* It is what TypeOK says.
LEMMA EditorTypes == Editor!TypeOK <=> EditorTyped
<1>1. toml \in [Playlists -> Tomls] =>
        \A l \in Playlists : toml[l].parses \in BOOLEAN /\ toml[l].there \in BOOLEAN
  BY DEF Tomls
<1>2. toml \in [Playlists -> Tomls] =>
        ((\A l \in Playlists : toml[l].parses => toml[l].there)
          <=> \A l \in Playlists : toml[l].parses = TRUE => toml[l].there = TRUE)
  BY <1>1
<1> QED BY <1>2, Zenon DEF Editor!TypeOK, Editor!Paths, Editor!Versions, Editor!Scans,
           EditorTyped, Spots, Tomls, Looks, CallStates

\* The parts of the invariant, with the names of this module.
FilesAreKept == \A k \in kept : disk[k.path] = k.is
NamesHeld ==
    /\ \A c \in Calls : call[c].op = "upload" => <<call[c].list, call[c].n>> \in reserved
    /\ \A c, d \in Calls :
        call[c].op = "upload" /\ call[d].op = "upload" /\ call[c].list = call[d].list
          /\ call[c].n = call[d].n => c = d
    /\ \A c \in Calls : call[c].op # "upload" => call[c].n = 0
NamesFree ==
    \A c \in Calls : call[c].op = "upload" /\ call[c].pc = "write" /\ call[c].moved = FALSE
                       /\ call[c].list \in call[c].part
                     => disk[<<call[c].list, call[c].n>>] = 0
DirsThere ==
    /\ \A l \in Playlists, n \in Numbers : disk[<<l, n>>] # 0 => toml[l].there = TRUE
    /\ \A c \in Calls : call[c].op = "upload" => \A l \in call[c].part : toml[l].there = TRUE
RenameTo(r) ==
    \E m \in Playlists : r.part = {m} /\ (r.pc = "write" => m # r.list)
RenamesReal == \A c \in Calls : call[c].op = "rename" => RenameTo(call[c])
EditorParts ==
    EditorTyped /\ FilesAreKept /\ NamesHeld /\ NamesFree /\ DirsThere /\ RenamesReal

\* They are the invariant.
LEMMA EditorInvIs == Editor!LibraryInv <=> EditorParts
<1> SUFFICES ASSUME EditorTyped PROVE Editor!LibraryInv <=> EditorParts
  BY EditorTypes DEF Editor!LibraryInv, Editor!LibraryIsSafe, EditorParts
<1>1. /\ \A l \in Playlists : toml[l].there \in BOOLEAN
      /\ \A c \in Calls : call[c].moved \in BOOLEAN /\ call[c].part \subseteq Playlists
  BY DEF EditorTyped, Tomls, CallStates
<1>2. Editor!UploadsKept <=> FilesAreKept
  BY DEF Editor!UploadsKept, FilesAreKept
<1>3. Editor!NamesAreHeld <=> NamesHeld
  <2>1. \A c, d \in Calls : Editor!Name(c) = Editor!Name(d)
          <=> call[c].list = call[d].list /\ call[c].n = call[d].n
    BY DEF Editor!Name
  <2> QED BY <2>1 DEF Editor!NamesAreHeld, Editor!Uploads, Editor!Name, NamesHeld
<1>4. Editor!NamesAreFree <=> NamesFree
  BY <1>1 DEF Editor!NamesAreFree, Editor!Uploads, Editor!Name, NamesFree
<1>5. Editor!DirsAreThere <=> DirsThere
  <2>1. (\A p \in Editor!Paths : disk[p] # 0 => toml[p[1]].there)
          <=> \A l \in Playlists, n \in Numbers : disk[<<l, n>>] # 0 => toml[l].there = TRUE
    BY <1>1 DEF Editor!Paths
  <2>2. (\A c \in Editor!Uploads : \A l \in call[c].part : toml[l].there)
          <=> \A c \in Calls : call[c].op = "upload" => \A l \in call[c].part : toml[l].there = TRUE
    BY <1>1 DEF Editor!Uploads
  <2> QED BY <2>1, <2>2 DEF Editor!DirsAreThere, DirsThere
<1>6. Editor!RenamesAreReal <=> RenamesReal
  BY Zenon DEF Editor!RenamesAreReal, RenamesReal, RenameTo
<1> QED BY <1>2, <1>3, <1>4, <1>5, <1>6, EditorTypes
        DEF Editor!LibraryInv, Editor!LibraryIsSafe, EditorParts

\* The same after a step.
LEMMA EditorInvNext == Editor!LibraryInv' <=> EditorParts'
<1>1. (Editor!LibraryInv <=> EditorParts)'
  BY EditorInvIs, PTL
<1> QED BY <1>1

\* The numbers, and a call at rest.
LEMMA EditorConstants ==
    /\ MaxVersions \in Nat /\ MaxCalls \in Nat /\ MaxLibEvents \in Nat
    /\ 0 \in 0..MaxVersions /\ 0 \in 0..MaxCalls /\ 0 \in 0..MaxLibEvents
    /\ 0 \notin Numbers /\ DefaultList \in Playlists
    /\ Editor!Idle \in CallStates /\ Editor!Idle.op = "none" /\ Editor!Idle.n = 0
    /\ Editor!NoToml \in Tomls /\ Editor!NoToml.there = FALSE /\ Editor!NoToml.parses = FALSE
<1>1. /\ MaxVersions \in Nat /\ MaxCalls \in Nat /\ MaxLibEvents \in Nat
      /\ 0 \in 0..MaxVersions /\ 0 \in 0..MaxCalls /\ 0 \in 0..MaxLibEvents
  BY BoundAssumption
<1>2. 0 \notin Numbers /\ DefaultList \in Playlists
  BY UploadAssumption
<1> QED BY <1>1, <1>2 DEF Editor!Idle, Editor!NoToml, CallStates, Tomls

\* A scan sees playlists and files that are there.
LEMMA EditorScans == ASSUME EditorTyped, NEW ok \in BOOLEAN PROVE Editor!Scan(ok) \in Looks
<1>1. /\ disk \in [Spots -> 0..MaxVersions] /\ paired \in BOOLEAN /\ 0 \in 0..MaxVersions
  BY EditorConstants DEF EditorTyped
<1> DEFINE s == [p \in Spots |-> IF ok /\ toml[p[1]].parses /\ p[2] \in toml[p[1]].items
                                 THEN disk[p] ELSE 0]
           a == {l \in Playlists : ok /\ toml[l].parses}
           b == {l \in Playlists : ok /\ toml[l].there /\ ~toml[l].parses}
<1>2. s \in [Spots -> 0..MaxVersions] /\ a \in SUBSET Playlists /\ b \in SUBSET Playlists
  BY <1>1
<1>3. Editor!Scan(ok) = [root |-> ok, paired |-> paired, lists |-> a, bad |-> b, seen |-> s]
  BY Zenon DEF Editor!Scan, Editor!Paths, Spots
<1> HIDE DEF s, a, b
<1> QED BY <1>1, <1>2, <1>3 DEF Looks

\* An event stays in its bound.
LEMMA EditorCount ==
    ASSUME events \in 0..MaxLibEvents, NEW e, Editor!Event(e) \/ UNCHANGED events
    PROVE  events' \in 0..MaxLibEvents
BY EditorConstants DEF Editor!Event

\* What a step does to a call when it begins no upload: an open upload stays as it is
\* or is past its write.
Stays(d) ==
    /\ call'[d].op = "upload" =>
        /\ call[d].op = "upload" /\ (call'[d].pc = "write" => call[d].pc = "write")
        /\ call'[d].list = call[d].list /\ call'[d].n = call[d].n
        /\ call'[d].part = call[d].part /\ call'[d].moved = call[d].moved
        /\ <<call[d].list, call[d].n>> \in reserved'
    /\ call'[d].op # "upload" => call'[d].n = 0
    /\ call'[d].op = "rename" => RenameTo(call'[d])

\* Such a step takes no name and moves no rename.
LEMMA HeldGoes ==
    ASSUME EditorParts, \A d \in Calls : Stays(d) PROVE NamesHeld' /\ RenamesReal'
<1>1. NamesHeld
  BY DEF EditorParts
<1>2. ASSUME NEW c \in Calls
      PROVE  /\ call'[c].op = "upload" => <<call'[c].list, call'[c].n>> \in reserved'
             /\ call'[c].op # "upload" => call'[c].n = 0
  BY DEF Stays
<1>3. ASSUME NEW c \in Calls, NEW d \in Calls, call'[c].op = "upload", call'[d].op = "upload",
             call'[c].list = call'[d].list, call'[c].n = call'[d].n
      PROVE  c = d
  <2>1. /\ call[c].op = "upload" /\ call[d].op = "upload"
        /\ call[c].list = call[d].list /\ call[c].n = call[d].n
    BY <1>3 DEF Stays
  <2> QED BY <1>1, <2>1 DEF NamesHeld
<1>4. RenamesReal'
  BY DEF RenamesReal, Stays, RenameTo
<1> QED BY <1>2, <1>3, <1>4 DEF NamesHeld

\* Such a step keeps the invariant when no playlist goes away and no file comes.
LEMMA EditorGoes ==
    ASSUME EditorParts, EditorTyped', \A d \in Calls : Stays(d),
           \A l \in Playlists : toml[l].there = TRUE => toml'[l].there = TRUE,
           \A p \in Spots : disk'[p] # 0 => disk[p] # 0,
           kept' \subseteq kept, \A k \in kept' : disk'[k.path] = disk[k.path]
    PROVE  EditorParts'
<1>1. FilesAreKept /\ NamesHeld /\ NamesFree /\ DirsThere /\ RenamesReal /\ EditorTyped
  BY DEF EditorParts
<1>2. FilesAreKept'
  BY <1>1 DEF FilesAreKept
<1>3. NamesHeld' /\ RenamesReal'
  BY HeldGoes
<1>4. NamesFree'
  <2> SUFFICES ASSUME NEW c \in Calls, call'[c].op = "upload", call'[c].pc = "write",
                      call'[c].moved = FALSE, call'[c].list \in call'[c].part
               PROVE  disk'[<<call'[c].list, call'[c].n>>] = 0
    BY DEF NamesFree
  <2>1. /\ call[c].op = "upload" /\ call[c].pc = "write" /\ call[c].moved = FALSE
        /\ call[c].list \in call[c].part
        /\ call'[c].list = call[c].list /\ call'[c].n = call[c].n
    BY DEF Stays
  <2>2. <<call[c].list, call[c].n>> \in Spots /\ disk[<<call[c].list, call[c].n>>] = 0
    BY <1>1, <2>1 DEF NamesHeld, NamesFree, EditorTyped
  <2> QED BY <2>1, <2>2
<1>5. DirsThere'
  <2>1. \A l \in Playlists, n \in Numbers : disk'[<<l, n>>] # 0 => toml'[l].there = TRUE
    <3> TAKE l \in Playlists, n \in Numbers
    <3>1. <<l, n>> \in Spots
      BY DEF Spots
    <3> QED BY <1>1, <3>1 DEF DirsThere
  <2>2. ASSUME NEW c \in Calls, call'[c].op = "upload", NEW l \in call'[c].part
        PROVE  toml'[l].there = TRUE
    <3>1. call[c].op = "upload" /\ l \in call[c].part /\ call[c].part \subseteq Playlists
      BY <1>1, <2>2 DEF Stays, EditorTyped, CallStates
    <3> QED BY <1>1, <3>1 DEF DirsThere
  <2> QED BY <2>1, <2>2 DEF DirsThere
<1> QED BY <1>2, <1>3, <1>4, <1>5 DEF EditorParts

\* A call that goes on, ends or begins, except an upload that begins, is such a step.
LEMMA CallTurns ==
    ASSUME EditorParts, NEW c \in Calls, NEW r \in CallStates, call' = [call EXCEPT ![c] = r],
           \/ /\ reserved' = reserved /\ r.pc # "write"
              /\ r.op = call[c].op /\ r.list = call[c].list /\ r.n = call[c].n
              /\ r.part = call[c].part /\ r.moved = call[c].moved
           \/ /\ reserved' \in {reserved, reserved \ {<<call[c].list, call[c].n>>}}
              /\ r.op # "upload" /\ r.n = 0 /\ (r.op = "rename" => RenameTo(r))
    PROVE  /\ call' \in [Calls -> CallStates] /\ reserved' \subseteq Spots
           /\ \A d \in Calls : Stays(d)
<1>1. /\ call \in [Calls -> CallStates] /\ reserved \subseteq Spots
      /\ NamesHeld /\ RenamesReal /\ 0 \notin Numbers
  BY EditorConstants DEF EditorParts, EditorTyped
<1>2. call' \in [Calls -> CallStates] /\ reserved' \subseteq Spots
  BY <1>1
<1>3. ASSUME NEW d \in Calls, d # c PROVE Stays(d)
  <2>1. call'[d] = call[d]
    BY <1>1, <1>3
  <2>2. call[d].op = "upload" => <<call[d].list, call[d].n>> \in reserved'
    <3> SUFFICES ASSUME call[d].op = "upload" PROVE <<call[d].list, call[d].n>> \in reserved'
      OBVIOUS
    <3>1. <<call[d].list, call[d].n>> \in reserved
      BY <1>1 DEF NamesHeld
    <3>2. <<call[d].list, call[d].n>> # <<call[c].list, call[c].n>>
      <4>1. CASE call[c].op = "upload"
        BY <1>1, <1>3, <4>1 DEF NamesHeld
      <4>2. CASE call[c].op # "upload"
        <5>1. call[c].n = 0
          BY <1>1, <4>2 DEF NamesHeld
        <5>2. call[d].n \in Numbers
          BY <1>1, <3>1 DEF Spots
        <5> QED BY <1>1, <5>1, <5>2
      <4> QED BY <4>1, <4>2
    <3> QED BY <3>1, <3>2
  <2>3. call[d].op # "upload" => call[d].n = 0
    BY <1>1 DEF NamesHeld
  <2>4. call[d].op = "rename" => RenameTo(call[d])
    BY <1>1 DEF RenamesReal
  <2> QED BY <2>1, <2>2, <2>3, <2>4 DEF Stays, RenameTo
<1>4. Stays(c)
  <2>1. call'[c] = r
    BY <1>1
  <2>2. /\ call[c].op = "upload" => <<call[c].list, call[c].n>> \in reserved
        /\ call[c].op # "upload" => call[c].n = 0
        /\ call[c].op = "rename" => RenameTo(call[c])
    BY <1>1 DEF NamesHeld, RenamesReal
  <2> QED BY <2>1, <2>2 DEF Stays, RenameTo
<1> QED BY <1>2, <1>3, <1>4

\* The calls do not move.
LEMMA CallsRest ==
    ASSUME EditorParts, UNCHANGED <<call, reserved>> PROVE \A d \in Calls : Stays(d)
BY DEF EditorParts, NamesHeld, RenamesReal, Stays, RenameTo

\* The end of a call, and the move on to the scan.
LEMMA CallEnds ==
    ASSUME EditorParts, NEW c \in Calls, Editor!Ends(c) \/ Editor!Done(c)
    PROVE  /\ call' \in [Calls -> CallStates] /\ reserved' \subseteq Spots
           /\ \A d \in Calls : Stays(d)
<1>1. call[c] \in CallStates
  BY DEF EditorParts, EditorTyped
<1>2. CASE Editor!Ends(c)
  <2> DEFINE r == Editor!Idle
  <2>1. /\ r \in CallStates /\ r.op = "none" /\ r.n = 0 /\ call' = [call EXCEPT ![c] = r]
        /\ reserved' = reserved \ {<<call[c].list, call[c].n>>}
    BY <1>2, EditorConstants DEF Editor!Ends
  <2> HIDE DEF r
  <2> QED BY <2>1, CallTurns
<1>3. CASE Editor!Done(c)
  <2> DEFINE r == [call[c] EXCEPT !.pc = "scan"]
  <2>1. /\ r \in CallStates /\ r.pc = "scan" /\ r.op = call[c].op /\ r.list = call[c].list
        /\ r.n = call[c].n /\ r.part = call[c].part /\ r.moved = call[c].moved
    BY <1>1 DEF CallStates
  <2>2. call' = [call EXCEPT ![c] = r] /\ reserved' = reserved
    BY <1>3 DEF Editor!Done
  <2> HIDE DEF r
  <2> QED BY <2>1, <2>2, CallTurns
<1> QED BY <1>2, <1>3

\* A step that leaves the card alone.
LEMMA CardRests ==
    ASSUME EditorParts, call' \in [Calls -> CallStates], reserved' \subseteq Spots,
           \A d \in Calls : Stays(d), UNCHANGED <<disk, toml, made, kept>>,
           paired' \in BOOLEAN, snap' \in Looks, lTold' \in Looks,
           timer' \in {"none", "set", "fired"},
           calls' \in 0..MaxCalls, events' \in 0..MaxLibEvents
    PROVE  EditorParts'
<1>1. EditorTyped'
  BY DEF EditorParts, EditorTyped
<1> QED BY <1>1, EditorGoes

\* What the other lemmas take from the types.
LEMMA EditorFacts ==
    ASSUME EditorParts
    PROVE  /\ disk \in [Spots -> 0..MaxVersions] /\ made \in 0..MaxVersions
           /\ toml \in [Playlists -> Tomls] /\ paired \in BOOLEAN /\ snap \in Looks /\ lTold \in Looks
           /\ call \in [Calls -> CallStates] /\ reserved \subseteq Spots
           /\ kept \subseteq [path : Spots, is : (0..MaxVersions) \ {0}]
           /\ timer \in {"none", "set", "fired"}
           /\ calls \in 0..MaxCalls /\ events \in 0..MaxLibEvents
           /\ \A l \in Playlists : toml[l].parses = TRUE => toml[l].there = TRUE
BY DEF EditorParts, EditorTyped

\* One more call.
LEMMA OneCall ==
    ASSUME EditorParts, calls < MaxCalls, calls' = calls + 1 PROVE calls' \in 0..MaxCalls
BY EditorFacts, EditorConstants

\* A call of the editor begins, but no upload.
LEMMA QuietBegins ==
    ASSUME EditorParts, NEW c \in Calls, NEW l, NEW doing, Editor!Begin(c, doing, l),
           NEW r \in CallStates, r.op # "upload", r.n = 0, r.op = "rename" => RenameTo(r),
           call' = [call EXCEPT ![c] = r], UNCHANGED reserved
    PROVE  EditorParts'
<1>1. /\ calls' \in 0..MaxCalls
      /\ UNCHANGED <<disk, toml, made, snap, paired, timer, lTold, kept, events>>
  BY OneCall DEF Editor!Begin, Editor!card
<1>2. /\ call' \in [Calls -> CallStates] /\ reserved' \subseteq Spots /\ \A d \in Calls : Stays(d)
  BY CallTurns
<1> QED BY <1>1, <1>2, EditorFacts, CardRests

\* The calls that do so.
LEMMA EditorBegins ==
    ASSUME EditorParts, NEW c \in Calls, NEW l \in Playlists,
           \/ Editor!Edit(c, "create", l, {}) \/ Editor!Edit(c, "delete", l, {})
           \/ Editor!Edit(c, "save", l, Numbers)
           \/ \E n \in Numbers : Editor!Edit(c, "remove", l, {n})
           \/ \E m \in Playlists : Editor!Rename(c, l, m)
    PROVE  EditorParts'
<1>1. ASSUME NEW doing \in {"create", "delete", "save", "remove"}, NEW to \in SUBSET Numbers,
             Editor!Edit(c, doing, l, to)
      PROVE  EditorParts'
  <2> DEFINE r == [Editor!Idle EXCEPT !.pc = "write", !.op = doing, !.list = l, !.to = to]
  <2>1. /\ r \in CallStates /\ r.op = doing /\ r.n = 0
    BY EditorConstants DEF CallStates
  <2>2. Editor!Begin(c, doing, l) /\ call' = [call EXCEPT ![c] = r] /\ UNCHANGED reserved
    BY <1>1 DEF Editor!Edit
  <2> HIDE DEF r
  <2>3. r.op # "upload" /\ r.op # "rename"
    BY <2>1
  <2> QED BY <2>1, <2>2, <2>3, QuietBegins
<1>2. ASSUME NEW m \in Playlists, Editor!Rename(c, l, m) PROVE EditorParts'
  <2>1. toml[l].items \in SUBSET Numbers /\ toml[l].parses \in BOOLEAN
    BY EditorFacts DEF Tomls
  <2>2. PICK pc \in {"write", "retitle", "scan"}, to \in SUBSET Numbers, ok \in BOOLEAN :
          /\ pc = "write" => m # l
          /\ call' = [call EXCEPT ![c] = [Editor!Idle EXCEPT !.pc = pc, !.op = "rename",
                         !.list = l, !.part = {m}, !.to = to, !.parsed = ok]]
    BY <1>2, <2>1 DEF Editor!Rename
  <2> DEFINE r == [Editor!Idle EXCEPT !.pc = pc, !.op = "rename", !.list = l, !.part = {m},
                                      !.to = to, !.parsed = ok]
  <2>3. /\ r \in CallStates /\ r.op = "rename" /\ r.n = 0 /\ r.part = {m} /\ r.list = l /\ r.pc = pc
    BY EditorConstants DEF CallStates
  <2>4. Editor!Begin(c, "rename", l) /\ call' = [call EXCEPT ![c] = r] /\ UNCHANGED reserved
    BY <1>2, <2>2 DEF Editor!Rename
  <2> HIDE DEF r
  <2>5. RenameTo(r) /\ r.op # "upload"
    BY <2>2, <2>3 DEF RenameTo
  <2> QED BY <2>3, <2>4, <2>5, QuietBegins
<1>3. {} \in SUBSET Numbers /\ Numbers \in SUBSET Numbers /\ \A n \in Numbers : {n} \in SUBSET Numbers
  OBVIOUS
<1> QED BY <1>1, <1>2, <1>3, Zenon

\* Pair, Unpair and POST /api/rescan scan the card.
LEMMA EditorRescans ==
    ASSUME EditorParts, NEW c \in Calls, Editor!Rescan(c) \/ Editor!Pairing(c)
    PROVE  EditorParts'
<1> DEFINE r == [Editor!Idle EXCEPT !.pc = "scan", !.op = "rescan"]
<1>1. r \in CallStates /\ r.op = "rescan" /\ r.n = 0
  BY EditorConstants DEF CallStates
<1>2. /\ call' = [call EXCEPT ![c] = r] /\ UNCHANGED reserved
      /\ UNCHANGED <<disk, toml, made, snap, timer, lTold, kept>>
  BY DEF Editor!Rescan, Editor!Pairing, Editor!card
<1> HIDE DEF r
<1>3. /\ call' \in [Calls -> CallStates] /\ reserved' \subseteq Spots /\ \A d \in Calls : Stays(d)
  BY <1>1, <1>2, CallTurns
<1>4. paired' \in BOOLEAN /\ calls' \in 0..MaxCalls /\ events' \in 0..MaxLibEvents
  BY EditorFacts, OneCall, EditorCount DEF Editor!Rescan, Editor!Pairing
<1> QED BY <1>2, <1>3, <1>4, EditorFacts, CardRests

\* The steps of a call that leave the card alone.
LEMMA EditorTells ==
    ASSUME EditorParts, NEW c \in Calls,
           \/ Editor!UploadBreaks(c) \/ Editor!notifySoon(c) \/ Editor!ScanCard(c) \/ Editor!Store(c)
    PROVE  EditorParts'
<1>1. call[c] \in CallStates
  BY EditorFacts
<1>2. CASE Editor!UploadBreaks(c) \/ Editor!notifySoon(c)
  <2>1. /\ Editor!Ends(c) /\ UNCHANGED <<disk, toml, made, snap, paired, lTold, kept, calls>>
    BY <1>2 DEF Editor!UploadBreaks, Editor!notifySoon, Editor!card
  <2>2. events' \in 0..MaxLibEvents /\ timer' \in {"none", "set", "fired"}
    BY <1>2, EditorFacts, EditorCount DEF Editor!UploadBreaks, Editor!notifySoon
  <2> QED BY <2>1, <2>2, CallEnds, EditorFacts, CardRests
<1>3. CASE Editor!ScanCard(c)
  <2>1. PICK ok \in BOOLEAN :
          /\ IF ok THEN UNCHANGED events ELSE Editor!Event("card")
          /\ call' = [call EXCEPT ![c].pc = "store", ![c].scan = {Editor!Scan(ok)}]
    BY <1>3 DEF Editor!ScanCard
  <2> DEFINE s == {Editor!Scan(ok)}
             r == [call[c] EXCEPT !.pc = "store", !.scan = s]
  <2>2. s \in SUBSET Looks
    BY EditorScans DEF EditorParts
  <2>3. call' = [call EXCEPT ![c] = r]
    BY <2>1, EditorFacts
  <2> HIDE DEF s
  <2>4. /\ r \in CallStates /\ r.pc = "store" /\ r.op = call[c].op /\ r.list = call[c].list
        /\ r.n = call[c].n /\ r.part = call[c].part /\ r.moved = call[c].moved
    BY <1>1, <2>2 DEF CallStates
  <2> HIDE DEF r
  <2>5. UNCHANGED <<disk, toml, made, snap, paired, reserved, timer, lTold, kept, calls>>
    BY <1>3 DEF Editor!ScanCard, Editor!card
  <2>6. events' \in 0..MaxLibEvents
    BY <2>1, EditorFacts, EditorCount
  <2>7. /\ call' \in [Calls -> CallStates] /\ reserved' \subseteq Spots /\ \A d \in Calls : Stays(d)
    BY <2>3, <2>4, <2>5, CallTurns
  <2> QED BY <2>5, <2>6, <2>7, EditorFacts, CardRests
<1>4. CASE Editor!Store(c)
  <2>1. snap' \in Looks
    BY <1>1, <1>4 DEF Editor!Store, CallStates
  <2>2. lTold' \in Looks
    BY <1>4, <2>1, EditorFacts DEF Editor!Store, Editor!ToldByRescan
  <2>3. UNCHANGED <<disk, toml, made, paired, timer, kept, calls, events>>
    BY <1>4 DEF Editor!Store, Editor!card
  <2>4. /\ call' \in [Calls -> CallStates] /\ reserved' \subseteq Spots /\ \A d \in Calls : Stays(d)
    <3>1. CASE Editor!Ends(c)
      BY <3>1, CallEnds
    <3>2. CASE call' = [call EXCEPT ![c].pc = "notify"] /\ UNCHANGED reserved
      <4> DEFINE r == [call[c] EXCEPT !.pc = "notify"]
      <4>1. /\ r \in CallStates /\ r.pc = "notify" /\ r.op = call[c].op /\ r.list = call[c].list
            /\ r.n = call[c].n /\ r.part = call[c].part /\ r.moved = call[c].moved
        BY <1>1 DEF CallStates
      <4>2. call' = [call EXCEPT ![c] = r] /\ reserved' = reserved
        BY <3>2
      <4> HIDE DEF r
      <4> QED BY <4>1, <4>2, CallTurns
    <3> QED BY <1>4, <3>1, <3>2 DEF Editor!Store
  <2> QED BY <2>1, <2>2, <2>3, <2>4, EditorFacts, CardRests
<1> QED BY <1>2, <1>3, <1>4

\* The message to the player.
LEMMA EditorTimer ==
    ASSUME EditorParts, Editor!TimerFires \/ Editor!OnChange PROVE EditorParts'
<1>1. /\ UNCHANGED <<disk, toml, made, snap, paired, call, reserved, kept, calls, events>>
      /\ timer' \in {"none", "fired"} /\ lTold' \in {lTold, snap}
  BY DEF Editor!TimerFires, Editor!OnChange, Editor!card
<1> QED BY <1>1, CallsRest, EditorFacts, CardRests

\* An upload begins: its name is free, on the card and among the uploads.
LEMMA EditorUploads ==
    ASSUME EditorParts, NEW c \in Calls, NEW l \in Playlists, Editor!AddMedia(c, l)
    PROVE  EditorParts'
<1>1. PICK n \in Numbers :
        /\ disk[<<l, n>>] = 0 /\ <<l, n>> \notin reserved
        /\ reserved' = reserved \cup {<<l, n>>}
        /\ call' = [call EXCEPT ![c] = [Editor!Idle EXCEPT
                !.pc = "write", !.op = "upload", !.list = l, !.part = {l}, !.n = n]]
  BY DEF Editor!AddMedia, Editor!FreeNames
<1> DEFINE r == [Editor!Idle EXCEPT
                    !.pc = "write", !.op = "upload", !.list = l, !.part = {l}, !.n = n]
<1>2. /\ r \in CallStates /\ r.op = "upload" /\ r.list = l /\ r.part = {l} /\ r.n = n
  BY EditorConstants DEF CallStates
<1>3. /\ calls' \in 0..MaxCalls /\ toml[l].there = TRUE
      /\ UNCHANGED <<disk, toml, made, snap, paired, timer, lTold, kept, events>>
  BY OneCall, EditorFacts DEF Editor!AddMedia, Editor!Begin, Editor!card, Tomls
<1>4. call' = [call EXCEPT ![c] = r] /\ call \in [Calls -> CallStates]
  BY <1>1, EditorFacts
<1> HIDE DEF r
<1>5. call'[c] = r /\ \A d \in Calls : d # c => call'[d] = call[d]
  BY <1>4
<1>6. FilesAreKept /\ NamesHeld /\ NamesFree /\ DirsThere /\ RenamesReal
  BY DEF EditorParts
<1>7. EditorTyped'
  <2>1. call' \in [Calls -> CallStates]
    BY <1>2, <1>4
  <2>2. reserved' \subseteq Spots
    BY <1>1, EditorFacts DEF Spots
  <2> QED BY <1>3, <2>1, <2>2, EditorFacts DEF EditorTyped
<1>8. FilesAreKept'
  BY <1>3, <1>6 DEF FilesAreKept
<1>9. NamesHeld'
  <2>1. ASSUME NEW d \in Calls
        PROVE  /\ call'[d].op = "upload" => <<call'[d].list, call'[d].n>> \in reserved'
               /\ call'[d].op # "upload" => call'[d].n = 0
    BY <1>1, <1>2, <1>5, <1>6 DEF NamesHeld
  <2>2. ASSUME NEW d \in Calls, NEW e \in Calls, call'[d].op = "upload", call'[e].op = "upload",
               call'[d].list = call'[e].list, call'[d].n = call'[e].n
        PROVE  d = e
    <3>1. ASSUME NEW x \in Calls, x # c, call'[x].op = "upload"
          PROVE  <<call'[x].list, call'[x].n>> # <<l, n>>
      BY <1>1, <1>5, <1>6, <3>1 DEF NamesHeld
    <3>2. CASE d # c /\ e # c
      BY <1>5, <1>6, <2>2, <3>2 DEF NamesHeld
    <3>3. CASE d = c \/ e = c
      BY <1>2, <1>5, <2>2, <3>1, <3>3
    <3> QED BY <3>2, <3>3
  <2> QED BY <2>1, <2>2 DEF NamesHeld
<1>10. NamesFree'
  BY <1>1, <1>2, <1>3, <1>5, <1>6 DEF NamesFree
<1>11. DirsThere'
  BY <1>2, <1>3, <1>5, <1>6 DEF DirsThere
<1>12. RenamesReal'
  BY <1>2, <1>5, <1>6 DEF RenamesReal, RenameTo
<1> QED BY <1>7, <1>8, <1>9, <1>10, <1>11, <1>12 DEF EditorParts

\* What a write leaves alone.
LEMMA WriteRests ==
    ASSUME NEW c, Editor!Write(c)
    PROVE  call[c].pc = "write" /\ UNCHANGED <<snap, paired, timer, lTold, calls, events>>
BY DEF Editor!Write

\* A playlist.toml is written, by CreatePlaylist and SavePlaylist or by the end of a rename.
LEMMA EditorLists ==
    ASSUME EditorParts, NEW c \in Calls,
           (Editor!Write(c) /\ Editor!WriteList(c)) \/ Editor!Retitle(c)
    PROVE  EditorParts'
<1>1. call[c] \in CallStates /\ call[c].to \in SUBSET Numbers /\ call[c].list \in Playlists
  BY EditorFacts DEF CallStates
<1>2. /\ UNCHANGED <<disk, made, snap, paired, timer, lTold, kept, calls, events>>
      /\ Editor!Ends(c) \/ Editor!Done(c)
  BY WriteRests DEF Editor!WriteList, Editor!Retitle
<1>3. ASSUME NEW l,
             toml' = [toml EXCEPT ![l] = [there |-> TRUE, parses |-> TRUE, items |-> call[c].to]]
      PROVE  /\ toml' \in [Playlists -> Tomls]
             /\ \A k \in Playlists : toml'[k].parses = TRUE => toml'[k].there = TRUE
             /\ \A k \in Playlists : toml[k].there = TRUE => toml'[k].there = TRUE
  <2> DEFINE x == [there |-> TRUE, parses |-> TRUE, items |-> call[c].to]
  <2>1. x \in Tomls /\ x.there = TRUE
    BY <1>1 DEF Tomls
  <2>2. toml' = [toml EXCEPT ![l] = x]
    BY <1>3
  <2> HIDE DEF x
  <2> QED BY <2>1, <2>2, EditorFacts
<1>4. /\ toml' \in [Playlists -> Tomls]
      /\ \A k \in Playlists : toml'[k].parses = TRUE => toml'[k].there = TRUE
      /\ \A k \in Playlists : toml[k].there = TRUE => toml'[k].there = TRUE
  <2>1. CASE toml' = toml
    BY <2>1, EditorFacts
  <2>2. CASE \E l : toml' = [toml EXCEPT
                     ![l] = [there |-> TRUE, parses |-> TRUE, items |-> call[c].to]]
    BY <1>3, <2>2
  <2> QED BY <2>1, <2>2, Zenon DEF Editor!WriteList, Editor!Retitle
<1>5. /\ call' \in [Calls -> CallStates] /\ reserved' \subseteq Spots
      /\ \A d \in Calls : Stays(d)
  BY <1>2, CallEnds
<1>6. EditorTyped'
  BY <1>2, <1>4, <1>5, EditorFacts DEF EditorTyped
<1> QED BY <1>2, <1>4, <1>5, <1>6, EditorGoes

\* A call fails.
LEMMA EditorFails ==
    ASSUME EditorParts, NEW c \in Calls, Editor!Write(c), Editor!CallFails(c)
    PROVE  EditorParts'
<1>1. Editor!Ends(c) /\ UNCHANGED <<disk, toml, made, kept>>
  BY DEF Editor!CallFails, Editor!card
<1> QED BY <1>1, WriteRests, CallEnds, EditorFacts, CardRests

\* A file is removed.
LEMMA EditorRemoves ==
    ASSUME EditorParts, NEW c \in Calls, Editor!Write(c), Editor!DeleteMedia(c)
    PROVE  EditorParts'
<1>1. PICK n \in call[c].to :
        /\ disk' = [disk EXCEPT ![<<call[c].list, n>>] = 0]
        /\ kept' = {k \in kept : k.path # <<call[c].list, n>>}
  BY DEF Editor!DeleteMedia
<1>2. Editor!Done(c) /\ UNCHANGED <<toml, made, snap, paired, timer, lTold, calls, events>>
  BY WriteRests DEF Editor!DeleteMedia
<1>3. /\ call' \in [Calls -> CallStates] /\ reserved' \subseteq Spots
      /\ \A d \in Calls : Stays(d)
  BY <1>2, CallEnds
<1>4. /\ disk' \in [Spots -> 0..MaxVersions] /\ \A p \in Spots : disk'[p] # 0 => disk[p] # 0
      /\ kept' \subseteq kept /\ \A k \in kept' : disk'[k.path] = disk[k.path]
  BY <1>1, EditorFacts, EditorConstants
<1>5. EditorTyped'
  BY <1>2, <1>3, <1>4, EditorFacts DEF EditorTyped
<1> QED BY <1>2, <1>3, <1>4, <1>5, EditorGoes

\* An upload takes its name: nothing that was acknowledged is there, unless the upload
\* was carried away from it.
LEMMA EditorCommits ==
    ASSUME EditorParts, NEW c \in Calls, Editor!Write(c), Editor!Commit(c)
    PROVE  EditorParts'
<1> DEFINE p == <<call[c].list, call[c].n>>
<1>1. /\ call[c].op = "upload" /\ call[c].list \in call[c].part /\ made < MaxVersions
      /\ made' = made + 1 /\ disk' = [disk EXCEPT ![p] = made']
      /\ kept' = {k \in kept : call[c].moved => k.path # p} \cup {[path |-> p, is |-> made']}
      /\ Editor!Done(c) /\ UNCHANGED toml
  BY DEF Editor!Commit
<1>2. call[c].pc = "write" /\ UNCHANGED <<snap, paired, timer, lTold, calls, events>>
  BY WriteRests
<1>3. FilesAreKept /\ NamesHeld /\ NamesFree /\ DirsThere /\ RenamesReal
  BY DEF EditorParts
<1>4. p \in Spots /\ call[c].moved \in BOOLEAN /\ call[c].part \subseteq Playlists
      /\ made' \in (0..MaxVersions) \ {0}
  BY <1>1, <1>3, EditorFacts, EditorConstants DEF NamesHeld, CallStates
<1>5. /\ call' \in [Calls -> CallStates] /\ reserved' \subseteq Spots
      /\ \A d \in Calls : Stays(d)
  BY <1>1, CallEnds
<1>6. NamesHeld' /\ RenamesReal'
  BY <1>5, HeldGoes
<1>7. /\ disk' \in [Spots -> 0..MaxVersions] /\ disk'[p] = made'
      /\ \A q \in Spots : q # p => disk'[q] = disk[q]
  BY <1>1, <1>4, EditorFacts
<1>8. kept' \subseteq [path : Spots, is : (0..MaxVersions) \ {0}]
  BY <1>1, <1>4, EditorFacts
<1>9. EditorTyped'
  BY <1>1, <1>2, <1>4, <1>5, <1>7, <1>8, EditorFacts DEF EditorTyped
<1>10. FilesAreKept'
  <2>1. ASSUME NEW k \in kept, call[c].moved => k.path # p PROVE disk'[k.path] = k.is
    <3>1. k.path \in Spots /\ k.is # 0 /\ disk[k.path] = k.is
      BY <1>3, EditorFacts DEF FilesAreKept
    <3>2. k.path # p
      <4>1. CASE call[c].moved = TRUE
        BY <2>1, <4>1
      <4>2. CASE call[c].moved = FALSE
        <5>1. disk[p] = 0
          BY <1>1, <1>2, <1>3, <4>2 DEF NamesFree
        <5> QED BY <3>1, <5>1
      <4> QED BY <1>4, <4>1, <4>2
    <3> QED BY <1>7, <3>1, <3>2
  <2> DEFINE new == [path |-> p, is |-> made']
  <2>2. disk'[new.path] = new.is
    BY <1>7
  <2>3. ASSUME NEW k \in kept' PROVE k = new \/ (k \in kept /\ (call[c].moved => k.path # p))
    BY <1>1, <2>3
  <2> HIDE DEF new, p
  <2>4. \A k \in kept' : disk'[k.path] = k.is
    BY <2>1, <2>2, <2>3
  <2> QED BY <2>4 DEF FilesAreKept
<1>11. NamesFree'
  <2> SUFFICES ASSUME NEW d \in Calls, call'[d].op = "upload", call'[d].pc = "write",
                      call'[d].moved = FALSE, call'[d].list \in call'[d].part
               PROVE  disk'[<<call'[d].list, call'[d].n>>] = 0
    BY DEF NamesFree
  <2>1. /\ call[d].op = "upload" /\ call[d].pc = "write" /\ call[d].moved = FALSE
        /\ call[d].list \in call[d].part
        /\ call'[d].list = call[d].list /\ call'[d].n = call[d].n
    BY <1>5 DEF Stays
  <2>2. d # c
    BY <1>1, EditorFacts DEF Editor!Done
  <2>3. <<call[d].list, call[d].n>> \in Spots /\ <<call[d].list, call[d].n>> # p
    BY <1>1, <1>3, <2>1, <2>2, EditorFacts DEF NamesHeld
  <2> QED BY <1>3, <1>7, <2>1, <2>3 DEF NamesFree
<1>12. DirsThere'
  <2>1. \A l \in Playlists, n \in Numbers : disk'[<<l, n>>] # 0 => toml'[l].there = TRUE
    <3> TAKE l \in Playlists, n \in Numbers
    <3>1. toml[call[c].list].there = TRUE
      BY <1>1, <1>3 DEF DirsThere
    <3>2. <<l, n>> \in Spots /\ (<<l, n>> = p => l = call[c].list)
      BY DEF Spots
    <3> QED BY <1>1, <1>3, <1>7, <3>1, <3>2 DEF DirsThere
  <2>2. \A d \in Calls : call'[d].op = "upload" => \A l \in call'[d].part : toml'[l].there = TRUE
    BY <1>1, <1>3, <1>5 DEF DirsThere, Stays
  <2> QED BY <2>1, <2>2 DEF DirsThere
<1> QED BY <1>6, <1>9, <1>10, <1>11, <1>12 DEF EditorParts

\* A directory goes away, or moves: what the step does to every call.
Carried(d, l) ==
    /\ call'[d].op = call[d].op /\ call'[d].list = call[d].list /\ call'[d].n = call[d].n
    /\ call'[d].pc = "write" => call[d].pc = "write"
    /\ call[d].op = "rename" => call'[d].part = call[d].part
    /\ call[d].op = "upload" => l \notin call'[d].part
    /\ call'[d].moved = FALSE => call[d].moved = FALSE

\* The names and the renames stay.
LEMMA CarriedHolds ==
    ASSUME EditorParts, NEW l, \A d \in Calls : Carried(d, l), UNCHANGED reserved
    PROVE  NamesHeld' /\ RenamesReal'
<1>1. NamesHeld /\ RenamesReal
  BY DEF EditorParts
<1>2. NamesHeld'
  <2>1. ASSUME NEW d \in Calls
        PROVE  /\ call'[d].op = "upload" => <<call'[d].list, call'[d].n>> \in reserved'
               /\ call'[d].op # "upload" => call'[d].n = 0
    BY <1>1 DEF NamesHeld, Carried
  <2>2. ASSUME NEW d \in Calls, NEW e \in Calls, call'[d].op = "upload", call'[e].op = "upload",
               call'[d].list = call'[e].list, call'[d].n = call'[e].n
        PROVE  d = e
    <3>1. /\ call[d].op = "upload" /\ call[e].op = "upload"
          /\ call[d].list = call[e].list /\ call[d].n = call[e].n
      BY <2>2 DEF Carried
    <3> QED BY <1>1, <3>1 DEF NamesHeld
  <2> QED BY <2>1, <2>2 DEF NamesHeld
<1>3. RenamesReal'
  BY <1>1 DEF RenamesReal, RenameTo, Carried
<1> QED BY <1>2, <1>3

\* A playlist is deleted with its files and its staging files.
LEMMA EditorDeletes ==
    ASSUME EditorParts, NEW c \in Calls, Editor!Write(c), Editor!DeletePlaylist(c)
    PROVE  EditorParts'
<1> DEFINE l == call[c].list
<1>1. /\ call[c].op = "delete" /\ toml' = [toml EXCEPT ![l] = Editor!NoToml]
      /\ disk' = [p \in Spots |-> IF p[1] = l THEN 0 ELSE disk[p]]
      /\ kept' = {k \in kept : k.path[1] # l}
      /\ call' = [d \in Calls |-> IF call[d].op = "upload"
                                  THEN [call[d] EXCEPT !.part = @ \ {l}]
                                  ELSE IF d = c THEN [call[d] EXCEPT !.pc = "scan"] ELSE call[d]]
      /\ UNCHANGED <<made, reserved, snap, paired, timer, lTold, calls, events>>
  BY WriteRests DEF Editor!DeletePlaylist, Editor!InList, Editor!Paths, Spots
<1>2. FilesAreKept /\ NamesHeld /\ NamesFree /\ DirsThere /\ RenamesReal
  BY DEF EditorParts
<1>3. l \in Playlists
  BY EditorFacts DEF CallStates
<1> HIDE DEF l
<1>4. ASSUME NEW d \in Calls
      PROVE  /\ call'[d] \in CallStates /\ Carried(d, l)
             /\ call[d].op = "upload" => call'[d].part = call[d].part \ {l}
             /\ call'[d].moved = call[d].moved
  <2>1. call[d] \in CallStates
    BY EditorFacts
  <2>2. CASE call[d].op = "upload"
    <3> DEFINE r == [call[d] EXCEPT !.part = @ \ {l}]
    <3>1. /\ r \in CallStates /\ r.op = call[d].op /\ r.list = call[d].list /\ r.n = call[d].n
          /\ r.pc = call[d].pc /\ r.part = call[d].part \ {l} /\ r.moved = call[d].moved
      BY <2>1 DEF CallStates
    <3>2. call'[d] = r
      BY <1>1, <2>2
    <3> HIDE DEF r
    <3> QED BY <2>2, <3>1, <3>2 DEF Carried
  <2>3. CASE call[d].op # "upload" /\ d = c
    <3> DEFINE r == [call[d] EXCEPT !.pc = "scan"]
    <3>1. /\ r \in CallStates /\ r.op = call[d].op /\ r.list = call[d].list /\ r.n = call[d].n
          /\ r.pc = "scan" /\ r.part = call[d].part /\ r.moved = call[d].moved
      BY <2>1 DEF CallStates
    <3>2. call'[d] = r
      BY <1>1, <2>3
    <3> HIDE DEF r
    <3> QED BY <2>3, <3>1, <3>2 DEF Carried
  <2>4. CASE call[d].op # "upload" /\ d # c
    <3>1. call'[d] = call[d]
      BY <1>1, <2>4
    <3> QED BY <2>1, <2>4, <3>1 DEF Carried
  <2> QED BY <2>2, <2>3, <2>4
<1>5. NamesHeld' /\ RenamesReal'
  BY <1>1, <1>4, CarriedHolds
<1>6. /\ toml' \in [Playlists -> Tomls]
      /\ \A k \in Playlists : k # l => toml'[k] = toml[k]
      /\ \A k \in Playlists : toml'[k].parses = TRUE => toml'[k].there = TRUE
  BY <1>1, <1>3, EditorFacts, EditorConstants
<1>7. /\ disk' \in [Spots -> 0..MaxVersions]
      /\ \A k \in Playlists, n \in Numbers : disk'[<<k, n>>] = IF k = l THEN 0 ELSE disk[<<k, n>>]
  BY <1>1, EditorFacts, EditorConstants DEF Spots
<1>8. EditorTyped'
  <2>1. call' \in [Calls -> CallStates]
    BY <1>1, <1>4
  <2>2. kept' \subseteq [path : Spots, is : (0..MaxVersions) \ {0}]
    BY <1>1, EditorFacts
  <2> QED BY <1>1, <1>6, <1>7, <2>1, <2>2, EditorFacts DEF EditorTyped
<1>9. FilesAreKept'
  <2> SUFFICES ASSUME NEW k \in kept' PROVE disk'[k.path] = k.is
    BY DEF FilesAreKept
  <2>1. k \in kept /\ k.path \in Spots /\ k.path[1] # l
    BY <1>1, EditorFacts
  <2> QED BY <1>1, <1>2, <2>1 DEF FilesAreKept
<1>10. NamesFree'
  <2> SUFFICES ASSUME NEW d \in Calls, call'[d].op = "upload", call'[d].pc = "write",
                      call'[d].moved = FALSE, call'[d].list \in call'[d].part
               PROVE  disk'[<<call'[d].list, call'[d].n>>] = 0
    BY DEF NamesFree
  <2>1. /\ call[d].op = "upload" /\ call[d].pc = "write" /\ call[d].moved = FALSE
        /\ call[d].list \in call[d].part /\ call[d].list # l
        /\ call'[d].list = call[d].list /\ call'[d].n = call[d].n
    BY <1>4 DEF Carried
  <2>2. call[d].list \in Playlists /\ call[d].n \in Numbers
    BY <1>2, <2>1, EditorFacts DEF NamesHeld, Spots
  <2>3. disk[<<call[d].list, call[d].n>>] = 0
    BY <1>2, <2>1 DEF NamesFree
  <2> QED BY <1>7, <2>1, <2>2, <2>3
<1>11. DirsThere'
  <2>1. \A k \in Playlists, n \in Numbers : disk'[<<k, n>>] # 0 => toml'[k].there = TRUE
    BY <1>2, <1>6, <1>7 DEF DirsThere
  <2>2. ASSUME NEW d \in Calls, call'[d].op = "upload", NEW k \in call'[d].part
        PROVE  toml'[k].there = TRUE
    <3>0. call[d].op = "upload" /\ call'[d] \in CallStates /\ call'[d].part = call[d].part \ {l}
      BY <1>4, <2>2 DEF Carried
    <3>1. /\ call[d].op = "upload" /\ k \in call[d].part /\ k # l /\ k \in Playlists
      BY <2>2, <3>0 DEF CallStates
    <3> QED BY <1>2, <1>6, <3>1 DEF DirsThere
  <2> QED BY <2>1, <2>2 DEF DirsThere
<1> QED BY <1>5, <1>8, <1>9, <1>10, <1>11 DEF EditorParts

\* A playlist moves to a name that is free, with its files and its staging files.
LEMMA EditorMoves ==
    ASSUME EditorParts, NEW c \in Calls, Editor!Write(c), Editor!Move(c)
    PROVE  EditorParts'
<1> DEFINE l == call[c].list
           m == CHOOSE x \in call[c].part : TRUE
<1>1. /\ call[c].op = "rename" /\ toml[l].there /\ ~toml[m].there
      /\ toml' = [toml EXCEPT ![l] = Editor!NoToml, ![m] = toml[l]]
      /\ disk' = [p \in Spots |-> IF p[1] = l THEN 0
                                  ELSE disk[IF p[1] = m THEN <<l, p[2]>> ELSE p]]
      /\ kept' = {k \in kept : k.path[1] # l}
                 \cup {[k EXCEPT !.path = <<m, k.path[2]>>] : k \in {x \in kept : x.path[1] = l}}
      /\ call' = [d \in Calls |->
              IF d = c THEN [call[d] EXCEPT !.pc = IF call[d].parsed THEN "retitle" ELSE "scan"]
              ELSE IF call[d].op = "upload" /\ l \in call[d].part
                   THEN [call[d] EXCEPT !.part = {m}, !.moved = TRUE]
              ELSE call[d]]
      /\ UNCHANGED <<made, reserved>>
  BY DEF Editor!Move, Editor!InList, Editor!Paths, Spots
<1>2. call[c].pc = "write" /\ UNCHANGED <<snap, paired, timer, lTold, calls, events>>
  BY WriteRests
<1>3. FilesAreKept /\ NamesHeld /\ NamesFree /\ DirsThere /\ RenamesReal
  BY DEF EditorParts
<1>4. l \in Playlists /\ m \in Playlists /\ m # l /\ call[c].part = {m}
  <2>1. l \in Playlists /\ RenameTo(call[c])
    BY <1>1, <1>3, EditorFacts DEF CallStates, RenamesReal
  <2> QED BY <1>2, <2>1 DEF RenameTo
<1>5. toml[l].there = TRUE /\ toml[m].there = FALSE /\ toml[l] \in Tomls
  BY <1>1, <1>4, EditorFacts DEF Tomls
<1> HIDE DEF l, m
<1>6. ASSUME NEW d \in Calls
      PROVE  /\ call'[d] \in CallStates /\ Carried(d, l)
             /\ call[d].op = "upload" =>
                    \/ l \in call[d].part /\ call'[d].part = {m} /\ call'[d].moved = TRUE
                    \/ l \notin call[d].part /\ call'[d].part = call[d].part
  <2>1. call[d] \in CallStates
    BY EditorFacts
  <2>2. CASE d = c
    <3>1. call[c].parsed \in BOOLEAN
      BY <2>1, <2>2 DEF CallStates
    <3>2. PICK pc \in {"retitle", "scan"} : call'[d] = [call[d] EXCEPT !.pc = pc]
      BY <1>1, <2>2, <3>1
    <3> DEFINE r == [call[d] EXCEPT !.pc = pc]
    <3>3. /\ r \in CallStates /\ r.op = call[d].op /\ r.list = call[d].list /\ r.n = call[d].n
          /\ r.pc = pc /\ r.part = call[d].part /\ r.moved = call[d].moved
      BY <2>1 DEF CallStates
    <3>4. call'[d] = r
      BY <3>2
    <3> HIDE DEF r
    <3> QED BY <1>1, <2>2, <3>3, <3>4 DEF Carried
  <2>3. CASE d # c /\ call[d].op = "upload" /\ l \in call[d].part
    <3> DEFINE r == [call[d] EXCEPT !.part = {m}, !.moved = TRUE]
    <3>1. /\ r \in CallStates /\ r.op = call[d].op /\ r.list = call[d].list /\ r.n = call[d].n
          /\ r.pc = call[d].pc /\ r.part = {m} /\ r.moved = TRUE
      BY <1>4, <2>1 DEF CallStates
    <3>2. call'[d] = r
      BY <1>1, <2>3
    <3> HIDE DEF r
    <3> QED BY <1>4, <2>3, <3>1, <3>2 DEF Carried
  <2>4. CASE d # c /\ ~(call[d].op = "upload" /\ l \in call[d].part)
    <3>1. call'[d] = call[d]
      BY <1>1, <2>4
    <3> QED BY <2>1, <2>4, <3>1 DEF Carried
  <2> QED BY <2>2, <2>3, <2>4
<1>7. NamesHeld' /\ RenamesReal'
  BY <1>1, <1>6, CarriedHolds
<1>8. /\ toml' \in [Playlists -> Tomls] /\ toml'[m] = toml[l]
      /\ \A k \in Playlists : k # l /\ k # m => toml'[k] = toml[k]
      /\ \A k \in Playlists : toml'[k].parses = TRUE => toml'[k].there = TRUE
  BY <1>1, <1>4, <1>5, EditorFacts, EditorConstants
<1>9. /\ disk' \in [Spots -> 0..MaxVersions]
      /\ \A k \in Playlists, n \in Numbers :
            disk'[<<k, n>>] = IF k = l THEN 0 ELSE IF k = m THEN disk[<<l, n>>] ELSE disk[<<k, n>>]
  <2>1. \A p \in Spots : <<l, p[2]>> \in Spots
    BY <1>4 DEF Spots
  <2>2. disk' \in [Spots -> 0..MaxVersions]
    BY <1>1, <2>1, EditorFacts, EditorConstants
  <2>3. ASSUME NEW k \in Playlists, NEW n \in Numbers
        PROVE  disk'[<<k, n>>] = IF k = l THEN 0 ELSE IF k = m THEN disk[<<l, n>>] ELSE disk[<<k, n>>]
    <3>1. <<k, n>> \in Spots
      BY DEF Spots
    <3> QED BY <1>1, <3>1
  <2> QED BY <2>2, <2>3
<1>10. ASSUME NEW k \in kept'
       PROVE  /\ k \in [path : Spots, is : (0..MaxVersions) \ {0}] /\ disk'[k.path] = k.is
  <2>1. ASSUME NEW x \in kept
        PROVE  /\ x \in [path : Spots, is : (0..MaxVersions) \ {0}]
               /\ x.path[1] \in Playlists /\ x.path[2] \in Numbers /\ x.path = <<x.path[1], x.path[2]>>
               /\ disk[x.path] = x.is
    BY <1>3, EditorFacts DEF FilesAreKept, Spots
  <2>2. CASE k \in kept /\ k.path[1] # l
    <3>1. k.path[1] # m
      <4>1. disk[<<k.path[1], k.path[2]>>] # 0
        BY <2>1, <2>2
      <4> QED BY <1>3, <1>5, <2>1, <2>2, <4>1 DEF DirsThere
    <3>2. disk'[<<k.path[1], k.path[2]>>] = disk[<<k.path[1], k.path[2]>>]
      BY <1>9, <2>1, <2>2, <3>1
    <3> QED BY <2>1, <2>2, <3>2
  <2>3. CASE \E x \in kept : x.path[1] = l /\ k = [x EXCEPT !.path = <<m, x.path[2]>>]
    <3>1. PICK x \in kept : x.path[1] = l /\ k = [x EXCEPT !.path = <<m, x.path[2]>>]
      BY <2>3
    <3>2. /\ x \in [path : Spots, is : (0..MaxVersions) \ {0}]
          /\ x.path = <<l, x.path[2]>> /\ x.path[2] \in Numbers /\ disk[x.path] = x.is
      BY <2>1, <3>1
    <3>3. k.path = <<m, x.path[2]>> /\ k.is = x.is
      BY <3>1, <3>2
    <3>4. <<m, x.path[2]>> \in Spots
      BY <1>4, <3>2 DEF Spots
    <3>5. k \in [path : Spots, is : (0..MaxVersions) \ {0}]
      BY <3>1, <3>2, <3>4
    <3>6. disk'[<<m, x.path[2]>>] = disk[<<l, x.path[2]>>]
      BY <1>4, <1>9, <3>2
    <3> QED BY <3>2, <3>3, <3>5, <3>6
  <2>4. \/ k \in kept /\ k.path[1] # l
        \/ \E x \in kept : x.path[1] = l /\ k = [x EXCEPT !.path = <<m, x.path[2]>>]
    BY <1>1
  <2> QED BY <2>2, <2>3, <2>4
<1>11. EditorTyped'
  <2>1. call' \in [Calls -> CallStates]
    BY <1>1, <1>6
  <2> QED BY <1>1, <1>2, <1>8, <1>9, <1>10, <2>1, EditorFacts DEF EditorTyped
<1>12. FilesAreKept'
  BY <1>10 DEF FilesAreKept
<1>13. NamesFree'
  <2> SUFFICES ASSUME NEW d \in Calls, call'[d].op = "upload", call'[d].pc = "write",
                      call'[d].moved = FALSE, call'[d].list \in call'[d].part
               PROVE  disk'[<<call'[d].list, call'[d].n>>] = 0
    BY DEF NamesFree
  <2>1. /\ call[d].op = "upload" /\ call[d].pc = "write" /\ call[d].moved = FALSE
        /\ call[d].list \in call[d].part /\ call[d].list # l
        /\ call'[d].list = call[d].list /\ call'[d].n = call[d].n
    BY <1>6 DEF Carried
  <2>2. call[d].list \in Playlists /\ call[d].n \in Numbers
    BY <1>3, <2>1, EditorFacts DEF NamesHeld, Spots
  <2>3. disk[<<call[d].list, call[d].n>>] = 0 /\ call[d].list # m
    BY <1>3, <1>5, <2>1 DEF NamesFree, DirsThere
  <2> QED BY <1>9, <2>1, <2>2, <2>3
<1>14. DirsThere'
  <2>1. \A k \in Playlists, n \in Numbers : disk'[<<k, n>>] # 0 => toml'[k].there = TRUE
    BY <1>3, <1>5, <1>8, <1>9 DEF DirsThere
  <2>2. ASSUME NEW d \in Calls, call'[d].op = "upload", NEW k \in call'[d].part
        PROVE  toml'[k].there = TRUE
    <3>1. call[d].op = "upload" /\ call[d].part \subseteq Playlists
      BY <1>6, <2>2, EditorFacts DEF Carried, CallStates
    <3>2. CASE k = m
      BY <1>5, <1>8, <3>2
    <3>3. CASE k # m
      <4>1. k \in call[d].part /\ k # l
        BY <1>6, <2>2, <3>1, <3>3
      <4> QED BY <1>3, <1>8, <3>1, <3>3, <4>1 DEF DirsThere
    <3> QED BY <3>2, <3>3
  <2> QED BY <2>1, <2>2 DEF DirsThere
<1> QED BY <1>7, <1>11, <1>12, <1>13, <1>14 DEF EditorParts

\* A person replaces a file or breaks a playlist.toml.
LEMMA EditorPerson == ASSUME EditorParts, Editor!Person PROVE EditorParts'
<1>1. /\ UNCHANGED <<snap, paired, call, reserved, timer, lTold, calls>>
      /\ events' \in 0..MaxLibEvents
  BY EditorFacts, EditorCount DEF Editor!Person
<1>2. \A d \in Calls : Stays(d)
  BY <1>1, CallsRest
<1>3. CASE \E p \in Spots : /\ disk[p] # 0 /\ made < MaxVersions
                            /\ made' = made + 1 /\ disk' = [disk EXCEPT ![p] = made']
                            /\ kept' = {k \in kept : k.path # p} /\ UNCHANGED toml
  <2>1. PICK p \in Spots : /\ disk[p] # 0 /\ made < MaxVersions
                           /\ made' = made + 1 /\ disk' = [disk EXCEPT ![p] = made']
                           /\ kept' = {k \in kept : k.path # p} /\ UNCHANGED toml
    BY <1>3
  <2>2. made' \in 0..MaxVersions
    BY <2>1, EditorFacts, EditorConstants
  <2>3. /\ disk' \in [Spots -> 0..MaxVersions] /\ \A q \in Spots : disk'[q] # 0 => disk[q] # 0
        /\ kept' \subseteq kept /\ \A k \in kept' : disk'[k.path] = disk[k.path]
    BY <2>1, <2>2, EditorFacts
  <2>4. EditorTyped'
    BY <1>1, <2>1, <2>2, <2>3, EditorFacts DEF EditorTyped
  <2> QED BY <1>2, <2>1, <2>3, <2>4, EditorGoes
<1>4. CASE \E l \in Playlists : toml[l].parses /\ toml' = [toml EXCEPT ![l].parses = FALSE]
                               /\ UNCHANGED <<disk, made, kept>>
  <2>1. PICK l \in Playlists : toml' = [toml EXCEPT ![l].parses = FALSE]
                              /\ UNCHANGED <<disk, made, kept>>
    BY <1>4
  <2>2. [toml[l] EXCEPT !.parses = FALSE] \in Tomls
        /\ [toml[l] EXCEPT !.parses = FALSE].parses = FALSE
        /\ [toml[l] EXCEPT !.parses = FALSE].there = toml[l].there
    BY EditorFacts DEF Tomls
  <2>3. /\ toml' \in [Playlists -> Tomls]
        /\ \A k \in Playlists : toml'[k].parses = TRUE => toml'[k].there = TRUE
        /\ \A k \in Playlists : toml'[k].there = toml[k].there
    <3> DEFINE x == [toml[l] EXCEPT !.parses = FALSE]
    <3>1. x \in Tomls /\ x.parses = FALSE /\ x.there = toml[l].there /\ toml' = [toml EXCEPT ![l] = x]
      BY <2>1, <2>2
    <3> HIDE DEF x
    <3> QED BY <3>1, EditorFacts
  <2>4. EditorTyped'
    BY <1>1, <2>1, <2>3, EditorFacts DEF EditorTyped
  <2> QED BY <1>2, <2>1, <2>3, <2>4, EditorGoes
<1> QED BY <1>3, <1>4, Zenon DEF Editor!Person, Editor!Paths, Spots

\* The daemon starts again: the open calls are cut off.
LEMMA EditorRestarts == ASSUME EditorParts, Editor!Restart PROVE EditorParts'
<1>1. /\ call' = [c \in Calls |-> Editor!Idle] /\ reserved' = {}
      /\ UNCHANGED <<disk, toml, made, paired, kept, calls>> /\ timer' = "none"
      /\ snap' = Editor!Scan(TRUE) /\ lTold' = snap'
  BY DEF Editor!Restart, Editor!card
<1>2. snap' \in Looks /\ lTold' \in Looks /\ events' \in 0..MaxLibEvents
  BY <1>1, EditorScans, EditorFacts, EditorCount DEF Editor!Restart, EditorParts
<1>3. call' \in [Calls -> CallStates] /\ reserved' \subseteq Spots
  BY <1>1, EditorConstants
<1>4. \A d \in Calls : Stays(d)
  BY <1>1, EditorConstants DEF Stays
<1> QED BY <1>1, <1>2, <1>3, <1>4, EditorFacts, CardRests

\* The card that comes with the device: one playlist and no upload.
LEMMA EditorInit == Editor!Init => Editor!LibraryInv
<1> SUFFICES ASSUME Editor!Init PROVE EditorParts
  BY EditorInvIs
<1> DEFINE first == [there |-> TRUE, parses |-> TRUE, items |-> Numbers]
<1>1. /\ disk = [p \in Spots |-> 0]
      /\ toml = [l \in Playlists |-> IF l = DefaultList THEN first ELSE Editor!NoToml]
      /\ paired = FALSE /\ snap = Editor!Scan(TRUE) /\ lTold = snap
      /\ call = [c \in Calls |-> Editor!Idle] /\ reserved = {} /\ kept = {}
      /\ timer = "none" /\ made = 0 /\ calls = 0 /\ events = 0
  BY DEF Editor!Init, Editor!Paths, Spots
<1>2. first \in Tomls /\ first.parses = TRUE /\ first.there = TRUE
  BY DEF Tomls
<1> HIDE DEF first
<1>3. /\ disk \in [Spots -> 0..MaxVersions] /\ toml \in [Playlists -> Tomls]
      /\ \A l \in Playlists : toml[l].parses = TRUE => toml[l].there = TRUE
      /\ call \in [Calls -> CallStates]
  BY <1>1, <1>2, EditorConstants
<1>4. snap \in Looks
  <2> DEFINE s == [p \in Spots |-> IF TRUE /\ toml[p[1]].parses /\ p[2] \in toml[p[1]].items
                                   THEN disk[p] ELSE 0]
             a == {l \in Playlists : TRUE /\ toml[l].parses}
             b == {l \in Playlists : TRUE /\ toml[l].there /\ ~toml[l].parses}
  <2>1. s \in [Spots -> 0..MaxVersions] /\ a \in SUBSET Playlists /\ b \in SUBSET Playlists
    BY <1>3, EditorConstants
  <2>2. snap = [root |-> TRUE, paired |-> paired, lists |-> a, bad |-> b, seen |-> s]
    BY <1>1, Zenon DEF Editor!Scan, Editor!Paths, Spots
  <2>3. paired \in BOOLEAN
    BY <1>1
  <2> HIDE DEF s, a, b
  <2> QED BY <2>1, <2>2, <2>3 DEF Looks
<1>5. EditorTyped
  BY <1>1, <1>3, <1>4, EditorConstants DEF EditorTyped
<1>6. NamesHeld /\ NamesFree /\ RenamesReal /\ FilesAreKept
  BY <1>1, EditorConstants DEF NamesHeld, NamesFree, RenamesReal, FilesAreKept
<1>7. DirsThere
  BY <1>1, EditorConstants DEF DirsThere, Spots
<1> QED BY <1>5, <1>6, <1>7 DEF EditorParts

\* Every step keeps the invariant.
LEMMA EditorStep == ASSUME Editor!LibraryInv, Editor!Next PROVE Editor!LibraryInv'
<1> SUFFICES ASSUME EditorParts, Editor!Next PROVE EditorParts'
  BY EditorInvIs, EditorInvNext
<1>1. ASSUME NEW c \in Calls, Editor!Write(c) PROVE EditorParts'
  <2>1. \/ Editor!WriteList(c) \/ Editor!DeletePlaylist(c) \/ Editor!DeleteMedia(c)
        \/ Editor!Commit(c) \/ Editor!Move(c) \/ Editor!CallFails(c)
    BY <1>1 DEF Editor!Write
  <2> QED BY <1>1, <2>1, EditorLists, EditorDeletes, EditorRemoves, EditorCommits, EditorMoves,
             EditorFails
<1>2. CASE Editor!Steps
  <2>1. \/ \E c \in Calls : \/ Editor!Write(c) \/ Editor!Retitle(c) \/ Editor!ScanCard(c)
                            \/ Editor!Store(c) \/ Editor!notifySoon(c)
        \/ Editor!TimerFires \/ Editor!OnChange
    BY <1>2, Zenon DEF Editor!Steps
  <2>2. ASSUME NEW c \in Calls,
               \/ Editor!Write(c) \/ Editor!Retitle(c) \/ Editor!ScanCard(c)
               \/ Editor!Store(c) \/ Editor!notifySoon(c)
        PROVE  EditorParts'
    BY <1>1, <2>2, EditorLists, EditorTells
  <2> QED BY <2>1, <2>2, EditorTimer
<1>3. ASSUME NEW c \in Calls, NEW l \in Playlists,
             \/ Editor!Edit(c, "create", l, {}) \/ Editor!Edit(c, "delete", l, {})
             \/ Editor!Edit(c, "save", l, Numbers)
             \/ \E n \in Numbers : Editor!Edit(c, "remove", l, {n})
             \/ \E m \in Playlists : Editor!Rename(c, l, m)
             \/ Editor!AddMedia(c, l)
      PROVE  EditorParts'
  <2>1. CASE Editor!AddMedia(c, l)
    BY <2>1, EditorUploads
  <2>2. CASE \/ Editor!Edit(c, "create", l, {}) \/ Editor!Edit(c, "delete", l, {})
             \/ Editor!Edit(c, "save", l, Numbers)
             \/ \E n \in Numbers : Editor!Edit(c, "remove", l, {n})
             \/ \E m \in Playlists : Editor!Rename(c, l, m)
    BY <2>2, EditorBegins
  <2> QED BY <1>3, <2>1, <2>2, Zenon
<1>4. ASSUME NEW c \in Calls,
             Editor!Rescan(c) \/ Editor!Pairing(c) \/ Editor!UploadBreaks(c)
      PROVE  EditorParts'
  BY <1>4, EditorRescans, EditorTells
<1> QED BY <1>2, <1>3, <1>4, EditorPerson, EditorRestarts, Zenon DEF Editor!Next

\* A component that is not in focus does not move.
LEMMA EditorFrame == ASSUME Editor!LibraryInv, UNCHANGED editorVars PROVE Editor!LibraryInv'
<1>1. /\ UNCHANGED <<disk, toml, paired, snap, call, reserved, timer, lTold, made, kept, calls,
                     events>>
      /\ EditorParts
  BY EditorInvIs DEF editorVars
<1>2. EditorParts'
  BY <1>1, CallsRest, EditorFacts, CardRests
<1> QED BY <1>2, EditorInvNext

\* LibraryIsSafe (AddMedia, and hashCache.get and save): for any number of calls, files,
\* edits of a person, pairings and restarts, an upload that was acknowledged keeps its
\* bytes on the card until it is removed or replaced, the case that UploadsKept names
\* aside; and a hash that the cache gives for a file is the hash of that file, and a
\* cache that counts as saved is the one on the disk.
THEOREM LibrarySafe == DeviceSpec => []LibraryIsSafe
<1> DEFINE Inv == Editor!LibraryInv /\ Hash!HashInv
<1>1. DeviceInit => Inv
  BY EditorInit, HashInit DEF DeviceInit
<1>2. Inv /\ [DeviceNext]_deviceVars => Inv'
  <2> SUFFICES ASSUME Inv, [DeviceNext]_deviceVars PROVE Inv'
    OBVIOUS
  <2>1. Editor!Next \/ UNCHANGED editorVars
    BY DEF DeviceNext, OfPower, OfSync, OfEditor, OfHash, OfConfig, OfSched, OfInstall, deviceVars
  <2>2. Hash!Next \/ UNCHANGED hashVars
    BY DEF DeviceNext, OfPower, OfSync, OfEditor, OfHash, OfConfig, OfSched, OfInstall, deviceVars
  <2> QED BY <2>1, <2>2, EditorStep, EditorFrame, HashStep, HashFrame
<1>3. Inv => LibraryIsSafe
  BY HashPromises DEF Editor!LibraryInv, LibraryIsSafe
<1> QED BY <1>1, <1>2, <1>3, PTL DEF DeviceSpec

-----------------------------------------------------------------------------
(* The configuration file.                                                 *)

Settings == [name : GoodNames, def : Playlists, srv : BOOLEAN]
Reads ==
    [is : {"good", "unknown"}, cfg : Settings]
        \cup [is : {"faulty", "broken"},
              cfg : [name : GoodNames \cup {Bad}, def : Playlists, srv : BOOLEAN]]
AllTimes == Config!NoFile..Config!Last
Holders ==
    [pc : {"free", "stat", "read", "adopt", "clean", "save", "mirror", "adopted"},
     kind : {"none", "page", "server", "name", "rename", "reload"}, next : Settings,
     read : Reads, at : AllTimes]

\* What TypeOK of the configuration says.
ConfigTyped ==
    /\ file \in Config!Contents /\ shadow \in Config!Contents
    /\ stamp \in AllTimes /\ known \in AllTimes /\ watch \in AllTimes
    /\ run \in Settings /\ lastGood \in Settings
    /\ fromShadow \in BOOLEAN /\ cPaired \in BOOLEAN /\ raced \in BOOLEAN
    /\ code \in {"none", "repaired", "badEdit", "managed", "unknown"}
    /\ op \in Holders
    /\ cEvents \in 0..MaxCfg

\* It is what TypeOK says.
LEMMA ConfigTypes == Config!TypeOK <=> ConfigTyped
<1>1. {fromShadow, cPaired, raced} \subseteq BOOLEAN
        <=> fromShadow \in BOOLEAN /\ cPaired \in BOOLEAN /\ raced \in BOOLEAN
  OBVIOUS
<1>2. {stamp, known, watch} \subseteq AllTimes
        <=> stamp \in AllTimes /\ known \in AllTimes /\ watch \in AllTimes
  OBVIOUS
<1> QED BY <1>1, <1>2, Zenon DEF Config!TypeOK, Config!Codes, Config!Configs, Config!Reads, ConfigTyped,
           Settings, Reads, AllTimes, Holders

\* The parts of the invariant, with the names of this module.
CfgClean == fromShadow = FALSE /\ code \in {"none", "unknown"}
FileIsRun == stamp # Config!NoFile /\ Config!Good(file) /\ file.cfg = run
KnownTrue ==
    known = stamp /\ CfgClean /\ raced = FALSE /\ op.pc \notin {"adopt", "mirror", "adopted"}
        => FileIsRun
ReadTrue ==
    op.pc = "adopt" /\ raced = FALSE
        => op.read = [file EXCEPT !.is = IF stamp = Config!NoFile THEN "broken" ELSE @]
SaveTrue ==
    op.kind \in {"name", "rename"} /\ op.pc \in {"clean", "save"}
        => (op.pc = "save" => CfgClean) /\ (CfgClean /\ raced = FALSE => known = stamp)
WriteTrue ==
    op.pc \in {"mirror", "adopted"} /\ raced = FALSE
        => stamp # Config!NoFile /\ file = [is |-> "good", cfg |-> op.next]
Writes == {"page", "server", "name", "rename"}
Debt == op.kind \in Writes /\ op.pc \notin {"mirror", "adopted"}
PastTimes == {Config!NoFile} \cup (-ticks)..ticks
TimesOld ==
    /\ ticks \in Nat /\ ticks <= cEvents /\ (Debt => ticks < cEvents)
    /\ stamp \in PastTimes /\ known \in PastTimes /\ watch \in PastTimes /\ op.at \in PastTimes
    /\ op.pc = "free" <=> op.kind = "none"
    /\ op.kind \notin Writes => op.pc \in {"free", "read", "adopt"}
ConfigParts == ConfigTyped /\ KnownTrue /\ ReadTrue /\ SaveTrue /\ WriteTrue /\ TimesOld

\* They are the invariant.
LEMMA ConfigInvIs == Config!ConfigInv <=> ConfigParts
<1> SUFFICES ASSUME ConfigTyped PROVE Config!ConfigInv <=> ConfigParts
  BY ConfigTypes DEF Config!ConfigInv, ConfigParts
<1>1. fromShadow \in BOOLEAN /\ raced \in BOOLEAN
  BY DEF ConfigTyped
<1>2. Config!Clean <=> CfgClean
  BY <1>1 DEF Config!Clean, CfgClean
<1>3. Config!KnownIsTrue <=> KnownTrue
  BY <1>1, <1>2 DEF Config!KnownIsTrue, KnownTrue, FileIsRun
<1>4. Config!OpIsTrue <=> ReadTrue /\ SaveTrue /\ WriteTrue
  BY <1>1, <1>2 DEF Config!OpIsTrue, ReadTrue, SaveTrue, WriteTrue
<1>5. Config!TimesAreOld <=> TimesOld
  <2>1. {stamp, known, watch, op.at} \subseteq PastTimes
          <=> stamp \in PastTimes /\ known \in PastTimes /\ watch \in PastTimes /\ op.at \in PastTimes
    OBVIOUS
  <2> QED BY <2>1, Zenon DEF Config!TimesAreOld, Config!Owes, Config!Writers, TimesOld, Debt,
             Writes, PastTimes
<1> QED BY <1>3, <1>4, <1>5, ConfigTypes DEF Config!ConfigInv, ConfigParts

\* The same after a step.
LEMMA ConfigInvNext == Config!ConfigInv' <=> ConfigParts'
<1>1. (Config!ConfigInv <=> ConfigParts)'
  BY ConfigInvIs, PTL
<1> QED BY <1>1

\* Good files and files with a fault.
LEMMA ConfigContents ==
    /\ MaxCfg \in Nat /\ Config!NoFile = -(2 * MaxCfg) - 1 /\ Config!Last = 2 * MaxCfg
    /\ Config!Default \in Settings
    /\ \A f \in Config!Contents :
        /\ f \in Reads /\ (Config!Good(f) => f.cfg \in Settings)
        /\ f.cfg \in Settings \/ f.cfg.name = Bad
    /\ \A c \in Settings : [is |-> "good", cfg |-> c] \in Config!Contents /\ c.name # Bad
    /\ FactoryName \in GoodNames /\ Bad \notin GoodNames
<1>1. MaxCfg \in Nat /\ FactoryName \in GoodNames /\ Bad \notin GoodNames /\ DefaultList \in Playlists
  BY BoundAssumption, NameAssumption, UploadAssumption
<1>2. Config!NoFile = -(2 * MaxCfg) - 1 /\ Config!Last = 2 * MaxCfg
  BY <1>1 DEF Config!NoFile, Config!Last
<1>3. Config!Default \in Settings
  BY <1>1 DEF Config!Default, Settings
<1>4. Config!Contents =
        [is : {"good", "unknown"}, cfg : Settings]
            \cup [is : {"faulty"}, cfg : [name : {Bad}, def : Playlists, srv : BOOLEAN]]
            \cup [is : {"broken"}, cfg : {Config!Default}]
  BY Zenon DEF Config!Contents, Config!Configs, Settings
<1>5. ASSUME NEW f \in Config!Contents
      PROVE  /\ f \in Reads /\ (Config!Good(f) => f.cfg \in Settings)
             /\ f.cfg \in Settings \/ f.cfg.name = Bad
  BY <1>3, <1>4, <1>5 DEF Reads, Settings, Config!Good
<1>6. ASSUME NEW c \in Settings
      PROVE  [is |-> "good", cfg |-> c] \in Config!Contents /\ c.name # Bad
  BY <1>1, <1>4 DEF Settings
<1> QED BY <1>1, <1>2, <1>3, <1>5, <1>6

\* The times that were given out are times.
LEMMA ConfigTimes ==
    ASSUME ticks \in Nat, ticks <= MaxCfg
    PROVE  /\ PastTimes \subseteq AllTimes
           /\ 0 \in PastTimes /\ Config!NoFile \in PastTimes
BY ConfigContents DEF PastTimes, AllTimes

\* And after a step.
LEMMA ConfigTimesNext ==
    ASSUME ticks' \in Nat, ticks' <= MaxCfg
    PROVE  PastTimes' \subseteq AllTimes
<1>1. PastTimes' = {Config!NoFile} \cup (-ticks')..ticks'
  BY DEF PastTimes, Config!NoFile, Config!Last
<1> QED BY <1>1, ConfigContents DEF AllTimes

\* A new time is none of them.
LEMMA ConfigTicks ==
    ASSUME ticks \in Nat, ticks < MaxCfg, NEW older \in BOOLEAN, Config!NewStamp(older)
    PROVE  /\ ticks' = ticks + 1 /\ ticks' \in Nat
           /\ stamp' \in PastTimes' /\ stamp' \notin PastTimes /\ stamp' # Config!NoFile
           /\ PastTimes \subseteq PastTimes'
<1>1. ticks' = ticks + 1 /\ ticks' \in Nat /\ (stamp' = ticks' \/ stamp' = -ticks')
  BY DEF Config!NewStamp
<1>2. PastTimes' = {Config!NoFile} \cup (-ticks')..ticks'
  BY DEF PastTimes, Config!NoFile, Config!Last
<1> QED BY <1>1, <1>2, ConfigContents DEF PastTimes

\* What the other lemmas take from the invariant.
LEMMA ConfigFacts ==
    ASSUME ConfigParts
    PROVE  /\ file \in Config!Contents /\ shadow \in Config!Contents
           /\ run \in Settings /\ lastGood \in Settings
           /\ fromShadow \in BOOLEAN /\ cPaired \in BOOLEAN /\ raced \in BOOLEAN
           /\ code \in {"none", "repaired", "badEdit", "managed", "unknown"}
           /\ op \in Holders /\ cEvents \in 0..MaxCfg /\ cEvents \in Nat
           /\ ticks \in Nat /\ ticks <= cEvents /\ ticks <= MaxCfg
           /\ Debt => ticks < cEvents
           /\ PastTimes \subseteq AllTimes
           /\ stamp \in PastTimes /\ known \in PastTimes /\ watch \in PastTimes
           /\ op.at \in PastTimes
           /\ op.pc = "free" <=> op.kind = "none"
           /\ op.kind \notin Writes => op.pc \in {"free", "read", "adopt"}
<1>1. /\ ticks \in Nat /\ ticks <= cEvents /\ (Debt => ticks < cEvents)
      /\ cEvents \in 0..MaxCfg
  BY DEF ConfigParts, ConfigTyped, TimesOld
<1>2. ticks <= cEvents /\ ticks <= MaxCfg /\ cEvents \in Nat
  BY <1>1, ConfigContents
<1> QED BY <1>1, <1>2, ConfigTimes DEF ConfigParts, ConfigTyped, TimesOld

\* An event stays in its bound.
LEMMA ConfigCount ==
    ASSUME ConfigParts, NEW e, Config!Event(e)
    PROVE  cEvents' = cEvents + 1 /\ cEvents' \in 0..MaxCfg /\ ticks < MaxCfg
BY ConfigFacts, ConfigContents DEF Config!Event

\* The lock is free.
LEMMA FreeHolder ==
    ASSUME ConfigParts
    PROVE  /\ Config!Free \in Holders /\ Config!Free.pc = "free" /\ Config!Free.kind = "none"
           /\ Config!Free.at = stamp
<1>1. file \in Reads /\ stamp \in AllTimes /\ Config!Default \in Settings
  BY ConfigFacts, ConfigContents
<1> QED BY <1>1 DEF Config!Free, Holders

\* A step that leaves the file, its time and what runs alone keeps what is known of it.
LEMMA KnownRests ==
    ASSUME ConfigParts, UNCHANGED <<file, stamp, run, known, fromShadow, code, raced>>,
           op'.pc \in {"adopt", "mirror", "adopted"} \/ op.pc \notin {"adopt", "mirror", "adopted"}
    PROVE  KnownTrue'
BY DEF ConfigParts, KnownTrue, FileIsRun, CfgClean, Config!Good, Config!NoFile, Config!Last

\* An event that begins a write leaves a time for it.
LEMMA TimesTake ==
    ASSUME ConfigParts, UNCHANGED <<stamp, ticks, known, watch>>, cEvents' = cEvents + 1,
           op'.at = stamp, op'.pc # "free", op'.kind \in Writes
    PROVE  TimesOld'
<1>1. PastTimes' = PastTimes
  BY DEF PastTimes, Config!NoFile, Config!Last
<1>2. ticks' \in Nat /\ ticks' < cEvents' /\ ticks' <= cEvents'
  BY ConfigFacts
<1> QED BY <1>1, <1>2, ConfigFacts DEF TimesOld, Writes

\* An operation that a person, the server or a playlist asked for takes the lock.
LEMMA ConfigTakes ==
    ASSUME ConfigParts,
           \/ \E n \in GoodNames, l \in Playlists :
                Config!saveConfig([run EXCEPT !.name = n, !.def = l])
           \/ Config!saveServer
           \/ \E n \in GoodNames : Config!saveName(n)
           \/ \E l \in Playlists : Config!playlistRenamed(l)
    PROVE  ConfigParts'
<1>1. PICK kind \in Writes, pc \in {"save", "stat"}, next \in Settings :
        /\ kind \in {"name", "rename"} => pc = "stat"
        /\ op.pc = "free" /\ cEvents' = cEvents + 1 /\ cEvents' \in 0..MaxCfg
        /\ op' = [Config!Free EXCEPT !.pc = pc, !.kind = kind, !.next = next]
        /\ UNCHANGED <<file, stamp, ticks, shadow, run, known, fromShadow, code, cPaired, watch,
                       raced, lastGood>>
  <2>1. CASE \E n \in GoodNames, l \in Playlists :
                Config!saveConfig([run EXCEPT !.name = n, !.def = l])
    <3>1. PICK n \in GoodNames, l \in Playlists :
                Config!saveConfig([run EXCEPT !.name = n, !.def = l])
      BY <2>1
    <3>2. [run EXCEPT !.name = n, !.def = l] \in Settings
      BY ConfigFacts DEF Settings
    <3>3. "page" \in Writes
      BY DEF Writes
    <3>4. Config!Event("save")
      BY <3>1 DEF Config!saveConfig
    <3>5. cEvents' = cEvents + 1 /\ cEvents' \in 0..MaxCfg
      BY <3>4, ConfigCount
    <3> QED BY <3>1, <3>2, <3>3, <3>5 DEF Config!saveConfig, Config!Take, Config!daemon
  <2>2. CASE Config!saveServer
    <3>1. [run EXCEPT !.srv = ~@] \in Settings
      BY ConfigFacts DEF Settings
    <3>2. "server" \in Writes
      BY DEF Writes
    <3>3. Config!Event("server")
      BY <2>2 DEF Config!saveServer
    <3>4. cEvents' = cEvents + 1 /\ cEvents' \in 0..MaxCfg
      BY <3>3, ConfigCount
    <3> QED BY <2>2, <3>1, <3>2, <3>4 DEF Config!saveServer, Config!Take, Config!daemon
  <2>3. CASE \E n \in GoodNames : Config!saveName(n)
    <3>1. PICK n \in GoodNames : Config!saveName(n)
      BY <2>3
    <3>2. [Config!Default EXCEPT !.name = n] \in Settings
      BY ConfigContents DEF Settings
    <3>3. "name" \in Writes
      BY DEF Writes
    <3>4. Config!Event("name")
      BY <3>1 DEF Config!saveName
    <3>5. cEvents' = cEvents + 1 /\ cEvents' \in 0..MaxCfg
      BY <3>4, ConfigCount
    <3> QED BY <3>1, <3>2, <3>3, <3>5 DEF Config!saveName, Config!Take, Config!daemon
  <2>4. CASE \E l \in Playlists : Config!playlistRenamed(l)
    <3>1. PICK l \in Playlists : Config!playlistRenamed(l)
      BY <2>4
    <3>2. [Config!Default EXCEPT !.def = l] \in Settings
      BY ConfigContents DEF Settings
    <3>3. "rename" \in Writes
      BY DEF Writes
    <3>4. Config!Event("rename")
      BY <3>1 DEF Config!playlistRenamed
    <3>5. cEvents' = cEvents + 1 /\ cEvents' \in 0..MaxCfg
      BY <3>4, ConfigCount
    <3> QED BY <3>1, <3>2, <3>3, <3>5 DEF Config!playlistRenamed, Config!Take, Config!daemon
  <2> QED BY <2>1, <2>2, <2>3, <2>4
<1>2. op' \in Holders /\ op'.pc = pc /\ op'.kind = kind /\ op'.at = stamp
  <2> DEFINE r == [pc |-> pc, kind |-> kind, next |-> next, read |-> file, at |-> stamp]
  <2>1. op' = r
    BY <1>1 DEF Config!Free
  <2>2. r.pc = pc /\ r.kind = kind /\ r.at = stamp
    OBVIOUS
  <2>3. file \in Reads /\ stamp \in AllTimes
    BY ConfigFacts, ConfigContents
  <2>4. r \in Holders
    BY <2>3 DEF Holders, Writes
  <2> HIDE DEF r
  <2> QED BY <2>1, <2>2, <2>4
<1>3. cEvents' = cEvents + 1 /\ cEvents' \in 0..MaxCfg
  BY <1>1
<1>4. ConfigTyped'
  BY <1>1, <1>2, <1>3 DEF ConfigParts, ConfigTyped
<1>5. KnownTrue'
  BY <1>1, KnownRests
<1>6. ReadTrue' /\ SaveTrue' /\ WriteTrue'
  BY <1>1, <1>2 DEF ReadTrue, SaveTrue, WriteTrue
<1>7. TimesOld'
  BY <1>1, <1>2, <1>3, TimesTake
<1> QED BY <1>4, <1>5, <1>6, <1>7 DEF ConfigParts

\* The steps of an operation before it writes, and the look of watchConfig: the file,
\* what runs and what is known of it stay.
LEMMA ConfigLooks ==
    ASSUME ConfigParts,
           \/ Config!watchConfig \/ Config!reloadConfig \/ Config!cleanStat \/ Config!cleanGo
    PROVE  ConfigParts'
<1>1. /\ UNCHANGED <<file, stamp, ticks, shadow, run, known, fromShadow, code, cPaired, raced,
                     lastGood, cEvents>>
      /\ watch' \in {watch, stamp}
  BY DEF Config!watchConfig, Config!reloadConfig, Config!cleanStat, Config!cleanGo, Config!daemon
<1>2. KnownTrue /\ ReadTrue /\ SaveTrue /\ WriteTrue /\ TimesOld
  BY DEF ConfigParts
<1>3. /\ op' \in Holders /\ op'.at \in PastTimes
      /\ op'.pc \in {"adopt", "mirror", "adopted"} \/ op.pc \notin {"adopt", "mirror", "adopted"}
      /\ Debt' => Debt
      /\ op'.pc = "free" <=> op'.kind = "none"
      /\ op'.kind \notin Writes => op'.pc \in {"free", "read", "adopt"}
      /\ ReadTrue' /\ SaveTrue' /\ WriteTrue'
  <2>1. CASE op' = op
    <3>1. Debt' = Debt
      BY <2>1 DEF Debt
    <3>2. ReadTrue' /\ SaveTrue' /\ WriteTrue'
      BY <1>1, <1>2, <2>1
         DEF ReadTrue, SaveTrue, WriteTrue, CfgClean, Config!NoFile, Config!Last
    <3> QED BY <2>1, <3>1, <3>2, ConfigFacts
  <2>2. CASE Config!reloadConfig
    <3> DEFINE r == [Config!Free EXCEPT !.pc = "read", !.kind = "reload", !.at = watch]
    <3>1. op' = r /\ op.pc = "free" /\ watch \in AllTimes
      BY <2>2, ConfigFacts DEF Config!reloadConfig
    <3>2. r \in Holders /\ r.pc = "read" /\ r.kind = "reload" /\ r.at = watch
      BY <3>1, FreeHolder DEF Holders
    <3> HIDE DEF r
    <3>3. ReadTrue' /\ SaveTrue' /\ WriteTrue'
      BY <3>1, <3>2 DEF ReadTrue, SaveTrue, WriteTrue
    <3>4. ~Debt'
      BY <3>1, <3>2, ConfigFacts DEF Debt, Writes
    <3> QED BY <3>1, <3>2, <3>3, <3>4, ConfigFacts
  <2>3. CASE Config!cleanStat
    <3>1. PICK pc \in {"read", "clean"} :
            /\ op.pc = "stat" /\ op' = [op EXCEPT !.at = stamp, !.pc = pc]
            /\ pc = "clean" => stamp = known
      BY <2>3 DEF Config!cleanStat, Config!LookFirst, Config!Unread
    <3>2. stamp \in AllTimes /\ op \in Holders
      BY ConfigFacts
    <3>3. op' \in Holders /\ op'.pc = pc /\ op'.kind = op.kind /\ op'.at = stamp
      BY <3>1, <3>2 DEF Holders
    <3>4. ReadTrue' /\ SaveTrue' /\ WriteTrue'
      BY <1>1, <3>1, <3>3 DEF ReadTrue, SaveTrue, WriteTrue
    <3>5. op.kind \in Writes
      BY <3>1, ConfigFacts
    <3>6. Debt
      BY <3>1, <3>3, <3>5 DEF Debt
    <3> QED BY <3>1, <3>3, <3>4, <3>5, <3>6, ConfigFacts
  <2>4. CASE Config!cleanGo
    <3>0. op.pc = "clean" /\ op.kind \in Writes /\ op \in Holders /\ run \in Settings
      BY <2>4, ConfigFacts DEF Config!cleanGo
    <3>1. Debt
      BY <3>0 DEF Debt
    <3> DEFINE c == IF op.kind = "name" THEN [run EXCEPT !.name = op.next.name]
                    ELSE [run EXCEPT !.def = op.next.def]
    <3>2. op' = IF Config!Clean /\ c # run THEN [op EXCEPT !.pc = "save", !.next = c]
                ELSE Config!Free
      BY <2>4 DEF Config!cleanGo
    <3>3. c \in Settings
      BY <3>0 DEF Holders, Settings
    <3> HIDE DEF c
    <3>4. CASE op' = Config!Free
      <4>1. ReadTrue' /\ SaveTrue' /\ WriteTrue'
        BY <3>4, FreeHolder DEF ReadTrue, SaveTrue, WriteTrue
      <4>2. ~Debt'
        BY <3>4, FreeHolder DEF Debt, Writes
      <4> QED BY <3>0, <3>1, <3>4, <4>1, <4>2, FreeHolder, ConfigFacts
    <3>5. CASE Config!Clean /\ op' = [op EXCEPT !.pc = "save", !.next = c]
      <4>1. op' \in Holders /\ op'.pc = "save" /\ op'.kind = op.kind /\ op'.at = op.at
        BY <3>0, <3>3, <3>5 DEF Holders
      <4>2. CfgClean
        BY <3>5, ConfigFacts DEF Config!Clean, CfgClean
      <4>3. ReadTrue' /\ WriteTrue'
        BY <4>1 DEF ReadTrue, WriteTrue
      <4>4. SaveTrue'
        BY <1>1, <1>2, <3>0, <4>1, <4>2 DEF SaveTrue, CfgClean
      <4> QED BY <3>0, <3>1, <4>1, <4>3, <4>4, ConfigFacts
    <3> QED BY <3>2, <3>4, <3>5
  <2> QED BY <2>1, <2>2, <2>3, <2>4 DEF Config!watchConfig
<1>4. KnownTrue'
  BY <1>1, <1>3, KnownRests
<1>5. PastTimes' = PastTimes /\ AllTimes' = AllTimes
  BY <1>1 DEF PastTimes, AllTimes, Config!NoFile, Config!Last
<1>6. ConfigTyped'
  BY <1>1, <1>3, ConfigFacts DEF ConfigTyped
<1>7. TimesOld'
  <2>1. ticks' <= cEvents' /\ (Debt' => ticks' < cEvents')
    BY <1>1, <1>3, ConfigFacts
  <2> QED BY <1>1, <1>3, <1>5, <2>1, ConfigFacts DEF TimesOld
<1> QED BY <1>3, <1>4, <1>6, <1>7 DEF ConfigParts

\* A step that gives out no time keeps the times.
LEMMA TimesRest ==
    ASSUME ConfigParts, ticks' = ticks, cEvents' \in {cEvents, cEvents + 1},
           stamp' \in PastTimes, known' \in PastTimes, watch' \in PastTimes,
           op'.at \in PastTimes, Debt' => Debt,
           op'.pc = "free" <=> op'.kind = "none",
           op'.kind \notin Writes => op'.pc \in {"free", "read", "adopt"}
    PROVE  TimesOld'
<1>1. PastTimes' = PastTimes
  BY DEF PastTimes, Config!NoFile, Config!Last
<1>2. ticks' \in Nat /\ ticks' <= cEvents' /\ (Debt' => ticks' < cEvents')
  BY ConfigFacts
<1> QED BY <1>1, <1>2 DEF TimesOld

\* An operation that gives the lock back promises nothing more of the file.
LEMMA FreeRests ==
    ASSUME ConfigParts, op' = Config!Free
    PROVE  /\ ReadTrue' /\ SaveTrue' /\ WriteTrue'
           /\ op' \in Holders /\ op'.at = stamp /\ op'.pc = "free" /\ op'.kind = "none" /\ ~Debt'
<1>1. /\ op' \in Holders /\ op'.at = stamp /\ op'.pc = "free" /\ op'.kind = "none"
  BY FreeHolder
<1> QED BY <1>1 DEF ReadTrue, SaveTrue, WriteTrue, Debt, Writes

\* The read notes the time that it was given, and reads the file as it is.
LEMMA ConfigReadsIt == ASSUME ConfigParts, Config!reloadRead PROVE ConfigParts'
<1>1. /\ op.pc = "read" /\ known' = op.at
      /\ op' = [op EXCEPT !.read = [file EXCEPT !.is = IF stamp = Config!NoFile THEN "broken" ELSE @],
                          !.pc = "adopt"]
      /\ UNCHANGED <<file, stamp, shadow, ticks, run, fromShadow, code, cPaired, watch, raced,
                     lastGood, cEvents>>
  BY DEF Config!reloadRead
<1>2. PICK r : r = [file EXCEPT !.is = IF stamp = Config!NoFile THEN "broken" ELSE @]
  OBVIOUS
<1>3. r \in Reads
  <2>1. file \in Reads
    BY ConfigFacts, ConfigContents
  <2>2. CASE stamp = Config!NoFile
    <3>1. r = [file EXCEPT !.is = "broken"]
      BY <1>2, <2>2
    <3>2. CASE file \in [is : {"good", "unknown"}, cfg : Settings]
      BY <3>1, <3>2 DEF Reads, Settings
    <3>3. CASE file \in [is : {"faulty", "broken"},
                         cfg : [name : GoodNames \cup {Bad}, def : Playlists, srv : BOOLEAN]]
      BY <3>1, <3>3 DEF Reads
    <3> QED BY <2>1, <3>2, <3>3 DEF Reads
  <2>3. CASE stamp # Config!NoFile
    <3>1. r = [file EXCEPT !.is = @]
      BY <1>2, <2>3
    <3>2. r = file
      BY <2>1, <3>1 DEF Reads
    <3> QED BY <2>1, <3>2
  <2> QED BY <2>2, <2>3
<1>4. op' \in Holders /\ op'.pc = "adopt" /\ op'.kind = op.kind /\ op'.at = op.at /\ op'.read = r
  BY <1>1, <1>2, <1>3, ConfigFacts DEF Holders
<1>5. ConfigTyped'
  BY <1>1, <1>4, ConfigFacts, ConfigTimes DEF ConfigParts, ConfigTyped
<1>6. KnownTrue' /\ SaveTrue' /\ WriteTrue'
  BY <1>4 DEF KnownTrue, SaveTrue, WriteTrue
<1>7. ReadTrue'
  BY <1>1, <1>2, <1>4 DEF ReadTrue, Config!NoFile, Config!Last
<1>8. TimesOld'
  <2>1. Debt' => Debt
    BY <1>1, <1>4 DEF Debt
  <2>2. op'.kind # "none"
    BY <1>1, <1>4, ConfigFacts
  <2> QED BY <1>1, <1>4, <2>1, <2>2, TimesRest, ConfigFacts
<1> QED BY <1>5, <1>6, <1>7, <1>8 DEF ConfigParts

\* What was read is adopted; a file with a fault leaves the warning.
LEMMA ConfigAdoptsIt == ASSUME ConfigParts, Config!reloadAdopt PROVE ConfigParts'
<1>1. /\ op.pc = "adopt" /\ op' = Config!AfterReload
      /\ UNCHANGED <<file, stamp, ticks, shadow, cPaired, watch, raced, cEvents>>
  BY DEF Config!reloadAdopt
<1>2. /\ op' \in Holders /\ op'.at \in PastTimes /\ op'.pc \in {"free", "clean"}
      /\ op'.pc = "free" <=> op'.kind = "none"
      /\ op'.kind \notin Writes => op'.pc \in {"free", "read", "adopt"}
      /\ Debt' => Debt
  <2>1. CASE op.kind = "reload"
    <3>1. op' = Config!Free
      BY <1>1, <2>1 DEF Config!AfterReload
    <3> QED BY <3>1, FreeRests, ConfigFacts
  <2>2. CASE op.kind # "reload"
    <3>1. op' = [op EXCEPT !.pc = "clean"]
      BY <1>1, <2>2 DEF Config!AfterReload
    <3>2. op' \in Holders /\ op'.pc = "clean" /\ op'.kind = op.kind /\ op'.at = op.at
      BY <3>1, ConfigFacts DEF Holders
    <3>3. op.kind \in Writes
      BY <1>1, <2>2, ConfigFacts DEF Holders, Writes
    <3> QED BY <1>1, <3>2, <3>3, ConfigFacts DEF Debt, Writes
  <2> QED BY <2>1, <2>2
<1>3. ReadTrue' /\ WriteTrue'
  BY <1>2 DEF ReadTrue, WriteTrue
<1>4. known' \in PastTimes
  BY ConfigFacts DEF Config!reloadAdopt
<1>5. TimesOld'
  BY <1>1, <1>2, <1>4, TimesRest, ConfigFacts
<1>6. CASE Config!Good(op.read)
  <2>1. /\ run' = Config!keepManaged(op.read.cfg)
        /\ code' = IF run' # op.read.cfg THEN "managed"
                   ELSE IF op.read.is = "unknown" THEN "unknown" ELSE "none"
        /\ fromShadow' = FALSE /\ known' = stamp /\ lastGood' = op.read.cfg
    BY <1>6 DEF Config!reloadAdopt
  <2>2. op.read \in Reads /\ run \in Settings
    BY ConfigFacts DEF Holders
  <2>3. op.read.cfg \in Settings
    BY <1>6, <2>2, ConfigContents DEF Reads, Config!Good
  <2>4. run' \in Settings
    BY <2>1, <2>2, <2>3 DEF Config!keepManaged, Settings
  <2>5. ConfigTyped'
    BY <1>1, <1>2, <2>1, <2>3, <2>4, ConfigFacts, ConfigTimes DEF ConfigParts, ConfigTyped
  <2>6. SaveTrue'
    BY <1>1, <1>2, <2>1 DEF SaveTrue
  <2>7. KnownTrue'
    <3>1. SUFFICES ASSUME CfgClean', raced' = FALSE
                   PROVE  stamp # Config!NoFile /\ Config!Good(file) /\ file.cfg = run'
      BY <1>1 DEF KnownTrue, FileIsRun, Config!Good, Config!NoFile, Config!Last
    <3>2. run' = op.read.cfg
      BY <2>1, <3>1 DEF CfgClean
    <3>3. op.read = [file EXCEPT !.is = IF stamp = Config!NoFile THEN "broken" ELSE @]
      BY <1>1, <3>1 DEF ConfigParts, ReadTrue
    <3>4. file \in Reads
      BY ConfigFacts, ConfigContents
    <3>5. op.read.cfg = file.cfg
            /\ op.read.is = IF stamp = Config!NoFile THEN "broken" ELSE file.is
      BY <3>3, <3>4 DEF Reads
    <3> QED BY <1>6, <3>2, <3>5 DEF Config!Good
  <2> QED BY <1>3, <1>5, <2>5, <2>6, <2>7 DEF ConfigParts
<1>7. CASE ~Config!Good(op.read)
  <2>1. code' = "badEdit" /\ UNCHANGED <<run, fromShadow, known, lastGood>>
    BY <1>7 DEF Config!reloadAdopt
  <2>2. ConfigTyped'
    BY <1>1, <1>2, <2>1, ConfigFacts DEF ConfigParts, ConfigTyped
  <2>3. KnownTrue' /\ SaveTrue'
    BY <1>2, <2>1 DEF KnownTrue, SaveTrue, CfgClean
  <2> QED BY <1>3, <1>5, <2>2, <2>3 DEF ConfigParts
<1> QED BY <1>6, <1>7

\* A repaired configuration passes, and one that passes is not repaired.
LEMMA Repairs ==
    /\ \A f \in Config!Contents : Config!Repair(f.cfg) \in Settings
    /\ \A c \in Settings : Config!Repair(c) = c
<1>1. ASSUME NEW c \in [name : GoodNames \cup {Bad}, def : Playlists, srv : BOOLEAN]
      PROVE  Config!Repair(c) \in Settings /\ (c.name # Bad => Config!Repair(c) = c)
  BY ConfigContents DEF Config!Repair, Settings
<1>2. Settings \subseteq [name : GoodNames \cup {Bad}, def : Playlists, srv : BOOLEAN]
  BY DEF Settings
<1>3. \A f \in Config!Contents :
        f.cfg \in [name : GoodNames \cup {Bad}, def : Playlists, srv : BOOLEAN]
  BY <1>2, ConfigContents DEF Reads
<1> QED BY <1>1, <1>2, <1>3, ConfigContents

\* The start of the daemon.
LEMMA ConfigLoads == ASSUME ConfigParts, Config!Load PROVE ConfigParts'
<1>1. /\ Config!Event("restart") /\ op' = Config!Free
      /\ known' = stamp /\ watch' = stamp
      /\ UNCHANGED <<file, stamp, ticks, cPaired, raced>>
  BY DEF Config!Load
<1>2. cEvents' = cEvents + 1 /\ cEvents' \in 0..MaxCfg
  BY <1>1, ConfigCount
<1>3. code' = IF stamp = Config!NoFile \/ ~Config!Good(file) THEN "repaired"
              ELSE IF file.is = "unknown" THEN "unknown" ELSE "none"
  BY DEF Config!Load
<1>4. run' = IF file.is # "broken" /\ stamp # Config!NoFile THEN Config!Repair(file.cfg)
             ELSE Config!Repair(shadow.cfg)
  BY DEF Config!Load
<1>5. run' \in Settings
  BY <1>4, Repairs, ConfigFacts
<1>6. shadow' \in Config!Contents /\ lastGood' \in Settings /\ fromShadow' \in BOOLEAN
  <2>1. shadow' = file \/ shadow' = shadow
    BY DEF Config!Load
  <2>2. lastGood' = lastGood \/ (Config!Good(file) /\ lastGood' = file.cfg)
    BY DEF Config!Load
  <2>3. fromShadow' \in BOOLEAN
    BY DEF Config!Load
  <2> QED BY <2>1, <2>2, <2>3, ConfigFacts, ConfigContents
<1>7. ConfigTyped'
  BY <1>1, <1>2, <1>3, <1>5, <1>6, FreeRests, ConfigFacts DEF ConfigParts, ConfigTyped
<1>8. KnownTrue'
  <2>1. SUFFICES ASSUME CfgClean'
                 PROVE  stamp # Config!NoFile /\ Config!Good(file) /\ file.cfg = run'
    BY <1>1 DEF KnownTrue, FileIsRun, Config!Good, Config!NoFile, Config!Last
  <2>2. stamp # Config!NoFile /\ Config!Good(file)
    BY <1>3, <2>1 DEF CfgClean
  <2>3. run' = Config!Repair(file.cfg)
    BY <1>4, <2>2 DEF Config!Good
  <2>4. file.cfg \in Settings
    BY <2>2, ConfigFacts, ConfigContents
  <2> QED BY <2>2, <2>3, <2>4, Repairs
<1>9. TimesOld'
  BY <1>1, <1>2, FreeRests, TimesRest, ConfigFacts
<1> QED BY <1>1, <1>7, <1>8, <1>9, FreeRests DEF ConfigParts

\* The write of the whole file, or the card that has no room for it.
LEMMA ConfigSaves == ASSUME ConfigParts, Config!Save PROVE ConfigParts'
<1>1. /\ op.pc = "save" /\ op.kind \in Writes /\ Debt
      /\ UNCHANGED <<shadow, run, known, fromShadow, code, cPaired, watch>>
  BY ConfigFacts DEF Config!Save, Config!daemon, Debt
<1>2. CASE /\ Config!NewStamp(FALSE)
           /\ file' = [is |-> "good", cfg |-> op.next]
           /\ raced' = FALSE /\ lastGood' = op.next
           /\ op' = [op EXCEPT !.pc = "mirror"]
           /\ UNCHANGED cEvents
  <2>1. op' \in Holders /\ op'.pc = "mirror" /\ op'.kind = op.kind /\ op'.at = op.at
          /\ op'.next = op.next /\ op.next \in Settings
    BY <1>2, ConfigFacts DEF Holders
  <2>2. ticks < cEvents /\ ticks < MaxCfg /\ ticks \in Nat /\ cEvents \in Nat
    BY <1>1, ConfigFacts, ConfigContents
  <2>3. /\ ticks' = ticks + 1 /\ ticks' \in Nat /\ stamp' \in PastTimes'
        /\ stamp' # Config!NoFile /\ PastTimes \subseteq PastTimes'
    BY <1>2, <2>2, ConfigTicks
  <2>4. PastTimes' \subseteq AllTimes
    <3>1. ticks' <= MaxCfg
      BY <2>2, <2>3, ConfigContents
    <3> QED BY <2>3, <3>1, ConfigTimesNext
  <2>5. ConfigTyped'
    BY <1>1, <1>2, <2>1, <2>3, <2>4, ConfigFacts, ConfigContents DEF ConfigParts, ConfigTyped, AllTimes
  <2>6. KnownTrue' /\ ReadTrue' /\ SaveTrue'
    BY <2>1 DEF KnownTrue, ReadTrue, SaveTrue
  <2>7. WriteTrue'
    BY <1>2, <2>1, <2>3 DEF WriteTrue, Config!NoFile, Config!Last
  <2>8. TimesOld'
    <3>1. ticks' <= cEvents'
      BY <1>2, <2>2, <2>3
    <3>2. ~Debt'
      BY <2>1 DEF Debt
    <3>3. /\ known' \in PastTimes' /\ watch' \in PastTimes' /\ op'.at \in PastTimes'
      BY <1>1, <2>1, <2>3, ConfigFacts
    <3>4. op'.kind \in Writes /\ op'.kind # "none" /\ op'.pc # "free"
      BY <1>1, <2>1 DEF Writes
    <3> QED BY <2>3, <3>1, <3>2, <3>3, <3>4 DEF TimesOld
  <2> QED BY <2>5, <2>6, <2>7, <2>8 DEF ConfigParts
<1>3. CASE Config!Event("full") /\ op' = Config!Free /\ UNCHANGED <<file, stamp, ticks, raced, lastGood>>
  <2>1. cEvents' = cEvents + 1 /\ cEvents' \in 0..MaxCfg
    BY <1>3, ConfigCount
  <2>2. ConfigTyped'
    BY <1>1, <1>3, <2>1, FreeRests, ConfigFacts DEF ConfigParts, ConfigTyped
  <2>3. KnownTrue'
    BY <1>1, <1>3, KnownRests
  <2>4. TimesOld'
    BY <1>1, <1>3, <2>1, FreeRests, TimesRest, ConfigFacts
  <2> QED BY <1>3, <2>2, <2>3, <2>4, FreeRests DEF ConfigParts
<1> QED BY <1>2, <1>3 DEF Config!Save

\* The shadow copy follows the file, if the card has room for it.
LEMMA ConfigMirrors == ASSUME ConfigParts, Config!mirror PROVE ConfigParts'
<1>1. /\ op.pc = "mirror" /\ op' = [op EXCEPT !.pc = "adopted"]
      /\ op.kind \in Writes /\ op \in Holders
      /\ UNCHANGED <<file, stamp, ticks, run, known, fromShadow, code, cPaired, watch, raced,
                     lastGood>>
  BY ConfigFacts DEF Config!mirror, Config!daemon
<1>2. shadow' \in Config!Contents /\ cEvents' \in {cEvents, cEvents + 1} /\ cEvents' \in 0..MaxCfg
  <2>1. CASE shadow' = [is |-> "good", cfg |-> op.next] /\ UNCHANGED cEvents
    BY <1>1, <2>1, ConfigFacts, ConfigContents DEF Holders
  <2>2. CASE Config!Event("full") /\ UNCHANGED shadow
    BY <2>2, ConfigCount, ConfigFacts
  <2> QED BY <2>1, <2>2 DEF Config!mirror
<1>3. /\ op' \in Holders /\ op'.pc = "adopted" /\ op'.kind = op.kind /\ op'.at = op.at
      /\ op'.next = op.next
  BY <1>1 DEF Holders
<1>4. ConfigTyped'
  BY <1>1, <1>2, <1>3, ConfigFacts DEF ConfigParts, ConfigTyped
<1>5. KnownTrue' /\ ReadTrue' /\ SaveTrue'
  BY <1>3 DEF KnownTrue, ReadTrue, SaveTrue
<1>6. WriteTrue'
  BY <1>1, <1>3 DEF ConfigParts, WriteTrue, Config!NoFile, Config!Last
<1>7. TimesOld'
  <2>1. Debt' => Debt
    BY <1>3 DEF Debt
  <2>2. op'.kind \in Writes /\ op'.kind # "none" /\ op'.pc # "free"
    BY <1>1, <1>3 DEF Writes
  <2> QED BY <1>1, <1>2, <1>3, <2>1, <2>2, TimesRest, ConfigFacts
<1> QED BY <1>4, <1>5, <1>6, <1>7 DEF ConfigParts

\* What was saved runs.
LEMMA ConfigRuns == ASSUME ConfigParts, Config!adopt PROVE ConfigParts'
<1>1. /\ op.pc = "adopted" /\ op' = Config!Free
      /\ run' = op.next /\ known' = stamp /\ fromShadow' = FALSE /\ code' = "none"
      /\ UNCHANGED <<file, stamp, ticks, shadow, cPaired, watch, raced, lastGood, cEvents>>
  BY DEF Config!adopt
<1>2. op.next \in Settings
  BY ConfigFacts DEF Holders
<1>3. ConfigTyped'
  BY <1>1, <1>2, FreeRests, ConfigFacts DEF ConfigParts, ConfigTyped
<1>4. KnownTrue'
  <2>1. SUFFICES ASSUME raced = FALSE
                 PROVE  stamp # Config!NoFile /\ Config!Good(file) /\ file.cfg = run'
    BY <1>1 DEF KnownTrue, FileIsRun, Config!Good, Config!NoFile, Config!Last
  <2>2. stamp # Config!NoFile /\ file = [is |-> "good", cfg |-> op.next]
    BY <1>1, <2>1 DEF ConfigParts, WriteTrue
  <2> QED BY <1>1, <2>2 DEF Config!Good
<1>5. TimesOld'
  BY <1>1, FreeRests, TimesRest, ConfigFacts
<1> QED BY <1>1, <1>3, <1>4, <1>5, FreeRests DEF ConfigParts

\* A person writes the file, or takes it away: what the daemon knows of it is old, or the
\* history says so.
LEMMA ConfigPerson == ASSUME ConfigParts, Config!Person PROVE ConfigParts'
<1>1. /\ Config!Event("person")
      /\ raced' = (op.pc # "free" \/ stamp' = known)
      /\ UNCHANGED <<shadow, run, known, fromShadow, code, cPaired, watch, op, lastGood>>
  BY DEF Config!Person, Config!daemon
<1>2. cEvents' = cEvents + 1 /\ cEvents' \in 0..MaxCfg /\ ticks < MaxCfg
  BY <1>1, ConfigCount
<1>3. KnownTrue'
  BY <1>1 DEF KnownTrue
<1>4. ReadTrue' /\ SaveTrue' /\ WriteTrue'
  <2>1. op.pc # "free" => raced' = TRUE
    BY <1>1
  <2>2. SaveTrue
    BY DEF ConfigParts
  <2> QED BY <1>1, <2>1, <2>2 DEF ReadTrue, SaveTrue, WriteTrue, CfgClean
<1>5. /\ file' \in Config!Contents /\ stamp' \in AllTimes /\ TimesOld'
  <2>1. CASE Config!NewStamp(TRUE) /\ file' \in {f \in Config!Contents : f.cfg.srv = file.cfg.srv}
    <3>1. /\ ticks' = ticks + 1 /\ ticks' \in Nat /\ stamp' \in PastTimes'
          /\ PastTimes \subseteq PastTimes'
      BY <1>2, <2>1, ConfigTicks, ConfigFacts
    <3>2. PastTimes' \subseteq AllTimes
      <4>1. ticks' <= MaxCfg
        BY <1>2, <3>1, ConfigContents, ConfigFacts
      <4> QED BY <3>1, <4>1, ConfigTimesNext
    <3>3. ticks' <= cEvents' /\ (Debt' => ticks' < cEvents')
      <4>1. Debt' = Debt
        BY <1>1 DEF Debt
      <4> QED BY <1>2, <3>1, <4>1, ConfigFacts
    <3>4. /\ known' \in PastTimes' /\ watch' \in PastTimes' /\ op'.at \in PastTimes'
      BY <1>1, <3>1, ConfigFacts
    <3>5. TimesOld'
      BY <1>1, <3>1, <3>3, <3>4, ConfigFacts DEF TimesOld
    <3> QED BY <2>1, <3>1, <3>2, <3>5
  <2>2. CASE stamp' = Config!NoFile /\ UNCHANGED <<file, ticks>>
    <3>1. stamp' \in PastTimes /\ stamp' \in AllTimes
      BY <2>2, ConfigTimes, ConfigFacts
    <3>2. Debt' => Debt
      BY <1>1 DEF Debt
    <3>3. TimesOld'
      BY <1>1, <1>2, <2>2, <3>1, <3>2, TimesRest, ConfigFacts
    <3> QED BY <2>2, <3>1, <3>3, ConfigFacts
  <2> QED BY <2>1, <2>2 DEF Config!Person
<1>6. ConfigTyped'
  <2>1. raced' \in BOOLEAN
    BY <1>1
  <2> QED BY <1>1, <1>2, <1>5, <2>1, ConfigFacts DEF ConfigParts, ConfigTyped, AllTimes, Config!NoFile,
             Config!Last
<1> QED BY <1>3, <1>4, <1>5, <1>6 DEF ConfigParts

\* The pairing goes up or down.
LEMMA ConfigPairs == ASSUME ConfigParts, Config!Pairing PROVE ConfigParts'
<1>1. /\ Config!Event("pair") /\ cPaired' = ~cPaired
      /\ UNCHANGED <<file, stamp, ticks, shadow, run, known, fromShadow, code, watch, op, raced,
                     lastGood>>
  BY DEF Config!Pairing, Config!daemon
<1>2. cEvents' = cEvents + 1 /\ cEvents' \in 0..MaxCfg
  BY <1>1, ConfigCount
<1>3. cPaired' \in BOOLEAN
  BY <1>1
<1>4. ConfigTyped'
  BY <1>1, <1>2, <1>3 DEF ConfigParts, ConfigTyped, AllTimes, Config!NoFile, Config!Last
<1>5. KnownTrue'
  BY <1>1, KnownRests
<1>6. ReadTrue' /\ SaveTrue' /\ WriteTrue'
  BY <1>1 DEF ConfigParts, ReadTrue, SaveTrue, WriteTrue, CfgClean, Config!NoFile, Config!Last
<1>7. TimesOld'
  <2>1. Debt' => Debt
    BY <1>1 DEF Debt
  <2> QED BY <1>1, <1>2, <2>1, TimesRest, ConfigFacts
<1> QED BY <1>4, <1>5, <1>6, <1>7 DEF ConfigParts

\* The configuration of the factory, on the card and running.
LEMMA ConfigInit == Config!Init => ConfigParts
<1> SUFFICES ASSUME Config!Init PROVE ConfigParts
  OBVIOUS
<1>1. /\ file = [is |-> "good", cfg |-> Config!Default] /\ stamp = 0 /\ shadow = file
      /\ run = Config!Default /\ known = stamp /\ fromShadow = FALSE /\ code = "none"
      /\ cPaired = FALSE /\ watch = stamp /\ ticks = 0
      /\ raced = FALSE /\ lastGood = Config!Default /\ cEvents = 0
  BY DEF Config!Init
<1>2. op = [pc |-> "free", kind |-> "none", next |-> Config!Default, read |-> file, at |-> stamp]
  BY DEF Config!Init
<1>3. file \in Config!Contents /\ file \in Reads
  BY <1>1, ConfigContents
<1>4. PastTimes \subseteq AllTimes /\ 0 \in PastTimes /\ MaxCfg \in Nat /\ 0 \in 0..MaxCfg
  BY <1>1, ConfigTimes, ConfigContents
<1>5. op \in Holders /\ op.pc = "free" /\ op.kind = "none" /\ op.at = 0
  <2>1. stamp \in AllTimes /\ Config!Default \in Settings
    BY <1>1, <1>4, ConfigContents
  <2> QED BY <1>1, <1>2, <1>3, <2>1 DEF Holders
<1>6. ConfigTyped
  BY <1>1, <1>3, <1>4, <1>5, ConfigContents DEF ConfigTyped
<1>7. KnownTrue
  <2>1. stamp # Config!NoFile
    BY <1>1, ConfigContents
  <2> QED BY <1>1, <2>1 DEF KnownTrue, FileIsRun, Config!Good
<1>8. ReadTrue /\ SaveTrue /\ WriteTrue
  BY <1>5 DEF ReadTrue, SaveTrue, WriteTrue
<1>9. TimesOld
  BY <1>1, <1>4, <1>5 DEF TimesOld, Debt, Writes
<1> QED BY <1>6, <1>7, <1>8, <1>9 DEF ConfigParts

\* Each step keeps the invariant.
LEMMA ConfigStep == ASSUME ConfigParts, Config!Next PROVE ConfigParts'
<1>1. CASE Config!Steps
  BY <1>1, ConfigLooks, ConfigReadsIt, ConfigAdoptsIt, ConfigSaves, ConfigMirrors, ConfigRuns
     DEF Config!Steps
<1>2. CASE \/ \E n \in GoodNames, l \in Playlists :
                Config!saveConfig([run EXCEPT !.name = n, !.def = l])
           \/ Config!saveServer
           \/ \E n \in GoodNames : Config!saveName(n)
           \/ \E l \in Playlists : Config!playlistRenamed(l)
  BY <1>2, ConfigTakes
<1>3. CASE Config!Load \/ Config!Person \/ Config!Pairing
  BY <1>3, ConfigLoads, ConfigPerson, ConfigPairs
<1> QED BY <1>1, <1>2, <1>3, Zenon DEF Config!Next

\* A step of another component keeps it.
LEMMA ConfigFrame == ASSUME ConfigParts, UNCHANGED configVars PROVE ConfigParts'
<1>1. UNCHANGED <<file, stamp, shadow, run, known, fromShadow, code, cPaired, watch, ticks,
                  op, raced, lastGood, cEvents>>
  BY DEF configVars
<1>2. ConfigTyped'
  BY <1>1 DEF ConfigParts, ConfigTyped, AllTimes, Config!NoFile, Config!Last
<1>3. KnownTrue'
  BY <1>1, KnownRests
<1>4. ReadTrue' /\ SaveTrue' /\ WriteTrue'
  BY <1>1 DEF ConfigParts, ReadTrue, SaveTrue, WriteTrue, CfgClean, Config!NoFile, Config!Last
<1>5. TimesOld'
  <2>1. Debt' => Debt
    BY <1>1 DEF Debt
  <2> QED BY <1>1, <2>1, TimesRest, ConfigFacts
<1> QED BY <1>2, <1>3, <1>4, <1>5 DEF ConfigParts

\* When a rename of the device or of a playlist writes the file, the file was what runs:
\* the operation that saves found the configuration clean and the time of the file known.
LEMMA SaveKeepsEdits == ASSUME ConfigParts PROVE Config!AutoSaveKeepsEdits
<1> SUFFICES ASSUME op.kind \in {"name", "rename"}, op.pc = "save", raced = FALSE
             PROVE  stamp # Config!NoFile /\ Config!Good(file) /\ file.cfg = run
  BY ConfigFacts DEF Config!AutoSaveKeepsEdits
<1>1. CfgClean /\ known = stamp
  BY DEF ConfigParts, SaveTrue
<1> QED BY <1>1 DEF ConfigParts, KnownTrue, FileIsRun

\* A save that no person asked for keeps the values of the person
\* (cmd/portapixeld/run.go: cleanConfigLocked before saveName and playlistRenamed).
THEOREM FileSafe == DeviceSpec => FileIsKept
<1> DEFINE A == Config!AutoSaveKeepsEdits /\ Config!TypeOK'
<1>1. DeviceInit => ConfigParts
  BY ConfigInit DEF DeviceInit
<1>2. ConfigParts /\ [DeviceNext]_deviceVars => ConfigParts'
  <2> SUFFICES ASSUME ConfigParts, [DeviceNext]_deviceVars PROVE ConfigParts'
    OBVIOUS
  <2>1. Config!Next \/ UNCHANGED configVars
    BY DEF DeviceNext, OfPower, OfSync, OfEditor, OfHash, OfConfig, OfSched, OfInstall, deviceVars
  <2> QED BY <2>1, ConfigStep, ConfigFrame
<1>3. ConfigParts /\ ConfigParts' => A
  <2>1. ConfigParts' => ConfigTyped'
    BY DEF ConfigParts
  <2>2. Config!TypeOK' <=> ConfigTyped'
    <3>1. (Config!TypeOK <=> ConfigTyped)'
      BY ConfigTypes, PTL
    <3> QED BY <3>1
  <2> QED BY <2>1, <2>2, SaveKeepsEdits
<1> HIDE DEF A
<1>4. DeviceSpec => [][A]_configVars
  BY <1>1, <1>2, <1>3, PTL DEF DeviceSpec
<1> QED BY <1>4 DEF A, FileIsKept
=============================================================================
