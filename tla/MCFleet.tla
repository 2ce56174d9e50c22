------------------------------ MODULE MCFleet ------------------------------
(***************************************************************************)
(* FleetCommands for TLC, in four scenes that allow different steps:       *)
(*                                                                         *)
(*   queue   one server with two commands of three kinds, the clock, and a *)
(*           screen that is deleted;                                       *)
(*   move    a device that goes from one server to another one;            *)
(*   leave   Pair and Unpair in the middle of a round, failed saves;       *)
(*   arrive  a device that stays with its server.                          *)
(*                                                                         *)
(* A behaviour stays in the scene in which it begins.                      *)
(***************************************************************************)
EXTENDS FleetCommands

CONSTANTS
    Home,    \* the server of the scenes with one server
    Scenes   \* the scenes of the run

ASSUME SceneAssumption ==
    /\ Home \in Servers
    /\ Scenes \subseteq {"queue", "move", "leave", "arrive"}

VARIABLE scene

Sent == {<<s, i>> \in Servers \X Ids : i < nextId[s]}
SentKinds(set) == \A c \in Sent : kinds[c[1]][c[2]] \in set
NoneIsOld == \A s \in Servers, i \in Ids : rows[s][i].age = 0
NoneRevoked == \A s \in Servers : device[s].known => device[s].token # 0
OnlyHome == \A s \in Servers \ {Home} : ~device[s].known
OneCommand == \A s \in Servers : nextId[s] <= 2

\* What a scene allows after a step.
Allowed ==
    CASE scene = "queue" -> /\ OnlyHome /\ NoneRevoked /\ pairings <= 1
                            /\ SentKinds({"reboot", "rename", "local"})
      [] scene = "move" -> OneCommand /\ NoneIsOld /\ SentKinds({"update", "local"})
      [] scene = "leave" -> OneCommand /\ SentKinds({"reboot", "rename"})
      [] scene = "arrive" -> /\ NoneIsOld /\ NoneRevoked /\ mem = disk /\ pairings <= 1
                             /\ SentKinds({"reboot", "local"})

\* A step A of the scene.  In the last one nobody takes the device away.
In(A) ==
    /\ A
    /\ UNCHANGED scene
    /\ Allowed'
    /\ scene = "arrive" /\ mem.srv # None => mem'.srv # None

sceneVars == <<scene, vars>>

SceneInit == Init /\ scene \in Scenes
SceneNext == In(Next)
SceneSpec == SceneInit /\ [][SceneNext]_sceneVars

\* The Fairness of FleetCommands, for the scenes with a liveness property.
SceneFairness ==
    /\ WF_sceneVars(In(RoundStep))
    /\ WF_sceneVars(In(SweepCommands(Home)))
    /\ WF_sceneVars(In(TenMinutes(Home, 1))) /\ WF_sceneVars(In(TenMinutes(Home, 2)))
    /\ WF_sceneVars(In(GrowOld(Home, 1)))

FairSceneSpec == SceneSpec /\ SceneFairness

-----------------------------------------------------------------------------
(***************************************************************************)
(* The liveness properties, in the scenes that they are about.             *)
(***************************************************************************)
\* Every command comes to an end: acknowledged, expired or removed with its
\* row, whatever the device does (TakeCommands, SweepCommands).
CommandsEnd == []<>(scene = "leave" => ~Waiting(rows[Home][1]))

\* A command that the device can repeat safely reaches a device that stays
\* paired, as long as fewer tries are lost, or spent on a reboot in front of it,
\* than maxDeliveries allows (TakeCommands sends it again): nothing takes a row or
\* the pairing away in this scene, so in the end it ran.
CommandsArrive ==
    <>[](scene = "arrive" =>
            \A i \in Ids :
                /\ rows[Home][i].state # "none" /\ kinds[Home][i] = "local"
                /\ mem.srv = Home
                => ran[Home][i] > 0)
=============================================================================
