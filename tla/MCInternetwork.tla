---------------------------- MODULE MCInternetwork ----------------------------
(* Four networks in a row, joined by routers r1, r2 and r3, with a device  *)
(* on each of the outer ones.  r1 and r3 also run applications; that of r1 *)
(* announces itself globally.                                              *)
EXTENDS Internetwork, TLC

CONSTANTS r1, r2, r3, d1, d4

MCNets == 1 .. 4
MCRouters == {r1, r2, r3}
MCPorts == r1 :> {1, 2} @@ r2 :> {2, 3} @@ r3 :> {3, 4}
MCToward == r1 :> <<1, 2, 2, 2>> @@ r2 :> <<2, 2, 3, 3>> @@ r3 :> <<3, 3, 3, 4>>
MCAppPort == r1 :> 1 @@ r2 :> NULL @@ r3 :> 4
MCDevices == {d1, d4}
MCHome == d1 :> 1 @@ d4 :> 4
MCSends == {Request(d1, 4, d4, TRUE), Request(r1, Global, NULL, FALSE)}
MCMaxStarts == r1 :> 1 @@ r2 :> 2 @@ r3 :> 1

\* The applications' broadcasts are among those that LearnedIsTrueTheorem is
\* about.
ASSUME BroadcastsAssumption == NoBroadcastNextDoor
=============================================================================
