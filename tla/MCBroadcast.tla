----------------------------- MODULE MCBroadcast -----------------------------
(* Two subnets with a BBMD and a host each; a foreign device on a third    *)
(* subnet registers with the BBMD of the first.                            *)
EXTENDS Broadcast, TLC

CONSTANTS b1, b2, h1, f1, h2

MCStations == {b1, b2, h1, h2, f1}
MCHome == b1 :> 1 @@ h1 :> 1 @@ b2 :> 2 @@ h2 :> 2 @@ f1 :> 3
MCBBMDOf == f1 :> b1
MCPeers == b1 :> {b1, b2} @@ b2 :> {}
MCSaved == [b \in {b1, b2} |-> {b1, b2}]
MCMasks == {{}, {b1, b2}}
MCTables == [m \in MCMasks |-> {{b1, b2}} \cup (IF m = {} THEN {{b1}} ELSE {})]
MCTTL == f1 :> 4

\* This installation is one of those that the theorems are about.
ASSUME InstallationAssumption ==
  Apart /\ UniformMasks /\ Meshed /\ NoForeignManagers /\ RenewedInTime
=============================================================================
