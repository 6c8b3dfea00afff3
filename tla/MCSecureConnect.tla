--------------------------- MODULE MCSecureConnect ---------------------------
(* Two nodes, a primary and a failover hub; either node may start with the *)
(* address the other has.                                                  *)
EXTENDS SecureConnect

CONSTANTS n1, n2, h1, h2, v1, v2

MCURIs == <<h1, h2>>
MCFirstVMAC == n1 :> v1 @@ n2 :> v2
=============================================================================
