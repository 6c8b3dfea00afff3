---------------------------- MODULE MCServerTSM ----------------------------
(* Values for the constants of ServerTSM that a configuration cannot spell. *)
EXTENDS ServerTSM

\* Two unsegmented requests; the second is a DeviceCommunicationControl.
MCRequests        == { <<"a">>, <<"b">> }
MCAllowedRequests == { <<"b">> }
=============================================================================
