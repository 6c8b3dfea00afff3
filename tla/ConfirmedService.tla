-------------------------- MODULE ConfirmedService --------------------------
(***************************************************************************)
(* What confirmed_request() of app/application.py promises its callers:    *)
(* each request comes to one end and keeps it, an answer is the answer of  *)
(* a handler that was given that request, and only over a network that     *)
(* loses messages is a request given up.  A request that was given up may  *)
(* have been executed, or may be executed yet.                             *)
(*                                                                         *)
(* Exchange, with the two state machines and the network, implements it.   *)
(***************************************************************************)
EXTENDS Naturals, Sequences

CONSTANT MaxRequests   \* bound: the requests made

VARIABLES
  reliable,   \* whether the network loses nothing
  executed,   \* the requests that handlers were given
  outcome     \* of each request that was made, in order

service_vars == <<reliable, executed, outcome>>

Outcomes == {"pending", "answered", "given_up"}

Init == reliable \in BOOLEAN /\ executed = {} /\ outcome = <<>>

Ask ==
  /\ Len(outcome) < MaxRequests
  /\ outcome' = Append(outcome, "pending")
  /\ UNCHANGED <<reliable, executed>>

Execute(r) ==
  /\ r \in DOMAIN outcome /\ r \notin executed
  /\ executed' = executed \cup {r}
  /\ UNCHANGED <<reliable, outcome>>

End(r, how) ==
  /\ r \in DOMAIN outcome /\ outcome[r] = "pending"
  /\ how = "answered" => r \in executed
  /\ how = "given_up" => ~reliable
  /\ outcome' = [outcome EXCEPT ![r] = how]
  /\ UNCHANGED <<reliable, executed>>

Next ==
  \/ Ask
  \/ \E r \in 1 .. MaxRequests :
       Execute(r) \/ \E how \in {"answered", "given_up"} : End(r, how)

(* Every request that is made ends.                                        *)
Ends ==
  \A r \in 1 .. MaxRequests :
    (r \in DOMAIN outcome) ~> (r \in DOMAIN outcome /\ outcome[r] # "pending")

Spec == Init /\ [][Next]_service_vars /\ Ends
=============================================================================
