------------------------------ MODULE Broadcast ------------------------------
(***************************************************************************)
(* Broadcasts between IP subnets: BBMDManager (transport/bbmd.py),         *)
(* ForeignDeviceManager (transport/foreign_device.py) and the receive path *)
(* of BIPTransport (transport/bip.py), together with their IPv6            *)
(* counterparts, which do the same but for the differences marked by       *)
(* family = "v6".                                                          *)
(*                                                                         *)
(* A station stands for its address.  Time is kept as what remains until   *)
(* an expiry or a wake-up; it passes only when no datagram is on the way,  *)
(* that is, a round trip is shorter than the unit of time.  Datagrams may  *)
(* be lost, and overtake each other.  NPDUs are not confirmed requests     *)
(* (those are the subject of Internetwork); no BBMD has a NAT address.     *)
(***************************************************************************)
EXTENDS Integers, FiniteSets, Bags

CONSTANTS
  Stations, Home,    \* the stations, and the subnet of each
  BBMDs,             \* stations with a BBMD attached
  Accepting,         \* those with accept_fd_registrations
  Writable,          \* those with allow_write_bdt
  Foreign, BBMDOf,   \* stations that may register, and where
  Peers,             \* the BDT each BBMD is configured with, {} if none
  Masks,             \* which BBMDs' BDT entries have the subnet's mask: choices
  Saved,             \* the BDTs saved by an earlier session
  Tables,            \* for each choice of masks, what Write-BDT may write
  Managers,          \* stations that call the BVLC client functions
  TTL,               \* the time to live each foreign device asks for
  MaxTTL,            \* 3600
  Grace,             \* FDT_GRACE_PERIOD_SECONDS
  CleanupInterval,   \* fdt_cleanup_interval
  MaxFDT,            \* max_fdt_entries
  Families,          \* subset of {"v4", "v6"}
  MaxNPDUs,          \* bound: broadcasts
  MaxEvents,         \* bound: broadcasts, losses, restarts of BBMDs and foreign
                     \* devices, and calls of BVLC client functions
  MaxLosses,         \* bound: datagrams lost
  NULL

ASSUME StationsAssumption ==
  /\ BBMDs \subseteq Stations /\ Foreign \subseteq Stations \ BBMDs
  /\ BBMDOf \in [Foreign -> BBMDs] /\ Managers \subseteq Stations
  /\ Peers \in [BBMDs -> SUBSET BBMDs] /\ Saved \in [BBMDs -> SUBSET BBMDs]
  /\ Masks \subseteq SUBSET BBMDs /\ Tables \in [Masks -> SUBSET SUBSET BBMDs]
  /\ \A b, c \in BBMDs : Home[b] = Home[c] => b = c
  /\ Families \subseteq {"v4", "v6"} /\ NULL \notin Stations

ASSUME TimesAssumption ==
  /\ TTL \in [Foreign -> Nat \ {0}]
  /\ {MaxTTL, CleanupInterval, MaxFDT} \subseteq Nat \ {0}
  /\ {Grace, MaxNPDUs, MaxEvents, MaxLosses} \subseteq Nat

VARIABLES
  family,      \* "v4" or "v6", fixed
  directed,    \* BBMDs whose BDT entry has the mask of their subnet, fixed
  bdt,         \* BBMDManager._bdt, as the set of its addresses
  backup,      \* what the file at bdt_backup_path holds
  fdt,         \* BBMDManager._fdt: time until expiry by address
  cleanup,     \* time until the cleanup loop runs
  attached,    \* foreign devices with a running registration loop
  registered,  \* those that think they are registered
  renewal,     \* time until the next registration
  frames,      \* the datagrams on the way: a bag
  origin,      \* the sender of each NPDU broadcast so far
  got,         \* what the network layers were given: a bag
  call,        \* the calls of BVLC client functions that have not returned
  pending,     \* _pending_bvlc: by caller, function expected and station asked
  \* history
  crossed,     \* calls made while an earlier one of the caller to the same
               \* station was pending or its answer could still come, and
               \* those that were pending
  dropped,     \* devices whose entry was taken out of the table other than
               \* by its expiry since it was last entered
  calm,        \* NPDUs sent since the last loss or change of a table
  losses,      \* datagrams lost so far
  events       \* broadcasts, losses, restarts and calls so far

tables == <<bdt, backup, fdt, cleanup>>
devices == <<attached, registered, renewal>>
calls == <<call, pending, crossed>>
config == <<family, directed>>
vars == <<config, tables, devices, frames, origin, got, calls, dropped, calm, losses, events>>

(* What a behaviour holds only so much of                                  *)
Event == events < MaxEvents /\ events' = events + 1

-----------------------------------------------------------------------------
(* Datagrams                                                               *)

Subnet(s) == {t \in Stations : Home[t] = Home[s]}

(* npdu is the number of the broadcast, or that of the call.               *)
Datagram(fn, src, dst, orig, npdu, arg) ==
  [fn |-> fn, src |-> src, dst |-> dst, orig |-> orig, npdu |-> npdu, arg |-> arg]

(* What a station sends to the broadcast address or the multicast group    *)
(* of the subnet of s; the sender discards its own echo.                   *)
Wire(fn, src, s, orig, npdu) ==
  {Datagram(fn, src, t, orig, npdu, "") : t \in Subnet(s) \ {src}}

(* A BVLC-Result; re names the function it answers, of the call n.         *)
ResultOf(n, src, dst, code, re) == {Datagram("result", src, dst, code, n, re)}
Result(src, dst, code, re) == ResultOf(0, src, dst, code, re)

Sending(out) == frames' = frames (+) SetToBag(out)
Answering(f, out) == frames' = (frames (-) SetToBag({f})) (+) SetToBag(out)
Arrived(fn) == {f \in BagToSet(frames) : f.fn = fn}

(* receive_callback: the network layer of s is given an NPDU and its source *)
Deliver(s, n, src) == got' = got (+) SetToBag({[to |-> s, npdu |-> n, src |-> src]})

-----------------------------------------------------------------------------
(* BBMDManager                                                             *)

(* _compute_forward_address: the peer itself, or its subnet's broadcast    *)
(* address                                                                 *)
compute_forward_address(b, p, orig, n) ==
  IF p \in directed
  THEN Wire("forwarded", b, p, orig, n)
  ELSE {Datagram("forwarded", b, p, orig, n, "")}

(* Mutant: the sender is not left out.                                     *)
ForwardToAllFDs(b, orig, n, exclude) ==
  {Datagram("forwarded", b, f, orig, n, "") : f \in DOMAIN fdt[b]}

ForwardToFDs(b, orig, n, exclude) ==
  {Datagram("forwarded", b, f, orig, n, "") : f \in DOMAIN fdt[b] \ {exclude}}

(* To the peers, unless the peer's own address is that of the originator,  *)
(* and to the foreign devices                                              *)
forward_to_peers_and_fds(b, orig, n, exclude) ==
  ForwardToFDs(b, orig, n, exclude)
    \cup UNION {compute_forward_address(b, p, orig, n) :
                  p \in {q \in bdt[b] \ {b} : q # orig \/ q \in directed}}

(* IPv6: there are no masks.                                               *)
forward_to_peers_and_fds6(b, orig, n, exclude) ==
  {Datagram("forwarded", b, p, orig, n, "") : p \in bdt[b] \ {b, orig}}
    \cup ForwardToFDs(b, orig, n, exclude)

Forwarding(b, orig, n, exclude) ==
  IF family = "v6" THEN forward_to_peers_and_fds6(b, orig, n, exclude)
  ELSE forward_to_peers_and_fds(b, orig, n, exclude)

(* Mutant: the test is inverted.                                           *)
is_directed_bdt_mask(b, p) == p \in bdt[b] /\ p \in directed

(* _is_unicast_bdt_mask, of the entry of the sending BBMD                  *)
is_unicast_bdt_mask(b, p) == p \notin bdt[b] \/ p \notin directed

(* send_broadcast                                                          *)
send_broadcast(s) ==
  LET n == Cardinality(DOMAIN origin) + 1 IN
  /\ n <= MaxNPDUs /\ Event
  /\ origin' = [i \in 1 .. n |-> IF i = n THEN s ELSE origin[i]]
  /\ Sending(IF s \in attached \cap registered
             THEN {Datagram("distribute", s, BBMDOf[s], s, n, "")}
             ELSE Wire("original", s, s, s, n) \cup
                  (IF s \in BBMDs THEN Forwarding(s, s, n, NULL) ELSE {}))
  /\ calm' = calm \cup {n}
  /\ UNCHANGED <<config, tables, devices, got, calls, dropped, losses>>

(* Original-Broadcast-NPDU: a BBMD passes it on, and everyone delivers it. *)
handle_original_broadcast(f) ==
  /\ Deliver(f.dst, f.npdu, f.src)
  /\ Answering(f, IF f.dst \in BBMDs
                  THEN Forwarding(f.dst, f.src, f.npdu, NULL)
                  ELSE {})
  /\ UNCHANGED <<config, tables, devices, origin, calls, dropped, calm, losses, events>>

(* Forwarded-NPDU at a BBMD: unless it is its own, it goes to the foreign  *)
(* devices, to the local wire if it came by unicast, and to the network    *)
(* layer.                                                                  *)
handle_forwarded_npdu(f) ==
  LET b == f.dst IN
  /\ IF f.orig = b
     THEN Answering(f, {}) /\ UNCHANGED got
     ELSE /\ Answering(f, ForwardToFDs(b, f.orig, f.npdu, f.orig) \cup
                          (IF is_unicast_bdt_mask(b, f.src)
                           THEN Wire("forwarded", b, b, f.orig, f.npdu) ELSE {}))
          /\ Deliver(b, f.npdu, f.orig)
  /\ UNCHANGED <<config, tables, devices, origin, calls, dropped, calm, losses, events>>

(* IPv6: it is always put on the wire, and the network layer is told the   *)
(* VMAC of the BBMD that sent it.                                          *)
handle_forwarded_npdu6(f) ==
  LET b == f.dst IN
  /\ IF f.orig = b
     THEN Answering(f, {}) /\ UNCHANGED got
     ELSE /\ Answering(f, ForwardToFDs(b, f.orig, f.npdu, f.orig) \cup
                          Wire("forwarded", b, b, f.orig, f.npdu))
          /\ Deliver(b, f.npdu, f.src)
  /\ UNCHANGED <<config, tables, devices, origin, calls, dropped, calm, losses, events>>

(* Forwarded-NPDU at any other station                                     *)
receive_forwarded(f) ==
  /\ Answering(f, {})
  /\ Deliver(f.dst, f.npdu, f.orig)
  /\ UNCHANGED <<config, tables, devices, origin, calls, dropped, calm, losses, events>>

receive_forwarded6(f) ==
  /\ Answering(f, {})
  /\ Deliver(f.dst, f.npdu, f.src)
  /\ UNCHANGED <<config, tables, devices, origin, calls, dropped, calm, losses, events>>

(* Distribute-Broadcast-To-Network: on to peers and other foreign devices, *)
(* and to the BBMD's own network layer                                     *)
handle_distribute_broadcast(f) ==
  LET b == f.dst IN
  /\ IF f.src \notin DOMAIN fdt[b]
     THEN Answering(f, Result(b, f.src, "nak", "distribute")) /\ UNCHANGED got
     ELSE /\ Answering(f, forward_to_peers_and_fds(b, f.src, f.npdu, f.src))
          /\ Deliver(b, f.npdu, f.src)
  /\ UNCHANGED <<config, tables, devices, origin, calls, dropped, calm, losses, events>>

(* IPv6: the BBMD also puts it on its own wire.                            *)
handle_distribute_broadcast6(f) ==
  LET b == f.dst IN
  /\ IF f.src \notin DOMAIN fdt[b]
     THEN Answering(f, Result(b, f.src, "nak", "distribute")) /\ UNCHANGED got
     ELSE /\ Answering(f, forward_to_peers_and_fds6(b, f.src, f.npdu, f.src) \cup
                          Wire("forwarded", b, b, f.src, f.npdu))
          /\ Deliver(b, f.npdu, f.src)
  /\ UNCHANGED <<config, tables, devices, origin, calls, dropped, calm, losses, events>>

(* What is refused: registrations at a BBMD that takes none, and new ones  *)
(* when the table is full                                                  *)
Refused(b, s) ==
  \/ b \notin Accepting
  \/ s \notin DOMAIN fdt[b] /\ Cardinality(DOMAIN fdt[b]) >= MaxFDT

Entered(f, lifetime) ==
  LET b == f.dst
      s == f.src
  IN
  /\ IF Refused(b, s)
     THEN Answering(f, Result(b, s, "nak", "register")) /\ UNCHANGED <<fdt, dropped>>
     ELSE /\ fdt' = [fdt EXCEPT ![b] = [t \in DOMAIN @ \cup {s} |->
                                          IF t = s THEN lifetime ELSE @[t]]]
          /\ dropped' = dropped \ {s}
          /\ Answering(f, Result(b, s, "ok", "register"))
  /\ calm' = {}
  /\ UNCHANGED <<config, bdt, backup, cleanup, devices, origin, got, calls, losses, events>>

handle_register_foreign_device(f) ==
  Entered(f, (IF TTL[f.src] > MaxTTL THEN MaxTTL ELSE TTL[f.src]) + Grace)

(* IPv6: the time to live is not limited.                                  *)
handle_register_foreign_device6(f) == Entered(f, TTL[f.src] + Grace)

Without(table, gone) == [t \in DOMAIN table \ gone |-> table[t]]

(* Delete-Foreign-Device-Table-Entry; orig is the address to delete        *)
handle_delete_fdt_entry(f) ==
  LET found == f.orig \in DOMAIN fdt[f.dst] IN
  /\ fdt' = [fdt EXCEPT ![f.dst] = Without(@, {f.orig})]
  /\ dropped' = IF found THEN dropped \cup {f.orig} ELSE dropped
  /\ calm' = {}
  /\ Answering(f, ResultOf(f.npdu, f.dst, f.src, IF found THEN "ok" ELSE "nak", "delete"))
  /\ UNCHANGED <<config, bdt, backup, cleanup, devices, origin, got, calls, losses, events>>

(* Write-Broadcast-Distribution-Table, where it is allowed, with the       *)
(* saving of the backup                                                    *)
handle_write_bdt(f) ==
  /\ IF f.dst \in Writable
     THEN /\ bdt' = [bdt EXCEPT ![f.dst] = f.orig]
          /\ backup' = [backup EXCEPT ![f.dst] = f.orig]
          /\ calm' = {}
          /\ Answering(f, ResultOf(f.npdu, f.dst, f.src, "ok", "write"))
     ELSE /\ Answering(f, ResultOf(f.npdu, f.dst, f.src, "nak", "write"))
          /\ UNCHANGED <<bdt, backup, calm>>
  /\ UNCHANGED <<config, fdt, cleanup, devices, origin, got, calls, dropped, losses, events>>

(* Read-Broadcast-Distribution-Table and Read-Foreign-Device-Table         *)
handle_read(f) ==
  /\ Answering(f, {Datagram("ack", f.dst, f.src, NULL, f.npdu, f.arg)})
  /\ UNCHANGED <<config, tables, devices, origin, got, calls, dropped, calm, losses, events>>

(* _send_bvlc_nak: a station without BBMD refuses BVLC requests.           *)
send_bvlc_nak(f) ==
  /\ Answering(f, ResultOf(f.npdu, f.dst, f.src, "nak", f.arg))
  /\ UNCHANGED <<config, tables, devices, origin, got, calls, dropped, calm, losses, events>>

(* _fdt_cleanup_loop and _purge_expired_fdt_entries                        *)
purge_expired_fdt_entries(b) ==
  /\ cleanup[b] = 0
  /\ fdt' = [fdt EXCEPT ![b] = Without(@, {t \in DOMAIN @ : @[t] = 0})]
  /\ cleanup' = [cleanup EXCEPT ![b] = CleanupInterval]
  /\ calm' = {}
  /\ UNCHANGED <<config, bdt, backup, devices, frames, origin, got, calls, dropped, losses, events>>

(* attach_bbmd and _load_bdt_backup: a BDT that is configured wins.  In    *)
(* IPv6 there is no backup and nothing writes the BDT: what is saved is    *)
(* what the application sets at each start.                                *)
load_bdt_backup(b, saved) == IF Peers[b] # {} THEN Peers[b] ELSE saved

(* A BBMD stops and starts again: its FDT is lost, and its BDT is that of  *)
(* its configuration (which set_bdt saves) or of the backup.  Datagrams to *)
(* it are lost meanwhile.                                                  *)
restart_bbmd(b) ==
  /\ Event
  /\ bdt' = [bdt EXCEPT ![b] = load_bdt_backup(b, backup[b])]
  /\ backup' = [backup EXCEPT ![b] = bdt'[b]]
  /\ fdt' = [fdt EXCEPT ![b] = Without(@, DOMAIN @)]
  /\ dropped' = dropped \cup DOMAIN fdt[b]
  /\ cleanup' = [cleanup EXCEPT ![b] = CleanupInterval]
  /\ frames' = [f \in {g \in DOMAIN frames : g.dst # b} |-> frames[f]]
  /\ calm' = {}
  /\ UNCHANGED <<config, devices, origin, got, calls, losses>>

-----------------------------------------------------------------------------
(* ForeignDeviceManager                                                    *)

(* Mutant: renewal when the time to live is over.                          *)
RenewalAtExpiry(f) == TTL[f]

(* asyncio.sleep(ttl / 2), rounded up to whole units of time               *)
RenewalInterval(f) == (TTL[f] + 1) \div 2

(* start: the first turn of the loop is due.                               *)
attach_foreign_device(f) ==
  /\ f \notin attached
  /\ Event
  /\ attached' = attached \cup {f}
  /\ renewal' = [renewal EXCEPT ![f] = 0]
  /\ UNCHANGED <<config, tables, registered, frames, origin, got, calls, dropped, calm, losses>>

(* Mutant: a registration that was not confirmed is not tried again.       *)
renewal_loop(f) ==
  /\ f \in attached \cap registered /\ renewal[f] = 0
  /\ renewal' = [renewal EXCEPT ![f] = RenewalInterval(f)]
  /\ Sending({Datagram("register", f, BBMDOf[f], NULL, 0, "register")})
  /\ UNCHANGED <<config, tables, attached, registered, origin, got, calls, dropped, calm,
                 losses, events>>

registration_loop(f) ==
  /\ f \in attached /\ renewal[f] = 0
  /\ renewal' = [renewal EXCEPT ![f] = RenewalInterval(f)]
  /\ Sending({Datagram("register", f, BBMDOf[f], NULL, 0, "register")})
  /\ UNCHANGED <<config, tables, attached, registered, origin, got, calls, dropped, calm,
                 losses, events>>

(* deregister_foreign_device: the loop is stopped and, if it is            *)
(* registered, the device has its entry deleted.                           *)
deregister_foreign_device(f) ==
  /\ f \in attached
  /\ Event
  /\ attached' = attached \ {f}
  /\ registered' = registered \ {f}
  /\ Sending(IF f \in registered
             THEN {Datagram("delete", f, BBMDOf[f], f, 0, "delete")} ELSE {})
  /\ calm' = {}
  /\ UNCHANGED <<config, tables, renewal, origin, got, calls, dropped, losses>>

-----------------------------------------------------------------------------
(* The BVLC client functions of BIPTransport                               *)

Reads == {"read_bdt", "read_fdt"}
Function(op) == IF op \in Reads THEN "read" ELSE op
Expected(op) == IF op \in Reads THEN op ELSE "result"
Key(c) == <<call[c].caller, Expected(call[c].op), call[c].station>>

(* The calls of m to b that have not returned                              *)
Between(m, b) == {c \in DOMAIN call : call[c].caller = m /\ call[c].station = b}

(* The datagrams of calls, and whose they are                              *)
Caller(f) == IF f.fn \in {"result", "ack"} THEN f.dst ELSE f.src
Callee(f) == IF f.fn \in {"result", "ack"} THEN f.src ELSE f.dst
OfCall(f) == f.fn \in {"read", "write", "delete", "result", "ack"} /\ f.npdu # 0
Underway(m, b) ==
  {f \in BagToSet(frames) : OfCall(f) /\ Caller(f) = m /\ Callee(f) = b}

(* read_bdt, read_fdt, write_bdt and delete_fdt_entry up to their await: a *)
(* pending call of the same key loses its place.                           *)
bvlc_request(m, b, op, what) ==
  LET n == events + 1
      key == <<m, Expected(op), b>>
  IN
  /\ family = "v4" /\ Event
  /\ call' = [c \in DOMAIN call \cup {n} |->
                IF c = n THEN [caller |-> m, station |-> b, op |-> op, answer |-> NULL]
                ELSE call[c]]
  /\ pending' = [k \in DOMAIN pending \cup {key} |-> IF k = key THEN n ELSE pending[k]]
  /\ crossed' = IF Between(m, b) = {} /\ Underway(m, b) = {} THEN crossed
                ELSE crossed \cup Between(m, b) \cup {n}
  /\ Sending({Datagram(Function(op), m, b, what, n, op)})
  /\ UNCHANGED <<config, tables, devices, origin, got, dropped, calm, losses>>

Waiting(k) == k \in DOMAIN pending /\ call[pending[k]].answer = NULL

(* Mutant: a pending request is found by the function it expects alone.    *)
resolved_by_function(f) ==
  {k \in DOMAIN pending :
     Waiting(k) /\ k[1] = f.dst /\ k[2] = (IF f.fn = "ack" THEN f.arg ELSE "result")}

(* _resolve_pending_bvlc: the pending request a message settles, found by  *)
(* its function and its sender                                             *)
resolve_pending_bvlc(f) ==
  {k \in {<<f.dst, IF f.fn = "ack" THEN f.arg ELSE "result", f.src>>} : Waiting(k)}

(* _NAK_TO_PENDING_ACK: a refused read fails at once.                      *)
FailedRead(f) ==
  {k \in {<<f.dst, f.arg, f.src>>} :
     Waiting(k) /\ f.fn = "result" /\ f.orig = "nak" /\ f.arg \in Reads}

(* BVLC-Result and the acknowledgements.  What no call is waiting for      *)
(* tells a foreign device about its registration, whatever it answers.     *)
handle_bvlc_result(f) ==
  LET settled == resolve_pending_bvlc(f)
      done == {pending[k] : k \in settled \cup (IF settled = {} THEN FailedRead(f) ELSE {})}
  IN
  /\ Answering(f, {})
  /\ call' = [c \in DOMAIN call |->
                IF c \in done
                THEN [call[c] EXCEPT !.answer = [call |-> f.npdu, op |-> f.arg, from |-> f.src]]
                ELSE call[c]]
  /\ registered' =
       IF settled # {} \/ f.fn # "result" \/ f.dst \notin attached
          \/ f.src # BBMDOf[f.dst]
       THEN registered
       ELSE IF f.orig = "ok" THEN registered \cup {f.dst} ELSE registered \ {f.dst}
  /\ calm' = IF registered' = registered THEN calm ELSE {}
  /\ UNCHANGED <<config, tables, attached, renewal, origin, got, pending, crossed, dropped,
                 losses, events>>

(* The call returns, or the time of its caller runs out, which may be at   *)
(* any time; what is pending under its key is removed, even if it is a     *)
(* younger call.                                                           *)
finish_bvlc_request(c) ==
  /\ call' = [d \in DOMAIN call \ {c} |-> call[d]]
  /\ pending' = [k \in DOMAIN pending \ {Key(c)} |-> pending[k]]
  /\ crossed' = crossed \ {c}
  /\ UNCHANGED <<config, tables, devices, frames, origin, got, dropped, calm, losses, events>>

-----------------------------------------------------------------------------
(* The network and the clock                                               *)

Lose(f) ==
  /\ Event
  /\ losses < MaxLosses
  /\ losses' = losses + 1
  /\ Answering(f, {})
  /\ calm' = {}
  /\ UNCHANGED <<config, tables, devices, origin, got, calls, dropped>>

Sooner(t) == IF t = 0 THEN 0 ELSE t - 1

(* A unit of time passes; what is due is done first.                       *)
Tick ==
  /\ BagToSet(frames) = {}
  /\ \A f \in attached : renewal[f] > 0
  /\ \A b \in BBMDs : cleanup[b] > 0
  /\ fdt' = [b \in BBMDs |-> [t \in DOMAIN fdt[b] |-> Sooner(fdt[b][t])]]
  /\ cleanup' = [b \in BBMDs |-> Sooner(cleanup[b])]
  /\ renewal' = [f \in Foreign |-> IF f \in attached THEN Sooner(renewal[f]) ELSE 0]
  /\ UNCHANGED <<config, bdt, backup, attached, registered, frames, origin, got, calls,
                 dropped, calm, losses, events>>

Init ==
  /\ family \in Families
  /\ directed \in (IF family = "v4" THEN Masks ELSE {{}})
  /\ bdt = [b \in BBMDs |-> load_bdt_backup(b, Saved[b])]
  /\ backup = bdt
  /\ fdt = [b \in BBMDs |-> [t \in {} |-> 0]]
  /\ cleanup = [b \in BBMDs |-> CleanupInterval]
  /\ attached = Foreign
  /\ registered = {}
  /\ renewal = [f \in Foreign |-> 0]
  /\ frames = EmptyBag
  /\ origin = [i \in {} |-> NULL]
  /\ got = EmptyBag
  /\ call = [c \in {} |-> NULL] /\ pending = [k \in {} |-> 0] /\ crossed = {}
  /\ dropped = {}
  /\ calm = {}
  /\ losses = 0 /\ events = 0

(* _on_datagram_received and handle_bvlc: what a station does depends on   *)
(* the function and on whether a BBMD is attached.                         *)
on_datagram_received ==
  \/ \E f \in Arrived("original") : handle_original_broadcast(f)
  \/ family = "v4" /\ \E f \in Arrived("forwarded") :
       IF f.dst \in BBMDs THEN handle_forwarded_npdu(f) ELSE receive_forwarded(f)
  \/ family = "v6" /\ \E f \in Arrived("forwarded") :
       IF f.dst \in BBMDs THEN handle_forwarded_npdu6(f) ELSE receive_forwarded6(f)
  \/ family = "v4" /\ \E f \in Arrived("distribute") : handle_distribute_broadcast(f)
  \/ family = "v6" /\ \E f \in Arrived("distribute") : handle_distribute_broadcast6(f)
  \/ family = "v4" /\ \E f \in Arrived("register") : handle_register_foreign_device(f)
  \/ family = "v6" /\ \E f \in Arrived("register") : handle_register_foreign_device6(f)
  \/ \E f \in Arrived("delete") :
       IF f.dst \in BBMDs THEN handle_delete_fdt_entry(f) ELSE send_bvlc_nak(f)
  \/ \E f \in Arrived("write") :
       IF f.dst \in BBMDs THEN handle_write_bdt(f) ELSE send_bvlc_nak(f)
  \/ \E f \in Arrived("read") :
       IF f.dst \in BBMDs THEN handle_read(f) ELSE send_bvlc_nak(f)
  \/ \E f \in Arrived("result") \cup Arrived("ack") : handle_bvlc_result(f)

client_call(m) ==
  \E b \in Stations \ (Foreign \cup {m}) :
     \/ \E op \in Reads : bvlc_request(m, b, op, NULL)
     \/ \E t \in Tables[directed] : bvlc_request(m, b, "write", t)
     \/ \E s \in Foreign : bvlc_request(m, b, "delete", s)

Next ==
  \/ \E s \in Stations : send_broadcast(s)
  \/ on_datagram_received
  \/ \E b \in BBMDs : purge_expired_fdt_entries(b) \/ restart_bbmd(b)
  \/ \E f \in Foreign :
       attach_foreign_device(f) \/ registration_loop(f) \/ deregister_foreign_device(f)
  \/ \E m \in Managers : client_call(m)
  \/ \E c \in DOMAIN call : finish_bvlc_request(c)
  \/ \E f \in BagToSet(frames) : Lose(f)
  \/ Tick

(* Timers that are due fire and datagrams arrive or are lost; losses and   *)
(* restarts are bounded.                                                   *)
Fairness ==
  /\ WF_vars(on_datagram_received)
  /\ WF_vars(Tick)
  /\ \A b \in BBMDs : WF_vars(purge_expired_fdt_entries(b))
  /\ \A f \in Foreign : WF_vars(registration_loop(f))

Spec == Init /\ [][Next]_vars
FairSpec == Spec /\ Fairness

-----------------------------------------------------------------------------
(* Types of all variables.                                                 *)
TypeOK ==
  /\ family \in {"v4", "v6"} /\ directed \subseteq BBMDs
  /\ bdt \in [BBMDs -> SUBSET BBMDs] /\ backup \in [BBMDs -> SUBSET BBMDs]
  /\ \A b \in BBMDs : DOMAIN fdt[b] \subseteq Foreign
                      /\ \A t \in DOMAIN fdt[b] : fdt[b][t] \in Nat
  /\ cleanup \in [BBMDs -> Nat]
  /\ attached \subseteq Foreign /\ registered \subseteq Foreign
  /\ renewal \in [Foreign -> Nat]
  /\ \A f \in BagToSet(frames) : /\ f.src \in Stations /\ f.dst \in Stations
                                 /\ f.src # f.dst
  /\ \A c \in DOMAIN call : call[c].caller \in Managers /\ call[c].station \in Stations
  /\ \A k \in DOMAIN pending : pending[k] \in DOMAIN call /\ Key(pending[k]) = k
  /\ crossed \subseteq DOMAIN call
  /\ dropped \subseteq Foreign

(* A broadcast is given to each network layer at most once and never comes *)
(* back to its sender, whichever BBMDs and foreign devices pass it on (the *)
(* loop prevention of bbmd.py and the masks of its BDT entries).           *)
OnceEach ==
  \A g \in BagToSet(got) :
    /\ g.to # origin[g.npdu]
    /\ \A h \in BagToSet(got) : g.to = h.to /\ g.npdu = h.npdu => g = h
    /\ got[g] = 1

(* The stations a BBMD serves: those of its subnet and of its peers', and  *)
(* the foreign devices in its table and theirs.                            *)
Served(b) ==
  UNION {(IF p = b \/ p \in bdt[b] THEN Subnet(p) \cup DOMAIN fdt[p] ELSE {}) : p \in BBMDs}

(* Who is to hear a broadcast of s.  A foreign device's broadcast is not   *)
(* put on the wire of an IPv4 BBMD's own subnet.                           *)
Audience(s) ==
  LET near == {b \in BBMDs : Home[b] = Home[s]}
      far == {b \in BBMDs : s \in DOMAIN fdt[b] /\ s \in attached \cap registered}
  IN (IF far # {}
      THEN UNION {Served(b) \ (IF family = "v4" THEN Subnet(b) \ {b} ELSE {}) : b \in far}
      ELSE Subnet(s) \cup UNION {Served(b) : b \in near}) \ {s}

(* When everything has arrived and no table changed since a broadcast was  *)
(* sent, all stations served have it.                                      *)
ReachesAll ==
  BagToSet(frames) = {} =>
    \A n \in calm : (origin[n] \in registered => origin[n] \notin dropped) =>
       \A s \in Audience(origin[n]) : \E g \in BagToSet(got) : g.to = s /\ g.npdu = n

(* In IPv4 the network layer is told who sent the broadcast, so that it    *)
(* can be answered (the originating address of a Forwarded-NPDU).          *)
OriginIsTold ==
  family = "v4" => \A g \in BagToSet(got) : g.src = origin[g.npdu]

(* A foreign device that renews its registration stays in the table, even  *)
(* if one datagram is lost: it is missing only where the table was lost or *)
(* its entry deleted after it was entered.                                 *)
RenewalKeepsEntry ==
  \A f \in attached \cap registered :
    f \in DOMAIN fdt[BBMDOf[f]] \/ f \in dropped

(* The answer to a call comes from the station it asked.  It is the answer *)
(* to this call, unless another call of the caller to the same station     *)
(* overlapped with it or was given up when its answer could still come (a  *)
(* late answer then settles the younger call, bip.py _resolve_pending_bvlc) *)
(* or the station answers the caller's own registration; but one table     *)
(* never passes for the other.                                             *)
AnswersOwnCall ==
  \A c \in DOMAIN call : LET a == call[c].answer IN
    a # NULL =>
      /\ a.from = call[c].station
      /\ call[c].op \in Reads => a.op = call[c].op
      /\ \/ a.call = c
         \/ a.call = 0 /\ call[c].caller \in Foreign /\ BBMDOf[call[c].caller] = a.from
         \/ c \in crossed

(* A foreign device that is not in the table gets in again, however it was *)
(* lost: a registration that the BBMD forgot is renewed in time.           *)
StaleRegistrationHeals ==
  \A f \in Foreign :
    (f \in attached /\ f \notin DOMAIN fdt[BBMDOf[f]])
      ~> (f \in DOMAIN fdt[BBMDOf[f]] \/ f \notin attached)

(* Every copy that is given to a network layer is the only one and comes   *)
(* from where it says.                                                     *)
DeliveredOnce == TypeOK /\ OnceEach /\ OriginIsTold

-----------------------------------------------------------------------------
(* What some of the properties need of an installation.                    *)

(* No foreign device shares the subnet of a BBMD, where it would hear each *)
(* broadcast on the wire and from the BBMD.                                *)
Apart == \A s \in Foreign, b \in BBMDs : Home[s] # Home[b]

(* The masks of all BDT entries, or of none, are those of their subnets.   *)
UniformMasks == \A m \in Masks : m = {} \/ m = BBMDs

(* Where they are, every BBMD has all of them in its BDT.  It takes the    *)
(* mask of others for unicast, and would put on its wire again what was    *)
(* sent there already.                                                     *)
Meshed ==
  \A m \in Masks \ {{}} :
    /\ Tables[m] \subseteq {BBMDs}
    /\ \A b \in BBMDs : load_bdt_backup(b, Saved[b]) = BBMDs

(* A foreign device does not use the BVLC client functions besides, whose  *)
(* late answers it would take for those to its registration.               *)
NoForeignManagers == Managers \cap Foreign = {}

(* No more than one datagram is lost, a foreign device asks for no longer  *)
(* time than it can be given, and the grace period is longer than what is  *)
(* lost in waiting for whole units of time until half of it has passed.    *)
RenewedInTime ==
  /\ MaxLosses <= 1
  /\ \A f \in Foreign : TTL[f] <= MaxTTL /\ TTL[f] % 2 < Grace
=============================================================================
