---------------------------- MODULE SecureConnect ----------------------------
(***************************************************************************)
(* BACnet/SC (transport/sc/): the connection state machine (SCConnection), *)
(* the hub's switching function (SCHubFunction), the hub connector of a    *)
(* node with failover and backoff (SCHubConnector), its node switch with   *)
(* direct connections and address resolution (SCNodeSwitch), and the       *)
(* transport on top of them (SCTransport).                                 *)
(*                                                                         *)
(* A connection is a record with two ends: "a" dialled, "b" accepted.  The *)
(* WebSocket between them keeps the order of what is sent; EOF is what an  *)
(* end reads when the other has closed.  A link that is cut delivers       *)
(* nothing more and tells nobody: only an end that sends finds out.  A     *)
(* node stands for its device UUID.  Nodes and hubs stop and start again.  *)
(***************************************************************************)
EXTENDS Integers, Sequences, FiniteSets, Bags, Functions, TLC

CONSTANTS
  Nodes,           \* devices with an SCTransport
  Hubs,            \* devices with an SCHubFunction
  URIs,            \* primary_hub_uri and failover_hub_uri: a sequence of hubs
  VMACs, FirstVMAC,\* addresses, and the one each node starts with
  Switches,        \* nodes whose node switch is enabled
  MaxConnections,  \* max_connections of hubs and node switches
  MinDelay, MaxDelay,  \* min_reconnect_time and max_reconnect_time
  Ids,             \* connections that may exist at the same time
  Prompt,          \* TRUE: what is sent arrives before any timeout
  MaxEvents,       \* bound: cuts, stops, NPDUs sent, and calls of resolve_address
                   \* and establish_direct
  MaxNPDUs,        \* bound: NPDUs sent
  ALL, NULL        \* the broadcast VMAC; no value

ASSUME NodesAssumption ==
  /\ Nodes \cap Hubs = {} /\ Switches \subseteq Nodes
  /\ URIs \in Seq(Hubs) /\ URIs # <<>>
  /\ FirstVMAC \in [Nodes -> VMACs] /\ ALL \notin VMACs /\ NULL \notin VMACs \cup Ids
  /\ {MaxConnections, MinDelay, MaxDelay} \subseteq Nat \ {0} /\ MinDelay <= MaxDelay
  /\ Prompt \in BOOLEAN /\ {MaxEvents, MaxNPDUs} \subseteq Nat

VARIABLES
  running,     \* the nodes and hubs that are up
  vmac,        \* SCTransport._vmac, by node
  conns,       \* the connections in use, by identifier
  table,       \* SCHubFunction._connections: by hub, then VMAC
  uuids,       \* SCHubFunction._uuid_map: by hub, then node
  pending,     \* SCHubFunction._pending_vmacs, by hub
  lapsed,      \* history: the hubs that gave a VMAC back before its time
  connector,   \* SCHubConnector, by node
  direct,      \* SCNodeSwitch._direct_connections: by node, then VMAC
  asked,       \* SCNodeSwitch._pending_resolutions: by node, then VMAC
  sent,        \* the NPDUs sent: the sender's VMAC, and the destination
  got,         \* what the network layers were given: a bag
  events       \* what happened so far of what MaxEvents bounds

hubVars == <<table, uuids, pending, lapsed>>
nodeVars == <<connector, direct, asked>>
history == <<sent, got, events>>
vars == <<running, vmac, conns, hubVars, nodeVars, history>>

Ends == {"a", "b"}
Peer(e) == IF e = "a" THEN "b" ELSE "a"
Nothing == [x \in {} |-> NULL]
Without(f, S) == Restrict(f, DOMAIN f \ S)
With(f, k, x) == [y \in DOMAIN f \cup {k} |-> IF y = k THEN x ELSE f[y]]
Event == events < MaxEvents /\ events' = events + 1

-----------------------------------------------------------------------------
(* Messages and WebSockets                                                 *)

Msg(fn, orig, dest, npdu) == [fn |-> fn, orig |-> orig, dest |-> dest, npdu |-> npdu]
Plain(fn) == Msg(fn, NULL, NULL, 0)
EOF == Plain("eof")

(* The record of a connection after end e has sent something.  Into a cut  *)
(* link it is lost, and TCP gives up in the end.                           *)
Put(r, e, m) ==
  IF r.cut THEN [r EXCEPT !.in[e] = <<EOF>>]
  ELSE IF r.st[Peer(e)] = "IDLE" THEN r
  ELSE [r EXCEPT !.in[Peer(e)] = Append(@, m)]

Taken(r, e) == [r EXCEPT !.in[e] = SubSeq(@, 2, Len(@))]

(* _close_transport at end e                                               *)
Shut(r, e) ==
  LET s == [r EXCEPT !.st[e] = "IDLE", !.in[e] = <<>>] IN
  IF r.cut \/ r.st[e] = "IDLE" THEN s ELSE Put(s, e, EOF)

(* Connections that neither end has any more are forgotten.                *)
InUse(cs) == {c \in DOMAIN cs : \E e \in Ends : cs[c].st[e] # "IDLE"}
Store(cs) == conns' = Restrict(cs, InUse(cs))
Keep(c, r) == Store([conns EXCEPT ![c] = r])

Heads(c, e, fn) == conns[c].in[e] # <<>> /\ Head(conns[c].in[e]).fn = fn
Owner(r, e) == IF e = "a" THEN r.from ELSE r.to
Connected(c, e) == c \in DOMAIN conns /\ conns[c].st[e] = "CONNECTED"

(* SCWebSocket.connect and SCConnection.initiate up to the Connect-Request *)
Dial(c, n, to, dest) ==
  conns' = With(conns, c,
                [from |-> n, to |-> to, vmac |-> vmac[n], dest |-> dest, peer |-> NULL,
                 cut |-> FALSE,
                 st |-> [a |-> "AWAITING_ACCEPT", b |-> "AWAITING_REQUEST"],
                 in |-> [a |-> <<>>, b |-> <<Plain("request")>>]])

(* An identifier is not used again while a connect loop still holds the    *)
(* connection it stood for.                                                *)
Free == Ids \ (DOMAIN conns \cup {connector[n].conn : n \in Nodes})

-----------------------------------------------------------------------------
(* SCConnection._go_idle and what on_disconnected does for each owner      *)

(* Mutant: the entry goes whichever connection it holds.                   *)
node_disconnected_any(h, r, c) == Without(table[h], {r.vmac})

(* SCHubFunction._on_node_disconnected: the table                          *)
node_disconnected(h, r, c) ==
  IF r.vmac \in DOMAIN table[h] /\ table[h][r.vmac] = c
  THEN Without(table[h], {r.vmac}) ELSE table[h]

(* ... and the map of UUIDs, where only the VMAC is compared               *)
uuid_removed(h, r) ==
  IF r.from \in DOMAIN uuids[h] /\ uuids[h][r.from] = r.vmac
  THEN Without(uuids[h], {r.from}) ELSE uuids[h]

(* SCNodeSwitch._on_direct_disconnected                                    *)
direct_disconnected(n, v, c) ==
  IF v \in DOMAIN direct[n] /\ direct[n][v] = c THEN Without(direct[n], {v}) ELSE direct[n]

(* Mutant: the callbacks are cleared before on_disconnected is called.     *)
on_disc_cleared(n, c) == connector[n]

(* SCHubConnector._run_until_disconnected: on_disc sets the event.         *)
on_disc(n, c) ==
  IF connector[n].at = "connected" /\ connector[n].conn = c
  THEN [connector[n] EXCEPT !.woken = TRUE] ELSE connector[n]

(* End e of c, which was connected, closes; r is the record before that.   *)
go_idle(c, e, r) ==
  LET o == Owner(r, e) IN
  /\ Keep(c, Shut(r, e))
  /\ IF o \in Hubs
     THEN /\ table' = [table EXCEPT ![o] = node_disconnected(o, r, c)]
          /\ uuids' = [uuids EXCEPT ![o] = uuid_removed(o, r)]
          /\ pending' = [pending EXCEPT ![o] = @ \ {r.vmac}]
          /\ lapsed' = IF r.vmac \in pending[o] THEN lapsed \cup {o} ELSE lapsed
     ELSE UNCHANGED hubVars
  /\ IF o \in Nodes /\ r.to \in Nodes
     THEN direct' = [direct EXCEPT ![o] = direct_disconnected(o, IF e = "a" THEN r.peer
                                                                 ELSE r.vmac, c)]
     ELSE UNCHANGED direct
  /\ IF e = "a" /\ r.to \in Hubs
     THEN connector' = [connector EXCEPT ![o] = on_disc(o, c)]
     ELSE UNCHANGED connector
  /\ UNCHANGED <<running, vmac, asked, sent, got, events>>

-----------------------------------------------------------------------------
(* SCHubFunction                                                           *)

(* _check_vmac.  Reservations are dropped after 30 s, which none lasts.    *)
check_vmac(h, v, u) ==
  /\ v \in DOMAIN table[h] => conns[table[h][v]].from = u
  /\ v \notin pending[h]
  /\ Cardinality(pending[h]) < MaxConnections

(* The entries that a connection of u under VMAC v ends                    *)
Evicts(h, u, v) ==
  IF u \in DOMAIN uuids[h] THEN ({uuids[h][u]} \ {v}) \cap DOMAIN table[h] ELSE {}

(* SCConnection.disconnect, of a connection that is evicted                *)
Leaving(r) == [Put(r, "b", Plain("disconnect")) EXCEPT !.st.b = "DISCONNECTING"]

(* The Connect-Accept is sent; _on_node_connected                          *)
node_connected(h, c, r) ==
  LET old == Evicts(h, r.from, r.vmac)
      cs == [conns EXCEPT ![c] = [Put(r, "b", Plain("accept")) EXCEPT !.st.b = "CONNECTED"]]
      gone == {table[h][v] : v \in old}
  IN
  /\ Store([d \in DOMAIN cs |-> IF d \in gone THEN Leaving(cs[d]) ELSE cs[d]])
  /\ table' = [table EXCEPT ![h] = With(Without(@, old), r.vmac, c)]
  /\ uuids' = [uuids EXCEPT ![h] = With(@, r.from, r.vmac)]
  /\ pending' = [pending EXCEPT ![h] = @ \ {r.vmac}]
  /\ UNCHANGED <<running, vmac, lapsed, nodeVars, history>>

(* accept, at a hub: the request is read, the VMAC checked and the answer  *)
(* sent.  Sending suspends the task only when the transport is closing,    *)
(* because the node has closed: then the VMAC stays reserved meanwhile.    *)
accept_request(c) ==
  LET r == Taken(conns[c], "b")
      h == r.to
  IN
  /\ h \in Hubs /\ r.st.b = "AWAITING_REQUEST" /\ Heads(c, "b", "request")
  /\ \/ /\ check_vmac(h, r.vmac, r.from)
        /\ r.st.a # "IDLE" \/ r.cut
        /\ node_connected(h, c, r)
     \/ /\ check_vmac(h, r.vmac, r.from)
        /\ r.st.a = "IDLE" /\ ~r.cut
        /\ Keep(c, [r EXCEPT !.st.b = "REPLYING"])
        /\ pending' = [pending EXCEPT ![h] = @ \cup {r.vmac}]
        /\ UNCHANGED <<running, vmac, table, uuids, lapsed, nodeVars, history>>
     \/ /\ ~check_vmac(h, r.vmac, r.from)
        /\ Keep(c, Shut(Put(r, "b", Plain("nak")), "b"))
        /\ UNCHANGED <<running, vmac, hubVars, nodeVars, history>>

accept_replied(c) ==
  /\ conns[c].st.b = "REPLYING"
  /\ node_connected(conns[c].to, c, conns[c])

Reserved(h, v) == pending[h] \ {v}

(* The send raises: the task ends, and _accept_with_cleanup gives the VMAC *)
(* back.                                                                   *)
accept_failed(c) ==
  LET r == conns[c] IN
  /\ r.st.b = "REPLYING"
  /\ Keep(c, [r EXCEPT !.st.b = "IDLE"])
  /\ pending' = [pending EXCEPT ![r.to] = Reserved(r.to, r.vmac)]
  /\ UNCHANGED <<running, vmac, table, uuids, lapsed, nodeVars, history>>

(* accept, at a node switch: there is no check.  _on_inbound_connected     *)
accept_direct(c) ==
  LET r == Taken(conns[c], "b") IN
  /\ r.to \in Nodes /\ r.st.b = "AWAITING_REQUEST" /\ Heads(c, "b", "request")
  /\ Keep(c, [Put(r, "b", Msg("accept", vmac[r.to], NULL, 0)) EXCEPT !.st.b = "CONNECTED"])
  /\ direct' = [direct EXCEPT ![r.to] = With(@, r.vmac, c)]
  /\ UNCHANGED <<running, vmac, hubVars, connector, asked, history>>

(* accept ends without a request: nothing was entered yet.                 *)
accept_abandoned(c) ==
  LET r == conns[c] IN
  /\ r.st.b = "AWAITING_REQUEST"
  /\ \/ Heads(c, "b", "eof")
     \/ (Prompt => r.cut) /\ ~Heads(c, "b", "request")
     \/ ~Prompt
  /\ Keep(c, Shut(r, "b"))
  /\ UNCHANGED <<running, vmac, hubVars, nodeVars, history>>

(* _rewrite_for_hub_unicast and _rewrite_for_hub_broadcast: the originating*)
(* VMAC is that of the connection; a unicast loses its destination.        *)
rewrite_for_hub(m, v) == [m EXCEPT !.orig = v, !.dest = IF @ = ALL THEN ALL ELSE NULL]

(* Mutant: a broadcast goes back to where it came from.                    *)
forwarded_to_all(h, v, dest) ==
  {table[h][w] : w \in {x \in DOMAIN table[h] :
                          Connected(table[h][x], "b") /\ (dest # ALL => x = dest)}}

(* _unicast and _broadcast: the connections a message goes to              *)
forwarded_to(h, v, dest) ==
  {table[h][w] : w \in {x \in DOMAIN table[h] :
                          /\ Connected(table[h][x], "b")
                          /\ IF dest = ALL THEN x # v ELSE x = dest}}

(* _on_node_message.  (A message with another originating VMAC than that   *)
(* of its connection would be dropped.)                                    *)
node_message(c) ==
  LET r == Taken(conns[c], "b")
      h == r.to
      m == Head(conns[c].in.b)
      out == rewrite_for_hub(m, r.vmac)
      cs == [conns EXCEPT ![c] = r]
      to == forwarded_to(h, r.vmac, m.dest)
  IN
  /\ h \in Hubs /\ r.st.b = "CONNECTED"
  /\ \E fn \in {"npdu", "resolve", "resolved", "result"} : Heads(c, "b", fn)
  /\ Store(IF m.orig \in {NULL, r.vmac}
           THEN [d \in DOMAIN cs |-> IF d \in to THEN Put(cs[d], "b", out) ELSE cs[d]]
           ELSE cs)
  /\ UNCHANGED <<running, vmac, hubVars, nodeVars, history>>

-----------------------------------------------------------------------------
(* SCConnection, at either end: the receive loop                           *)

(* A Disconnect-Request is acknowledged; a lost connection just ends.      *)
receive_end(c, e) ==
  LET r == Taken(conns[c], e) IN
  /\ conns[c].st[e] = "CONNECTED"
  /\ \/ Heads(c, e, "disconnect") /\ go_idle(c, e, Put(r, e, Plain("ack")))
     \/ Heads(c, e, "eof") /\ go_idle(c, e, r)

(* Mutant: the accepting end sends them.                                   *)
HeartbeatByAcceptor == "b"
HeartbeatEnd == "a"

(* _heartbeat_loop: nothing was received for heartbeat_timeout, which is   *)
(* longer than a message is on its way and a handshake takes.              *)
heartbeat(c) ==
  LET r == conns[c] IN
  /\ r.st[HeartbeatEnd] = "CONNECTED" /\ r.in.a = <<>> /\ r.in.b = <<>>
  /\ r.cut \/ /\ \A d \in DOMAIN conns, e \in Ends : conns[d].in[e] = <<>>
              /\ \A n \in Nodes : connector[n].at \notin {"trying", "waiting"}
  /\ Keep(c, Put(r, HeartbeatEnd, Plain("heartbeat")))
  /\ UNCHANGED <<running, vmac, hubVars, nodeVars, history>>

receive_heartbeat(c, e) ==
  /\ conns[c].st[e] = "CONNECTED"
  /\ \/ Heads(c, e, "heartbeat") /\ Keep(c, Put(Taken(conns[c], e), e, Plain("hback")))
     \/ Heads(c, e, "hback") /\ Keep(c, Taken(conns[c], e))
  /\ UNCHANGED <<running, vmac, hubVars, nodeVars, history>>

(* disconnect: whatever is read next ends it, or the timeout; but the loss *)
(* of the connection is an exception that disconnect does not expect.      *)
disconnected(c) ==
  LET r == conns[c] IN
  /\ r.st.b = "DISCONNECTING"
  /\ \/ r.in.b # <<>> /\ ~Heads(c, "b", "eof") /\ go_idle(c, "b", Taken(r, "b"))
     \/ r.in.b = <<>> /\ (Prompt => r.cut) /\ go_idle(c, "b", r)
     \/ /\ Heads(c, "b", "eof")
        /\ Keep(c, [r EXCEPT !.st.b = "IDLE", !.in.b = <<>>])
        /\ UNCHANGED <<running, vmac, hubVars, nodeVars, history>>

-----------------------------------------------------------------------------
(* SCHubConnector                                                          *)

Trying(i, d) ==
  [at |-> "trying", uri |-> i, conn |-> NULL, delay |-> d, woken |-> FALSE]
Down == [Trying(1, MinDelay) EXCEPT !.at = "down"]
Asleep(d) == [Trying(1, d) EXCEPT !.at = "asleep"]
Failed == [Trying(1, MinDelay) EXCEPT !.at = "failed"]

(* Mutant: the failover hub is not tried.                                  *)
primary_only(k) == Asleep(k.delay)

(* _connect_loop after an attempt that failed: the failover hub, or a pause*)
next_uri(k) == IF k.uri < Len(URIs) THEN Trying(k.uri + 1, k.delay) ELSE Asleep(k.delay)

(* _try_connect; a hub that is full closes before the WebSocket exists     *)
try_connect(n) ==
  LET k == connector[n]
      h == URIs[k.uri]
  IN
  /\ k.at = "trying"
  /\ IF h \in running /\ Cardinality(DOMAIN table[h]) < MaxConnections
     THEN \E c \in Free :
            /\ \A d \in Free : c <= d
            /\ Dial(c, n, h, NULL)
            /\ connector' = [connector EXCEPT ![n] = [k EXCEPT !.at = "waiting", !.conn = c]]
     ELSE /\ connector' = [connector EXCEPT ![n] = next_uri(k)]
          /\ UNCHANGED conns
  /\ UNCHANGED <<running, vmac, hubVars, direct, asked, history>>

(* initiate: the hub accepts, and the backoff starts anew.                 *)
connect_accepted(c) ==
  LET r == conns[c] IN
  /\ r.to \in Hubs /\ r.st.a = "AWAITING_ACCEPT" /\ Heads(c, "a", "accept")
  /\ Keep(c, [Taken(r, "a") EXCEPT !.st.a = "CONNECTED"])
  /\ connector' = [connector EXCEPT ![r.from] =
                     [@ EXCEPT !.at = "connected", !.delay = MinDelay]]
  /\ UNCHANGED <<running, vmac, hubVars, direct, asked, history>>

(* initiate: the VMAC is refused, or nothing comes.                        *)
connect_refused(c) ==
  LET r == conns[c] IN
  /\ r.st.a = "AWAITING_ACCEPT"
  /\ Heads(c, "a", "nak") \/ (Prompt => r.cut /\ r.in.a = <<>>)
  /\ Keep(c, Shut(r, "a"))
  /\ connector' = IF r.to \in Hubs
                  THEN [connector EXCEPT ![r.from] = next_uri(@)] ELSE connector
  /\ UNCHANGED <<running, vmac, hubVars, direct, asked, history>>

(* initiate: the other end closes.  ConnectionClosed of the websockets     *)
(* library is neither an OSError nor a ConnectionError: it ends the task of*)
(* _connect_loop, and leaves the connection to the garbage collector.      *)
connect_closed(c) ==
  LET r == conns[c] IN
  /\ r.st.a = "AWAITING_ACCEPT" /\ Heads(c, "a", "eof")
  /\ Keep(c, [r EXCEPT !.st.a = "IDLE", !.in.a = <<>>])
  /\ connector' = IF r.to \in Hubs THEN [connector EXCEPT ![r.from] = Failed] ELSE connector
  /\ UNCHANGED <<running, vmac, hubVars, direct, asked, history>>

(* _run_until_disconnected returns: the next attempt is made at once.      *)
run_until_disconnected(n) ==
  /\ connector[n].at = "connected" /\ connector[n].woken
  /\ connector' = [connector EXCEPT ![n] = Trying(1, @.delay)]
  /\ UNCHANGED <<running, vmac, conns, hubVars, direct, asked, history>>

Longer(d) == IF 2 * d < MaxDelay THEN 2 * d ELSE MaxDelay

(* asyncio.sleep and _increase_backoff                                     *)
increase_backoff(n) ==
  /\ connector[n].at = "asleep"
  /\ connector' = [connector EXCEPT ![n] = Trying(1, Longer(@.delay))]
  /\ UNCHANGED <<running, vmac, conns, hubVars, direct, asked, history>>

(* is_connected                                                            *)
is_connected(n) == connector[n].at = "connected" /\ Connected(connector[n].conn, "a")

-----------------------------------------------------------------------------
(* SCNodeSwitch                                                            *)

(* resolve_address, of a caller that is the first                          *)
resolve_address(n, v) ==
  /\ Event /\ n \in Switches /\ v \notin DOMAIN asked[n] /\ v # vmac[n]
  /\ is_connected(n) /\ Cardinality(DOMAIN asked[n]) < MaxConnections
  /\ asked' = [asked EXCEPT ![n] = With(@, v, "open")]
  /\ LET c == connector[n].conn
     IN Keep(c, Put(conns[c], "a", Msg("resolve", vmac[n], v, 0)))
  /\ UNCHANGED <<running, vmac, hubVars, connector, direct, sent, got>>

Underway(fn) == \E c \in DOMAIN conns, e \in Ends :
                  \E i \in DOMAIN conns[c].in[e] : conns[c].in[e][i].fn = fn

(* The timeout cancels the future.                                         *)
resolution_timeout(n, v) ==
  /\ v \in DOMAIN asked[n] /\ asked[n][v] = "open"
  /\ Prompt => ~Underway("resolve") /\ ~Underway("resolved")
  /\ asked' = [asked EXCEPT ![n][v] = "cancelled"]
  /\ UNCHANGED <<running, vmac, conns, hubVars, connector, direct, history>>

(* The first caller wakes up: with the list, or with an empty one.         *)
resolution_ends(n, v) ==
  /\ v \in DOMAIN asked[n] /\ asked[n][v] # "open"
  /\ asked' = [asked EXCEPT ![n] = Without(@, {v})]
  /\ UNCHANGED <<running, vmac, conns, hubVars, connector, direct, history>>

(* establish_direct, with the URI of m for the VMAC v                      *)
establish_direct(n, m, v) ==
  /\ Event /\ {n, m} \subseteq Switches \cap running /\ n # m
  /\ \A o \in {n, m} : Cardinality(DOMAIN direct[o]) < MaxConnections
  /\ \E c \in Free : (\A d \in Free : c <= d) /\ Dial(c, n, m, v)
  /\ UNCHANGED <<running, vmac, hubVars, connector, direct, asked, sent, got>>

ExpectedPeer(r, v) == r.dest = v

(* The accept arrives: the peer's VMAC has to be the one that was meant.   *)
direct_accepted(c) ==
  LET r == Taken(conns[c], "a")
      v == Head(conns[c].in.a).orig
  IN
  /\ r.to \in Nodes /\ r.st.a = "AWAITING_ACCEPT" /\ Heads(c, "a", "accept")
  /\ IF ExpectedPeer(r, v)
     THEN /\ Keep(c, [r EXCEPT !.st.a = "CONNECTED", !.peer = v])
          /\ direct' = [direct EXCEPT ![r.from] = With(@, r.dest, c)]
     ELSE /\ Keep(c, Shut(r, "a"))
          /\ UNCHANGED direct
  /\ UNCHANGED <<running, vmac, hubVars, connector, asked, history>>

-----------------------------------------------------------------------------
(* SCTransport                                                             *)

(* The end of its direct connection to v that n has                        *)
DirectEnd(n, v) == IF conns[direct[n][v]].from = n THEN "a" ELSE "b"

has_direct(n, v) ==
  v \in DOMAIN direct[n] /\ Connected(direct[n][v], DirectEnd(n, v))

Sending(n, v) ==
  /\ Len(sent) < MaxNPDUs /\ Event
  /\ sent' = Append(sent, [from |-> n, vmac |-> vmac[n], dest |-> v])
  /\ UNCHANGED <<running, vmac, hubVars, nodeVars, got>>

ViaHub(n, v) ==
  LET c == connector[n].conn IN
  /\ is_connected(n)
  /\ Keep(c, Put(conns[c], "a", Msg("npdu", vmac[n], v, Len(sent) + 1)))

ViaDirect(n, v) ==
  LET c == direct[n][v]
      e == DirectEnd(n, v)
  IN Keep(c, Put(conns[c], e, Msg("npdu", NULL, NULL, Len(sent) + 1)))

(* send_unicast and _send_direct_or_hub: sending raises when the transport *)
(* is closing, because the peer has closed.  Without a hub the NPDU is     *)
(* dropped.                                                                *)
send_unicast(n, v) ==
  /\ v # vmac[n]
  /\ IF has_direct(n, v)
     THEN \/ ViaDirect(n, v)
          \/ Heads(direct[n][v], DirectEnd(n, v), "eof") /\ ViaHub(n, v)
     ELSE ViaHub(n, v)
  /\ Sending(n, v)

send_broadcast(n) == ViaHub(n, ALL) /\ Sending(n, ALL)

Deliver(n, m, src) ==
  got' = got (+) SetToBag({[to |-> n, at |-> vmac[n], npdu |-> m.npdu, src |-> src]})

(* _on_hub_message: NPDUs go to the network layer.                         *)
hub_npdu(c) ==
  LET m == Head(conns[c].in.a) IN
  /\ conns[c].to \in Hubs /\ Connected(c, "a") /\ Heads(c, "a", "npdu")
  /\ Deliver(conns[c].from, m, m.orig)
  /\ Keep(c, Taken(conns[c], "a"))
  /\ UNCHANGED <<running, vmac, hubVars, nodeVars, sent, events>>

(* _handle_address_resolution: an acknowledgement with an empty list, or a *)
(* negative result if there is no node switch                              *)
hub_resolve(c) ==
  LET m == Head(conns[c].in.a)
      n == conns[c].from
  IN
  /\ conns[c].to \in Hubs /\ Connected(c, "a") /\ Heads(c, "a", "resolve")
  /\ Keep(c, Put(Taken(conns[c], "a"), "a",
                 Msg(IF n \in Switches THEN "resolved" ELSE "result", vmac[n], m.orig, 0)))
  /\ UNCHANGED <<running, vmac, hubVars, nodeVars, history>>

(* handle_address_resolution_ack, and a result that nobody looks at        *)
hub_resolved(c) ==
  LET m == Head(conns[c].in.a)
      n == conns[c].from
  IN
  /\ conns[c].to \in Hubs /\ Connected(c, "a")
  /\ \E fn \in {"resolved", "result"} : Heads(c, "a", fn)
  /\ asked' = IF m.fn = "resolved" /\ m.orig \in DOMAIN asked[n] /\ asked[n][m.orig] = "open"
              THEN [asked EXCEPT ![n][m.orig] = "set"] ELSE asked
  /\ Keep(c, Taken(conns[c], "a"))
  /\ UNCHANGED <<running, vmac, hubVars, connector, direct, history>>

(* _on_direct_message: the source is not in the message and is given as    *)
(* six zero octets.                                                        *)
direct_npdu(c, e) ==
  LET m == Head(conns[c].in[e]) IN
  /\ conns[c].to \in Nodes /\ Connected(c, e) /\ Heads(c, e, "npdu")
  /\ Deliver(Owner(conns[c], e), m, m.orig)
  /\ Keep(c, Taken(conns[c], e))
  /\ UNCHANGED <<running, vmac, hubVars, nodeVars, sent, events>>

-----------------------------------------------------------------------------
(* Stops, starts and the network                                           *)

(* The records after all connections of o are closed                       *)
AllShut(o) ==
  [c \in DOMAIN conns |->
     LET r == conns[c] IN
     IF r.from = o THEN Shut(r, "a") ELSE IF r.to = o THEN Shut(r, "b") ELSE r]

(* SCTransport.stop, or the end of the process                             *)
stop_node(n) ==
  /\ Event /\ n \in running
  /\ running' = running \ {n}
  /\ Store(AllShut(n))
  /\ connector' = [connector EXCEPT ![n] = Down]
  /\ direct' = [direct EXCEPT ![n] = Nothing]
  /\ asked' = [asked EXCEPT ![n] = Nothing]
  /\ UNCHANGED <<vmac, hubVars, sent, got>>

(* SCTransport.start: the VMAC is a random one unless it is configured.    *)
start_node(n, v) ==
  /\ n \notin running
  /\ Prompt => ~\E c \in DOMAIN conns :
                  /\ conns[c].from = n /\ conns[c].in.b # <<>>
                  /\ conns[c].st.b \in {"AWAITING_REQUEST", "REPLYING"}
  /\ running' = running \cup {n}
  /\ vmac' = [vmac EXCEPT ![n] = v]
  /\ connector' = [connector EXCEPT ![n] = Trying(1, MinDelay)]
  /\ UNCHANGED <<conns, hubVars, direct, asked, history>>

(* SCHubFunction.stop                                                      *)
stop_hub(h) ==
  /\ Event /\ h \in running
  /\ running' = running \ {h}
  /\ Store(AllShut(h))
  /\ table' = [table EXCEPT ![h] = Nothing]
  /\ uuids' = [uuids EXCEPT ![h] = Nothing]
  /\ pending' = [pending EXCEPT ![h] = {}]
  /\ lapsed' = lapsed \ {h}
  /\ UNCHANGED <<vmac, nodeVars, sent, got>>

start_hub(h) ==
  /\ h \notin running
  /\ running' = running \cup {h}
  /\ UNCHANGED <<vmac, conns, hubVars, nodeVars, history>>

(* A link goes dead; both ends still think they are connected.             *)
Cut(c) ==
  /\ Event /\ ~conns[c].cut
  /\ Keep(c, [conns[c] EXCEPT !.cut = TRUE, !.in = [e \in Ends |-> <<>>]])
  /\ UNCHANGED <<running, vmac, hubVars, nodeVars, sent, got>>

-----------------------------------------------------------------------------

Init ==
  /\ running = Nodes \cup Hubs
  /\ vmac = FirstVMAC
  /\ conns = Nothing
  /\ table = [h \in Hubs |-> Nothing] /\ uuids = [h \in Hubs |-> Nothing]
  /\ pending = [h \in Hubs |-> {}] /\ lapsed = {}
  /\ connector = [n \in Nodes |-> Trying(1, MinDelay)]
  /\ direct = [n \in Nodes |-> Nothing] /\ asked = [n \in Nodes |-> Nothing]
  /\ sent = <<>> /\ got = EmptyBag /\ events = 0

(* What the tasks of connection c do                                       *)
connection_task(c) ==
  \/ accept_request(c) \/ accept_replied(c) \/ accept_failed(c)
  \/ accept_direct(c) \/ accept_abandoned(c)
  \/ connect_accepted(c) \/ connect_refused(c) \/ connect_closed(c) \/ direct_accepted(c)
  \/ node_message(c) \/ hub_npdu(c) \/ hub_resolve(c) \/ hub_resolved(c)
  \/ heartbeat(c) \/ disconnected(c)
  \/ \E e \in Ends : receive_end(c, e) \/ receive_heartbeat(c, e) \/ direct_npdu(c, e)

connect_loop(n) == try_connect(n) \/ run_until_disconnected(n) \/ increase_backoff(n)

Next ==
  \/ \E c \in DOMAIN conns : connection_task(c) \/ Cut(c)
  \/ \E n \in Nodes : connect_loop(n) \/ send_broadcast(n) \/ stop_node(n)
  \/ \E n \in Nodes, v \in VMACs :
       \/ send_unicast(n, v) \/ resolve_address(n, v) \/ start_node(n, v)
       \/ resolution_timeout(n, v) \/ resolution_ends(n, v)
  \/ \E n, m \in Nodes, v \in VMACs : establish_direct(n, m, v)
  \/ \E h \in Hubs : stop_hub(h) \/ start_hub(h)

(* Tasks that can run do, and a hub that stopped is started again.         *)
Fairness ==
  /\ \A c \in Ids : WF_vars(c \in DOMAIN conns /\ connection_task(c))
  /\ \A n \in Nodes : WF_vars(connect_loop(n))
  /\ \A h \in Hubs : WF_vars(start_hub(h))

Spec == Init /\ [][Next]_vars
FairSpec == Spec /\ Fairness

-----------------------------------------------------------------------------
Ats == {"down", "trying", "waiting", "connected", "asleep", "failed"}
States == {"IDLE", "AWAITING_ACCEPT", "AWAITING_REQUEST", "REPLYING", "CONNECTED", "DISCONNECTING"}

(* Types of all variables.                                                 *)
TypeOK ==
  /\ running \subseteq Nodes \cup Hubs /\ vmac \in [Nodes -> VMACs]
  /\ DOMAIN conns \subseteq Ids
  /\ \A c \in DOMAIN conns : /\ conns[c].from \in Nodes /\ conns[c].to \in Nodes \cup Hubs
                             /\ conns[c].st \in [Ends -> States]
  /\ \A h \in Hubs : /\ table[h] \in [DOMAIN table[h] -> DOMAIN conns]
                     /\ DOMAIN table[h] \subseteq VMACs
                     /\ DOMAIN uuids[h] \subseteq Nodes /\ pending[h] \subseteq VMACs
  /\ \A n \in Nodes : /\ connector[n].at \in Ats /\ connector[n].delay \in MinDelay .. MaxDelay
                      /\ connector[n].uri \in DOMAIN URIs
                      /\ direct[n] \in [DOMAIN direct[n] -> DOMAIN conns]
                      /\ asked[n] \in [DOMAIN asked[n] -> {"open", "set", "cancelled"}]

(* A VMAC stays reserved only while a handshake with it goes on: a failed  *)
(* one locks nobody out (_pending_vmacs of the hub function).              *)
ReservationsOwned ==
  \A h \in Hubs : \A v \in pending[h] :
    \E c \in DOMAIN conns : conns[c].to = h /\ conns[c].st.b = "REPLYING" /\ conns[c].vmac = v

(* The map from UUIDs leads to a connection of that device, through all    *)
(* reconnections, evictions and late ends of old connections; else the     *)
(* next reconnection would evict another device (_uuid_map).  A hub that   *)
(* gave a reservation back too early may have registered a VMAC twice.     *)
UuidsCurrent ==
  \A h \in Hubs \ lapsed : \A u \in DOMAIN uuids[h] :
    LET v == uuids[h][u] IN
    v \in DOMAIN table[h] /\ Connected(table[h][v], "b") /\ conns[table[h][v]].from = u

(* A node that is connected to a hub, as both see it, is in the hub's table*)
(* and hears its broadcasts; its old connection, which may end later, does *)
(* not take it out (the identity test of _on_node_disconnected).  A request*)
(* that comes later than the connection that followed it would.            *)
Reachable ==
  Prompt => \A c \in DOMAIN conns :
    (conns[c].to \in Hubs \ lapsed /\ ~conns[c].cut /\ Connected(c, "a") /\ Connected(c, "b"))
      => LET h == conns[c].to IN
         conns[c].vmac \in DOMAIN table[h] /\ table[h][conns[c].vmac] = c

(* The connect loop waits only for a connection that lives, or whose end it*)
(* was told: it is never left asleep on a dead one (on_disconnected and the*)
(* event of _run_until_disconnected).                                      *)
WaitsForLive ==
  \A n \in Nodes : connector[n].at = "connected" => is_connected(n) \/ connector[n].woken

(* A direct connection leads to the node that has the VMAC it is entered   *)
(* under (establish_direct compares the VMAC of the Connect-Accept).       *)
DirectCurrent ==
  \A n \in Nodes : \A v \in DOMAIN direct[n] :
    LET r == conns[direct[n][v]] IN
    /\ has_direct(n, v)
    /\ IF DirectEnd(n, v) = "a" THEN r.peer = v ELSE r.vmac = v
    /\ r.st[Peer(DirectEnd(n, v))] # "IDLE" =>
         vmac[IF DirectEnd(n, v) = "a" THEN r.to ELSE r.from] = v

(* An NPDU reaches a network layer at most once, only where it was sent to *)
(* and not its sender, and (by the hub) under the VMAC of its sender,      *)
(* whatever connections were replaced or evicted meanwhile.                *)
DeliveredAsAddressed ==
  \A g \in BagToSet(got) :
    LET s == sent[g.npdu] IN
    /\ got[g] = 1
    /\ \A f \in BagToSet(got) : f.to = g.to /\ f.npdu = g.npdu => f = g
    /\ IF s.dest = ALL THEN g.at # s.vmac ELSE g.at = s.dest
    /\ g.src \in {NULL, s.vmac}

(* A link that is dead is noticed by the node that dialled it: heartbeats  *)
(* are sent into it until TCP gives up (_heartbeat_loop).                  *)
DeadLinkNoticed ==
  \A n \in Nodes : []<>~(is_connected(n) /\ conns[connector[n].conn].cut)

(* A hub would take n: its VMAC is free and there is room.                 *)
Admits(h, n) ==
  /\ h \in running /\ Cardinality(DOMAIN table[h]) < MaxConnections
  /\ vmac[n] \in DOMAIN table[h] => conns[table[h][vmac[n]]].from = n

(* As long as its connect loop runs, a node gets a connection again and    *)
(* again, to the primary hub or the failover hub, unless none admits it.   *)
Reconnects ==
  \A n \in Nodes :
    []<>(is_connected(n) \/ connector[n].at \in {"down", "failed"}
         \/ \A i \in DOMAIN URIs : ~Admits(URIs[i], n))

(* ... and its connect loop does not end by itself.                        *)
PersistentConnection ==
  \A n \in Nodes :
    []<>(is_connected(n) \/ connector[n].at = "down"
         \/ \A i \in DOMAIN URIs : ~Admits(URIs[i], n))

(* The tables of a hub follow its connections.                             *)
HubTablesCurrent == TypeOK /\ ReservationsOwned /\ UuidsCurrent /\ Reachable

(* What a node goes by is there: the connection its connect loop waits for,*)
(* and its direct ones.                                                    *)
NodesCurrent == WaitsForLive /\ DirectCurrent
=============================================================================
