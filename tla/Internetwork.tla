----------------------------- MODULE Internetwork -----------------------------
(***************************************************************************)
(* Networks joined by routers: the routing table and the handlers of       *)
(* NetworkRouter (network/router.py) in every router, and the NetworkLayer *)
(* (network/layer.py) with its router cache in every other device.         *)
(*                                                                         *)
(* A port of a router is identified with the network it is attached to,    *)
(* and the numbers of the networks are configured in all routers.  The     *)
(* networks are connected without cycles, as BACnet requires: Toward is    *)
(* the network through which a router reaches another one.                 *)
(*                                                                         *)
(* A transport hands what is broadcast to every other station of the       *)
(* network and discards what comes back to its sender; a BACnet/IP         *)
(* transport also discards confirmed requests that were broadcast          *)
(* (bip.py).  Frames may be overtaken by others and may be lost; equal     *)
(* frames that are on the way at the same time are one.                    *)
(***************************************************************************)
EXTENDS Integers, FiniteSets

CONSTANTS
  Nets, Routers, Devices,
  IPNets,      \* the networks on BACnet/IP; others are Ethernet, IPv6 or SC
  Home,        \* the network of each device
  Ports,       \* the networks of each router
  Toward,      \* for each router and network, the port that leads there
  AppPort,     \* application_port_id of each router, or NULL
  Congested,   \* routers that announce Router-Busy and Router-Available
  Sends,       \* what applications send of themselves: a set of Request(...)
  HopLimit,    \* 255
  MaxStarts,   \* bound: how often each router is started
  MaxFrames,   \* bound: frames on the way when a station sends by itself
  Lossy,       \* networks on which frames may be lost
  Forgetful,   \* devices that live longer than their cache entries
  Global,      \* DNET 0xFFFF
  NULL

Stations == Devices \cup Routers

ASSUME TopologyAssumption ==
  /\ Home \in [Devices -> Nets]
  /\ Ports \in [Routers -> SUBSET Nets]
  /\ Toward \in [Routers -> [Nets -> Nets]]
  /\ Devices \cap Routers = {}
  /\ AppPort \in [Routers -> Nets \cup {NULL}]
  /\ \A r \in Routers : AppPort[r] \in Ports[r] \cup {NULL}
  /\ \A s \in Sends : s.from \in Stations
  /\ HopLimit \in Nat \ {0}
  /\ NULL \notin Nets \cup Stations /\ Global \notin Nets \cup {NULL}
  /\ NULL \notin Nets \X Stations

(* There are no cycles: of two routers on a network at most one leads away *)
(* from it to a given network.                                             *)
ASSUME TreeAssumption ==
  /\ \A r \in Routers, n \in Nets :
        Toward[r][n] \in Ports[r] /\ (n \in Ports[r] => Toward[r][n] = n)
  /\ \A r, s \in Routers, n \in Nets :
        \A l \in Ports[r] \cap Ports[s] :
           r # s /\ Toward[r][n] # l => Toward[s][n] = l

VARIABLES
  up,          \* routers that are running
  starts,      \* how often each was started
  table,       \* the routing table of each router
  cache,       \* the router cache of each device
  number,      \* the network number each device has learned
  frames,      \* frames on the way
  todo,        \* what applications have yet to send
  received     \* history: APDUs handed to applications

vars == <<up, starts, table, cache, number, frames, todo, received>>

On(l) == {d \in Devices : Home[d] = l} \cup {r \in Routers : l \in Ports[r]}

-----------------------------------------------------------------------------
(* NPDUs and frames.  The hop count is only encoded beside a destination;  *)
(* decode_npdu gives the others the default.                               *)

(* APDUs: a confirmed or unconfirmed request, and the reply to request q   *)
(* that came from src.  An address is a pair of a network, NULL if local,  *)
(* and a station.                                                          *)
Request(from, dnet, dadr, confirmed) ==
  [from |-> from, dnet |-> dnet, dadr |-> dadr, confirmed |-> confirmed, re |-> NULL]

Reply(x, src, q) ==
  [from |-> x, dnet |-> src[1], dadr |-> src[2], confirmed |-> FALSE, re |-> q]

NPDU(type, dnet, dadr, src, hops, body) ==
  [type |-> type, dnet |-> dnet, dadr |-> dadr, src |-> src,
   hops |-> IF dnet = NULL THEN HopLimit ELSE hops, body |-> body]

Local(type, body) == NPDU(type, NULL, NULL, NULL, HopLimit, body)

Frame(l, from, to, npdu) == [lan |-> l, from |-> from, to |-> to, npdu |-> npdu]

(* _is_confirmed_request_npdu                                              *)
IsConfirmedRequest(npdu) == npdu.type = "APDU" /\ npdu.body.confirmed

(* The stations whose transport takes up what another one broadcasts.      *)
Hearers(l, from, npdu) ==
  IF l \in IPNets /\ IsConfirmedRequest(npdu) THEN {} ELSE On(l) \ {from}

Broadcast(l, from, npdu) == {Frame(l, from, s, npdu) : s \in Hearers(l, from, npdu)}

Unicast(l, from, to, npdu) == {Frame(l, from, s, npdu) : s \in (On(l) \ {from}) \cap {to}}

BroadcastExcept(r, l, npdu) == UNION {Broadcast(p, r, npdu) : p \in Ports[r] \ {l}}

-----------------------------------------------------------------------------
(* RoutingTable                                                            *)

Entry(port, next) == [port |-> port, next |-> next, reach |-> "REACHABLE", timer |-> FALSE]

update_route(t, nets, port, next) ==
  [n \in DOMAIN t \cup nets |-> IF n \in nets THEN Entry(port, next) ELSE t[n]]

Marked(t, nets, reach, timer) ==
  [n \in DOMAIN t |->
     IF n \in nets THEN [t[n] EXCEPT !.reach = reach, !.timer = timer] ELSE t[n]]

(* A mutant of mark_busy, called without the callback of the timer.        *)
mark_busy_for_good(t, nets) == Marked(t, nets, "BUSY", FALSE)

mark_busy(t, nets) == Marked(t, nets, "BUSY", TRUE)

mark_available(t, nets) == Marked(t, nets, "REACHABLE", FALSE)

mark_unreachable(t, nets) == Marked(t, nets, "UNREACHABLE", FALSE)

(* A mutant of get_reachable_networks that ignores exclude_port.           *)
get_all_reachable_networks(t, l, include_busy) ==
  {n \in DOMAIN t : t[n].reach = "REACHABLE" \/ (t[n].reach = "BUSY" /\ include_busy)}

get_reachable_networks(t, l, include_busy) ==
  {n \in DOMAIN t :
     /\ t[n].port # l
     /\ t[n].reach = "REACHABLE" \/ (t[n].reach = "BUSY" /\ include_busy)}

(* The routing table of a router that has just been set up: add_port for   *)
(* each of its ports.                                                      *)
DirectRoutes(r) == [n \in Ports[r] |-> Entry(n, NULL)]

-----------------------------------------------------------------------------
(* Forwarding: each operator gives the frames router r, whose routing      *)
(* table is t, sends when frame f arrives.                                 *)

(* A mutant of Source that names the previous hop instead of the origin.   *)
SourceOfLastHop(f) == <<f.lan, f.from>>

Source(f) == IF f.npdu.src = NULL THEN <<f.lan, f.from>> ELSE f.npdu.src

Exhausted(npdu) == npdu.hops - 1 <= 0

prepare_forwarded_npdu(f) ==
  NPDU(f.npdu.type, f.npdu.dnet, f.npdu.dadr, Source(f), f.npdu.hops - 1, f.npdu.body)

send_reject(r, f, reason, dnet) ==
  Unicast(f.lan, r, f.from, Local("Reject", [net |-> dnet, reason |-> reason]))

send_reject_toward_source(r, t, f, reason, dnet) ==
  IF f.npdu.src = NULL \/ f.npdu.src[1] \notin DOMAIN t
    THEN send_reject(r, f, reason, dnet)
    ELSE LET e == t[f.npdu.src[1]]
             npdu == NPDU("Reject", f.npdu.src[1], f.npdu.src[2], NULL, HopLimit,
                          [net |-> dnet, reason |-> reason])
         IN Unicast(e.port, r, IF e.next # NULL THEN e.next ELSE f.npdu.src[2], npdu)

deliver_to_directly_connected(r, f, port) ==
  LET npdu == NPDU(f.npdu.type, NULL, NULL, Source(f), HopLimit, f.npdu.body)
  IN IF f.npdu.dadr = NULL THEN Broadcast(port, r, npdu)
                           ELSE Unicast(port, r, f.npdu.dadr, npdu)

forward_via_next_hop(r, f, e) ==
  IF Exhausted(f.npdu) THEN {} ELSE Unicast(e.port, r, e.next, prepare_forwarded_npdu(f))

forward_to_network(r, t, f) ==
  LET n == f.npdu.dnet
  IN IF n \notin DOMAIN t \/ t[n].reach = "UNREACHABLE"
       THEN send_reject_toward_source(r, t, f, "NOT_DIRECTLY_CONNECTED", n)
     ELSE IF t[n].reach = "BUSY"
       THEN send_reject_toward_source(r, t, f, "ROUTER_BUSY", n)
     ELSE IF t[n].next = NULL
       THEN deliver_to_directly_connected(r, f, t[n].port)
       ELSE forward_via_next_hop(r, f, t[n])

forward_global_broadcast(r, f) ==
  IF Exhausted(f.npdu) THEN {} ELSE BroadcastExcept(r, f.lan, prepare_forwarded_npdu(f))

Forward(r, t, f) ==
  IF f.npdu.dnet = NULL THEN {}
  ELSE IF f.npdu.dnet = Global THEN forward_global_broadcast(r, f)
  ELSE forward_to_network(r, t, f)

-----------------------------------------------------------------------------
(* What a router does with a frame.                                        *)

Put(f, new) == frames' = (frames \ {f}) \cup new

(* An APDU is handed to the application of station x as coming from src.   *)
(* A confirmed request is answered to that address.                        *)
Deliver(x, apdu, src) ==
  /\ received' = received \cup {[at |-> x, apdu |-> apdu, src |-> src]}
  /\ todo' = IF apdu.confirmed
               THEN todo \cup {Reply(x, src, apdu)} ELSE todo

(* _process_npdu for an APDU                                               *)
process_apdu(r, f) ==
  /\ f.npdu.type = "APDU"
  /\ IF f.npdu.dnet \in {NULL, Global} /\ AppPort[r] # NULL
       THEN Deliver(r, f.npdu.body, Source(f)) ELSE UNCHANGED <<received, todo>>
  /\ Put(f, Forward(r, table[r], f))
  /\ UNCHANGED table

handle_who_is_router(r, f) ==
  LET n == f.npdu.body
      known == get_reachable_networks(table[r], f.lan, TRUE)
  IN /\ f.npdu.type = "WhoIs"
     /\ Put(f, IF n = NULL
                 THEN IF known = {} THEN {} ELSE Broadcast(f.lan, r, Local("IAm", known))
               ELSE IF n \in DOMAIN table[r]
                 THEN IF table[r][n].port # f.lan
                        THEN Broadcast(f.lan, r, Local("IAm", {n})) ELSE {}
               ELSE IF Exhausted(f.npdu) THEN {}
                 ELSE BroadcastExcept(r, f.lan, prepare_forwarded_npdu(f)))
     /\ UNCHANGED <<table, received, todo>>

handle_i_am_router(r, f) ==
  /\ f.npdu.type = "IAm"
  /\ table' = [table EXCEPT ![r] = update_route(@, f.npdu.body, f.lan, f.from)]
  /\ Put(f, BroadcastExcept(r, f.lan, Local("IAm", f.npdu.body)))
  /\ UNCHANGED <<received, todo>>

handle_reject_message(r, f) ==
  LET b == f.npdu.body
  IN /\ f.npdu.type = "Reject"
     /\ table' = [table EXCEPT ![r] =
          IF b.reason = "ROUTER_BUSY" THEN mark_busy(@, {b.net})
                                      ELSE mark_unreachable(@, {b.net})]
     /\ Put(f, Forward(r, table'[r], f))
     /\ UNCHANGED <<received, todo>>

(* The networks meant by Router-Busy: if none is listed, all that are      *)
(* reached through the sender.                                             *)
handle_router_busy(r, f) ==
  LET served == {n \in DOMAIN table[r] : table[r][n].port = f.lan /\ table[r][n].next = f.from}
  IN /\ f.npdu.type = "Busy"
     /\ table' = [table EXCEPT ![r] =
          mark_busy(@, IF f.npdu.body = {} THEN served ELSE f.npdu.body)]
     /\ Put(f, BroadcastExcept(r, f.lan, Local("Busy", f.npdu.body)))
     /\ UNCHANGED <<received, todo>>

handle_router_available(r, f) ==
  LET busy == {n \in DOMAIN table[r] : table[r][n].reach = "BUSY" /\ table[r][n].port = f.lan}
  IN /\ f.npdu.type = "Available"
     /\ table' = [table EXCEPT ![r] =
          mark_available(@, IF f.npdu.body = {} THEN busy ELSE f.npdu.body)]
     /\ Put(f, BroadcastExcept(r, f.lan, Local("Available", f.npdu.body)))
     /\ UNCHANGED <<received, todo>>

(* Network-Number-Is: the port's number is configured.                     *)
ignore_network_number_is(r, f) ==
  /\ f.npdu.type = "NumberIs"
  /\ Put(f, {})
  /\ UNCHANGED <<table, received, todo>>

router_receives(r, f) ==
  /\ f.to = r
  /\ \/ /\ r \in up
        /\ \/ process_apdu(r, f)
           \/ handle_who_is_router(r, f)
           \/ handle_i_am_router(r, f)
           \/ handle_reject_message(r, f)
           \/ handle_router_busy(r, f)
           \/ handle_router_available(r, f)
           \/ ignore_network_number_is(r, f)
     \/ /\ r \notin up
        /\ Put(f, {})
        /\ UNCHANGED <<table, received, todo>>
  /\ UNCHANGED <<up, starts, cache, number>>

(* The congestion timer of 30 seconds                                      *)
busy_timeout(r, n) ==
  /\ r \in up /\ n \in DOMAIN table[r] /\ table[r][n].timer
  /\ table' = [table EXCEPT ![r] = mark_available(@, {n})]
  /\ UNCHANGED <<up, starts, cache, number, frames, todo, received>>

(* start of a BACnetApplication in router mode: a new NetworkRouter, which *)
(* announces on each port the number of the network and the networks that  *)
(* are behind its other ports.                                             *)
start(r) ==
  LET t == DirectRoutes(r)
      announced(l) == get_reachable_networks(t, l, FALSE)
  IN /\ r \notin up /\ starts[r] < MaxStarts[r] /\ Cardinality(frames) < MaxFrames
     /\ up' = up \cup {r}
     /\ starts' = [starts EXCEPT ![r] = @ + 1]
     /\ table' = [table EXCEPT ![r] = t]
     /\ frames' = frames \cup UNION {
          Broadcast(l, r, Local("NumberIs", l)) \cup
          (IF announced(l) = {} THEN {} ELSE Broadcast(l, r, Local("IAm", announced(l))))
          : l \in Ports[r]}
     /\ UNCHANGED <<cache, number, todo, received>>

(* stop cancels the timers of the routing table.                           *)
stop(r) ==
  /\ r \in up /\ starts[r] < MaxStarts[r]
  /\ up' = up \ {r}
  /\ table' = [table EXCEPT ![r] = [n \in DOMAIN @ |-> [@[n] EXCEPT !.timer = FALSE]]]
  /\ UNCHANGED <<starts, cache, number, frames, todo, received>>

(* A router of another make is congested, or no longer so.                 *)
announce_congestion(r, l, type) ==
  /\ r \in Congested \cap up /\ l \in Ports[r]
  /\ Cardinality(frames) < MaxFrames
  /\ frames' = frames \cup Broadcast(l, r, Local(type, {}))
  /\ UNCHANGED <<up, starts, table, cache, number, todo, received>>

(* The client TSM sends a confirmed request again until it is answered or  *)
(* given up, here any number of times.                                     *)
Unsent(s) == IF s.confirmed THEN todo ELSE todo \ {s}

(* send of a router's own application                                      *)
router_send(s) ==
  LET r == s.from
      src == <<AppPort[r], r>>
      npdu == NPDU("APDU", s.dnet, s.dadr, src, HopLimit, s)
  IN /\ r \in up /\ AppPort[r] # NULL
     /\ s \in todo /\ todo' = Unsent(s) /\ Cardinality(frames) < MaxFrames
     /\ frames' = frames \cup
          IF s.dnet = NULL
            THEN IF s.dadr = NULL THEN Broadcast(AppPort[r], r, Local("APDU", s))
                                  ELSE Unicast(AppPort[r], r, s.dadr, Local("APDU", s))
          ELSE IF s.dnet = Global THEN UNION {Broadcast(p, r, npdu) : p \in Ports[r]}
          ELSE IF s.dnet \notin DOMAIN table[r] THEN {}
          ELSE LET e == table[r][s.dnet]
               IN IF e.next # NULL THEN Unicast(e.port, r, e.next, npdu)
                  ELSE IF s.dadr = NULL THEN Broadcast(e.port, r, npdu)
                  ELSE Unicast(e.port, r, s.dadr, npdu)
     /\ UNCHANGED <<up, starts, table, cache, number, received>>

-----------------------------------------------------------------------------
(* NetworkLayer: devices that are not routers                              *)

(* Without a router in the cache the NPDU is broadcast, with a question    *)
(* for the router.                                                         *)
send_remote(d, dnet, npdu) ==
  IF dnet \in DOMAIN cache[d]
    THEN Unicast(Home[d], d, cache[d][dnet], npdu)
    ELSE Broadcast(Home[d], d, npdu) \cup Broadcast(Home[d], d, Local("WhoIs", dnet))

device_send(s) ==
  LET d == s.from
      npdu == NPDU("APDU", s.dnet, s.dadr, NULL, HopLimit, s)
  IN /\ d \in Devices
     /\ s \in todo /\ todo' = Unsent(s) /\ Cardinality(frames) < MaxFrames
     /\ frames' = frames \cup
          IF s.dnet = Global \/ (s.dnet = NULL /\ s.dadr = NULL) THEN Broadcast(Home[d], d, npdu)
          ELSE IF s.dnet = NULL THEN Unicast(Home[d], d, s.dadr, npdu)
          ELSE send_remote(d, s.dnet, npdu)
     /\ UNCHANGED <<up, starts, table, cache, number, received>>

Cached(c, nets, router) ==
  [n \in DOMAIN c \cup nets |-> IF n \in nets THEN router ELSE c[n]]

(* A mutant of learn_router_from_source that caches the origin instead.    *)
learn_origin_from_source(c, f) ==
  IF f.npdu.src = NULL \/ f.npdu.src[1] \in DOMAIN c THEN c
  ELSE Cached(c, {f.npdu.src[1]}, f.npdu.src[2])

(* The station that passed on an APDU from a remote network is a router    *)
(* for it, unless one is cached.                                           *)
learn_router_from_source(c, f) ==
  IF f.npdu.src = NULL \/ f.npdu.src[1] \in DOMAIN c THEN c
  ELSE Cached(c, {f.npdu.src[1]}, f.from)

(* An APDU is handed up whatever its destination.                          *)
receive_apdu(d, f) ==
  /\ f.npdu.type = "APDU"
  /\ Deliver(d, f.npdu.body, IF f.npdu.src = NULL THEN <<NULL, f.from>> ELSE f.npdu.src)
  /\ cache' = [cache EXCEPT ![d] = learn_router_from_source(@, f)]
  /\ UNCHANGED number

learn_router(d, f) ==
  /\ f.npdu.type = "IAm"
  /\ cache' = [cache EXCEPT ![d] = Cached(@, f.npdu.body, f.from)]
  /\ UNCHANGED <<number, received, todo>>

learn_network_number(d, f) ==
  /\ f.npdu.type = "NumberIs"
  /\ number' = IF f.npdu.src = NULL /\ f.npdu.dnet = NULL
                 THEN [number EXCEPT ![d] = f.npdu.body] ELSE number
  /\ UNCHANGED <<cache, received, todo>>

ignore_network_message(d, f) ==
  /\ f.npdu.type \in {"WhoIs", "Reject", "Busy", "Available"}
  /\ UNCHANGED <<cache, number, received, todo>>

device_receives(d, f) ==
  /\ f.to = d
  /\ \/ receive_apdu(d, f) \/ learn_router(d, f)
     \/ learn_network_number(d, f) \/ ignore_network_message(d, f)
  /\ Put(f, {})
  /\ UNCHANGED <<up, starts, table>>

(* An entry exceeds the cache TTL.                                         *)
cache_expires(d, n) ==
  /\ d \in Forgetful /\ n \in DOMAIN cache[d]
  /\ cache' = [cache EXCEPT ![d] = [x \in DOMAIN @ \ {n} |-> @[x]]]
  /\ UNCHANGED <<up, starts, table, number, frames, todo, received>>

lose(f) ==
  /\ f.lan \in Lossy
  /\ Put(f, {})
  /\ UNCHANGED <<up, starts, table, cache, number, todo, received>>

-----------------------------------------------------------------------------
Init ==
  /\ up = {} /\ starts = [r \in Routers |-> 0]
  /\ table = [r \in Routers |-> DirectRoutes(r)]
  /\ cache = [d \in Devices |-> << >>]
  /\ number = [d \in Devices |-> NULL]
  /\ frames = {} /\ todo = Sends /\ received = {}

Arrival(f) ==
  \/ \E r \in Routers : router_receives(r, f)
  \/ \E d \in Devices : device_receives(d, f)

Next ==
  \/ \E r \in Routers :
        \/ start(r) \/ stop(r)
        \/ \E n \in Nets : busy_timeout(r, n)
        \/ \E l \in Nets, type \in {"Busy", "Available"} : announce_congestion(r, l, type)
  \/ \E s \in todo : device_send(s) \/ router_send(s)
  \/ \E f \in frames : Arrival(f) \/ lose(f)
  \/ \E d \in Devices, n \in Nets : cache_expires(d, n)

Spec == Init /\ [][Next]_vars

-----------------------------------------------------------------------------
(* Properties.                                                             *)

Entries == [port : Nets, next : Routers \cup {NULL},
            reach : {"REACHABLE", "BUSY", "UNREACHABLE"}, timer : BOOLEAN]

(* Types: tables are keyed by networks, what is on the way is addressed to *)
(* another station of its network, and no hop count leaves 1 .. HopLimit.  *)
TypeOK ==
  /\ up \subseteq Routers
  /\ \A r \in Routers :
        DOMAIN table[r] \subseteq Nets /\ \A n \in DOMAIN table[r] : table[r][n] \in Entries
  /\ \A d \in Devices : DOMAIN cache[d] \subseteq Nets
  /\ \A f \in frames : f.to \in On(f.lan) \ {f.from} /\ f.npdu.hops \in 1 .. HopLimit

(* Entry e of router r leads to network n: to the port of a network that   *)
(* is directly connected, and else to a router that goes on from there.    *)
Leads(r, n, e) ==
  /\ e.port = Toward[r][n]
  /\ e.next = NULL <=> n \in Ports[r]
  /\ e.next # NULL => e.port \in Ports[e.next] /\ Toward[e.next][n] # e.port

(* Every entry of every routing table leads to its network.  Announcements *)
(* that were overtaken, repeated by other routers or sent before a restart *)
(* never turn a route round, and never replace that of a directly          *)
(* connected network (_handle_i_am_router takes over what it is told).     *)
RoutesPointHome == \A r \in Routers : \A n \in DOMAIN table[r] : Leads(r, n, table[r][n])

(* What a device caches as the router for a remote network, from an        *)
(* announcement or from the source of an APDU, is a router of its LAN that *)
(* leads away from the LAN to that network.                                *)
CachedRouterLeadsThere ==
  \A d \in Devices : \A n \in DOMAIN cache[d] \ {Home[d]} :
    LET r == cache[d][n]
    IN r \in Routers /\ Home[d] \in Ports[r] /\ Toward[r][n] # Home[d]

(* A congested network does not stay so for good: in a running router an   *)
(* entry is BUSY as long as the timer runs that makes it REACHABLE again.  *)
BusyHasTimer ==
  \A r \in up : \A n \in DOMAIN table[r] : table[r][n].timer <=> table[r][n].reach = "BUSY"

(* The network a device takes its LAN to be is the one it is on.           *)
NumberIsHome == \A d \in Devices : number[d] \in {NULL, Home[d]}

(* The network of a station's application                                  *)
HomeOf(x) == IF x \in Devices THEN Home[x] ELSE AppPort[x]

(* The source an application is given with an APDU is the address of the   *)
(* station that sent it, through however many routers it came: the reply   *)
(* goes there, and the requester matches the reply by it.                  *)
SourceIsOrigin ==
  \A m \in received :
    LET x == m.apdu.from
    IN \/ m.src = <<HomeOf(x), x>>
       \/ m.src = <<NULL, x>> /\ m.at \in On(HomeOf(x))

(* What is on the way and what the devices have learned of the network is  *)
(* true of it.                                                             *)
LearnedIsTrue == TypeOK /\ CachedRouterLeadsThere /\ NumberIsHome

-----------------------------------------------------------------------------
(* What LearnedIsTrue needs of an installation.  The application of a      *)
(* router broadcasts on a network next door with the network still named   *)
(* as the destination (NetworkRouter.send), so that another router there   *)
(* repeats the broadcast as coming from itself, and devices would take it  *)
(* for the way to the source.                                              *)
NotNextDoor(s) ==
  s.from \in Routers /\ s.dadr = NULL => s.dnet \notin Ports[s.from] \ {AppPort[s.from]}

NoBroadcastNextDoor == \A s \in Sends : NotNextDoor(s)
=============================================================================
