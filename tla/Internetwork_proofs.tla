-------------------------- MODULE Internetwork_proofs --------------------------
(***************************************************************************)
(* Routing is sound on every internetwork without cycles, for any number   *)
(* of networks, routers and devices, whatever is lost, overtaken, or       *)
(* forgotten in a restart.                                                 *)
(*                                                                         *)
(* RoutesPointHome is not inductive: it needs that an announcement on the  *)
(* way was sent onto a network its sender does not itself use to reach     *)
(* what it announces, and SourceIsOrigin needs the like of APDUs.          *)
(* LearnedIsTrue, proved last, needs besides that a frame from another     *)
(* network comes by a router that leads there (LInv).                      *)
(***************************************************************************)
EXTENDS Internetwork, TLAPS

(* What a frame on the way carries is true.                                *)
Addressed(f) == f.to \in On(f.lan) /\ f.to # f.from

Announces(f) ==
  f.npdu.type = "IAm" =>
    /\ f.from \in Routers /\ f.lan \in Ports[f.from]
    /\ f.npdu.body \subseteq Nets
    /\ \A n \in f.npdu.body : Toward[f.from][n] # f.lan

Carries(f) ==
  f.npdu.type = "APDU" =>
    LET x == f.npdu.body.from
    IN /\ x \in Stations /\ HomeOf(x) \in Nets
       /\ f.lan \in Nets
       /\ IF f.npdu.src = NULL THEN f.from = x /\ f.lan = HomeOf(x)
                               ELSE f.npdu.src = <<HomeOf(x), x>>

Sound(f) == Addressed(f) /\ Announces(f) /\ Carries(f)

(* A table whose entries are typed and lead to their networks, and one     *)
(* whose timers run for the congested networks                             *)
Routes(r, t) ==
  /\ DOMAIN t \subseteq Nets
  /\ \A n \in DOMAIN t : t[n] \in Entries /\ Leads(r, n, t[n])

Timed(t) == \A n \in DOMAIN t : t[n].timer <=> t[n].reach = "BUSY"

(* The inductive invariant                                                 *)
TablesOK ==
  /\ DOMAIN table = Routers /\ up \subseteq Routers
  /\ \A r \in Routers : Routes(r, table[r]) /\ (r \in up => Timed(table[r]))

FramesOK == \A f \in frames : Sound(f)

SendersOK == \A s \in todo : s.from \in Stations

IInv == TablesOK /\ FramesOK /\ SendersOK /\ SourceIsOrigin

-----------------------------------------------------------------------------
(* What is sent                                                            *)

LEMMA BroadcastFrames ==
  ASSUME NEW l, NEW x, NEW npdu, NEW f \in Broadcast(l, x, npdu)
  PROVE  f.lan = l /\ f.from = x /\ f.npdu = npdu /\ Addressed(f)
BY DEF Broadcast, Hearers, Frame, Addressed

LEMMA UnicastFrames ==
  ASSUME NEW l, NEW x, NEW y, NEW npdu, NEW f \in Unicast(l, x, y, npdu)
  PROVE  f.lan = l /\ f.from = x /\ f.npdu = npdu /\ Addressed(f)
BY DEF Unicast, Frame, Addressed

LEMMA NPDUFields ==
  ASSUME NEW type, NEW dnet, NEW dadr, NEW src, NEW hops, NEW body
  PROVE  /\ NPDU(type, dnet, dadr, src, hops, body).type = type
         /\ NPDU(type, dnet, dadr, src, hops, body).src = src
         /\ NPDU(type, dnet, dadr, src, hops, body).body = body
BY DEF NPDU

(* A router that forwards passes on what it got or sends a rejection, on   *)
(* one of its ports.                                                       *)
LEMMA ForwardFrames ==
  ASSUME NEW r \in Routers, NEW t, NEW f, NEW g \in Forward(r, t, f),
         f.lan \in Ports[r], \A n \in DOMAIN t : t[n].port \in Ports[r]
  PROVE  /\ Addressed(g) /\ g.lan \in Ports[r]
         /\ \/ g.npdu.type = "Reject"
            \/ /\ g.npdu.type = f.npdu.type /\ g.npdu.body = f.npdu.body
               /\ g.npdu.src = Source(f)
<1> DEFINE npdu == f.npdu  n == f.npdu.dnet
           Rejected == Addressed(g) /\ g.lan \in Ports[r] /\ g.npdu.type = "Reject"
           Passed == /\ Addressed(g) /\ g.lan \in Ports[r]
                     /\ g.npdu.type = f.npdu.type /\ g.npdu.body = f.npdu.body
                     /\ g.npdu.src = Source(f)
<1>1. ASSUME NEW reason, g \in send_reject(r, f, reason, n)
      PROVE  Rejected
  BY <1>1, UnicastFrames, NPDUFields DEF send_reject, Local
<1>2. ASSUME NEW reason, g \in send_reject_toward_source(r, t, f, reason, n)
      PROVE  Rejected
  <2>1. CASE f.npdu.src = NULL \/ f.npdu.src[1] \notin DOMAIN t
    BY <1>1, <1>2, <2>1 DEF send_reject_toward_source
  <2>2. CASE ~(f.npdu.src = NULL \/ f.npdu.src[1] \notin DOMAIN t)
    BY <1>2, <2>2, UnicastFrames, NPDUFields DEF send_reject_toward_source
  <2> QED BY <2>1, <2>2
<1>3. ASSUME NEW port \in Ports[r], g \in deliver_to_directly_connected(r, f, port)
      PROVE  Passed
  BY <1>3, BroadcastFrames, UnicastFrames, NPDUFields DEF deliver_to_directly_connected
<1>4. ASSUME NEW e, e.port \in Ports[r], g \in forward_via_next_hop(r, f, e)
      PROVE  Passed
  BY <1>4, UnicastFrames, NPDUFields DEF forward_via_next_hop, prepare_forwarded_npdu
<1>5. ASSUME g \in forward_global_broadcast(r, f)
      PROVE  Passed
  <2>1. g \in BroadcastExcept(r, f.lan, prepare_forwarded_npdu(f))
    BY <1>5 DEF forward_global_broadcast
  <2>2. PICK p \in Ports[r] : g \in Broadcast(p, r, prepare_forwarded_npdu(f))
    BY <2>1 DEF BroadcastExcept
  <2> QED BY <2>2, BroadcastFrames, NPDUFields DEF prepare_forwarded_npdu
<1>6. ASSUME g \in forward_to_network(r, t, f)
      PROVE  Rejected \/ Passed
  <2>1. CASE n \notin DOMAIN t \/ t[n].reach = "UNREACHABLE"
    BY <1>2, <1>6, <2>1 DEF forward_to_network
  <2>2. CASE n \in DOMAIN t /\ t[n].reach # "UNREACHABLE" /\ t[n].reach = "BUSY"
    BY <1>2, <1>6, <2>2 DEF forward_to_network
  <2>3. CASE n \in DOMAIN t /\ t[n].reach \notin {"UNREACHABLE", "BUSY"}
    BY <1>3, <1>4, <1>6, <2>3 DEF forward_to_network
  <2> QED BY <2>1, <2>2, <2>3
<1> QED BY <1>5, <1>6 DEF Forward

-----------------------------------------------------------------------------
(* What routing tables become                                              *)

LEMMA MarkedRoutes ==
  ASSUME NEW r \in Routers, NEW t, NEW nets, Routes(r, t),
         NEW reach \in {"REACHABLE", "BUSY", "UNREACHABLE"}, NEW timer \in BOOLEAN
  PROVE  /\ Routes(r, Marked(t, nets, reach, timer))
         /\ Timed(t) /\ (timer <=> reach = "BUSY") => Timed(Marked(t, nets, reach, timer))
<1> DEFINE u == Marked(t, nets, reach, timer)
<1>1. /\ DOMAIN u = DOMAIN t
      /\ \A n \in DOMAIN t :
           u[n] = IF n \in nets THEN [t[n] EXCEPT !.reach = reach, !.timer = timer] ELSE t[n]
  BY DEF Marked
<1> HIDE DEF u
<1>2. ASSUME NEW n \in DOMAIN t
      PROVE  u[n] \in Entries /\ u[n].port = t[n].port /\ u[n].next = t[n].next
  BY <1>1, <1>2 DEF Routes, Entries
<1>3. Routes(r, u)
  BY <1>1, <1>2 DEF Routes, Leads
<1>4. ASSUME Timed(t), timer <=> reach = "BUSY"
      PROVE  Timed(u)
  <2> SUFFICES ASSUME NEW n \in DOMAIN t PROVE u[n].timer <=> u[n].reach = "BUSY"
    BY <1>1 DEF Timed
  <2>1. t[n] \in Entries /\ (t[n].timer <=> t[n].reach = "BUSY")
    BY <1>4 DEF Timed, Routes
  <2>2. CASE n \in nets
    <3>1. u[n] = [t[n] EXCEPT !.reach = reach, !.timer = timer]
      BY <1>1, <2>2
    <3>2. u[n].timer = timer /\ u[n].reach = reach
      BY <3>1, <2>1 DEF Entries
    <3> QED BY <3>2, <1>4
  <2>3. CASE n \notin nets
    BY <1>1, <2>1, <2>3
  <2> QED BY <2>2, <2>3
<1> QED BY <1>3, <1>4 DEF u

LEMMA DirectRoutesLead ==
  ASSUME NEW r \in Routers
  PROVE  Routes(r, DirectRoutes(r)) /\ Timed(DirectRoutes(r))
BY TopologyAssumption, TreeAssumption
   DEF Routes, Timed, DirectRoutes, Entry, Entries, Leads

(* An announcement that reaches a router comes from the side on which the  *)
(* announced networks are.                                                 *)
LEMMA AnnouncementHeard ==
  ASSUME NEW r \in Routers, NEW f, Sound(f), f.npdu.type = "IAm", f.to = r
  PROVE  /\ f.from \in Routers /\ f.lan \in Ports[f.from] /\ f.lan \in Ports[r]
         /\ f.npdu.body \subseteq Nets
         /\ \A n \in f.npdu.body :
              Toward[f.from][n] # f.lan /\ Toward[r][n] = f.lan /\ n \notin Ports[r]
<1>1. f.from \in Routers /\ f.lan \in Ports[f.from] /\ f.lan \in Ports[r] /\ r # f.from
  BY TopologyAssumption DEF Sound, Announces, Addressed, On
<1>2. f.npdu.body \subseteq Nets /\ \A n \in f.npdu.body : Toward[f.from][n] # f.lan
  BY DEF Sound, Announces
<1>3. ASSUME NEW n \in f.npdu.body
      PROVE  Toward[r][n] = f.lan /\ n \notin Ports[r]
  <2>1. Toward[r][n] = f.lan
    BY <1>1, <1>2, TreeAssumption
  <2>2. f.lan # n
    BY <1>1, <1>2, TreeAssumption
  <2> QED BY <1>2, <2>1, <2>2, TreeAssumption
<1> QED BY <1>1, <1>2, <1>3

LEMMA LearnedRoutes ==
  ASSUME NEW r \in Routers, NEW f, Sound(f), f.npdu.type = "IAm", f.to = r,
         NEW t, Routes(r, t)
  PROVE  /\ Routes(r, update_route(t, f.npdu.body, f.lan, f.from))
         /\ Timed(t) => Timed(update_route(t, f.npdu.body, f.lan, f.from))
<1>1. \A n \in f.npdu.body : Leads(r, n, Entry(f.lan, f.from)) /\ Entry(f.lan, f.from) \in Entries
  BY AnnouncementHeard, TopologyAssumption DEF Leads, Entry, Entries, Stations
<1>2. f.npdu.body \subseteq Nets
  BY AnnouncementHeard
<1> QED BY <1>1, <1>2 DEF Routes, Timed, update_route, Entry

-----------------------------------------------------------------------------
(* What stations send is sound.                                            *)

LEMMA ArrivesOnPort ==
  ASSUME NEW r \in Routers, NEW f, Sound(f), f.to = r
  PROVE  f.lan \in Ports[r] /\ f.lan \in Nets
BY TopologyAssumption DEF Sound, Addressed, On

(* Source restores the address of the station that sent an APDU.           *)
LEMMA SourceFound ==
  ASSUME NEW f, Sound(f), f.npdu.type = "APDU"
  PROVE  /\ f.npdu.body.from \in Stations /\ HomeOf(f.npdu.body.from) \in Nets
         /\ Source(f) = <<HomeOf(f.npdu.body.from), f.npdu.body.from>>
         /\ Source(f) # NULL
<1>1. /\ f.npdu.body.from \in Stations /\ HomeOf(f.npdu.body.from) \in Nets
      /\ Source(f) = <<HomeOf(f.npdu.body.from), f.npdu.body.from>>
  BY DEF Sound, Carries, Source
<1>2. Source(f) \in Nets \X Stations
  BY <1>1
<1> QED BY <1>1, <1>2, TopologyAssumption

LEMMA PassedOn ==
  ASSUME NEW r \in Routers, NEW f, Sound(f), f.to = r, f.npdu.type # "IAm",
         NEW t, Routes(r, t), NEW g \in Forward(r, t, f)
  PROVE  Sound(g)
<1>1. f.lan \in Ports[r]
  BY ArrivesOnPort
<1>2. \A n \in DOMAIN t : t[n].port \in Ports[r]
  BY TreeAssumption DEF Routes, Leads
<1>3. /\ Addressed(g) /\ g.lan \in Ports[r]
      /\ \/ g.npdu.type = "Reject"
         \/ /\ g.npdu.type = f.npdu.type /\ g.npdu.body = f.npdu.body
            /\ g.npdu.src = Source(f)
  BY <1>1, <1>2, ForwardFrames
<1>4. g.lan \in Nets
  BY <1>3, TopologyAssumption
<1>5. CASE g.npdu.type = "Reject"
  BY <1>3, <1>5 DEF Sound, Announces, Carries
<1>6. CASE g.npdu.type = f.npdu.type /\ g.npdu.body = f.npdu.body /\ g.npdu.src = Source(f)
  BY <1>3, <1>4, <1>6, SourceFound DEF Sound, Announces, Carries
<1> QED BY <1>3, <1>5, <1>6

(* Messages other than APDUs and announcements carry nothing to be wrong.  *)
LEMMA OtherMessages ==
  ASSUME NEW type, type \notin {"IAm", "APDU"}, NEW l, NEW x,
         NEW dnet, NEW dadr, NEW src, NEW hops, NEW body,
         NEW f \in Broadcast(l, x, NPDU(type, dnet, dadr, src, hops, body))
  PROVE  Sound(f)
BY BroadcastFrames, NPDUFields DEF Sound, Announces, Carries

LEMMA Announcements ==
  ASSUME NEW r \in Routers, NEW l \in Ports[r], NEW nets \in SUBSET Nets,
         \A n \in nets : Toward[r][n] # l,
         NEW f \in Broadcast(l, r, Local("IAm", nets))
  PROVE  Sound(f)
BY BroadcastFrames, NPDUFields DEF Sound, Announces, Carries, Local

LEMMA KnownElsewhere ==
  ASSUME NEW r \in Routers, NEW t, Routes(r, t), NEW l, NEW busy
  PROVE  /\ get_reachable_networks(t, l, busy) \subseteq Nets
         /\ \A n \in get_reachable_networks(t, l, busy) : Toward[r][n] # l
BY DEF Routes, Leads, get_reachable_networks

(* APDUs as they leave the station that sends them                         *)
LEMMA Sent ==
  ASSUME NEW s, s.from \in Stations, HomeOf(s.from) \in Nets,
         NEW l \in Nets, NEW src, NEW dnet, NEW dadr, NEW hops, NEW f,
         f.lan = l, f.from = s.from, f.npdu = NPDU("APDU", dnet, dadr, src, hops, s), Addressed(f),
         IF src = NULL THEN l = HomeOf(s.from) ELSE src = <<HomeOf(s.from), s.from>>
  PROVE  Sound(f)
BY NPDUFields DEF Sound, Announces, Carries

-----------------------------------------------------------------------------
(* The invariant is inductive.                                             *)

LEMMA TableStep ==
  ASSUME TablesOK, NEW r \in Routers, NEW t, Routes(r, t), r \in up' => Timed(t),
         table' = [table EXCEPT ![r] = t],
         up' \subseteq up \cup {r}
  PROVE  TablesOK'
BY DEF TablesOK

LEMMA FrameStep ==
  ASSUME FramesOK, NEW new, frames' \subseteq frames \cup new, \A g \in new : Sound(g)
  PROVE  FramesOK'
BY DEF FramesOK

LEMMA DeliverStep ==
  ASSUME SendersOK, SourceIsOrigin, NEW x \in Stations, NEW apdu, NEW src,
         Deliver(x, apdu, src),
         \/ src = <<HomeOf(apdu.from), apdu.from>>
         \/ src = <<NULL, apdu.from>> /\ x \in On(HomeOf(apdu.from))
  PROVE  SendersOK' /\ SourceIsOrigin'
<1>1. SendersOK'
  BY DEF SendersOK, Deliver, Reply
<1>2. SourceIsOrigin'
  <2> SUFFICES ASSUME NEW m \in received'
               PROVE  \/ m.src = <<HomeOf(m.apdu.from), m.apdu.from>>
                      \/ m.src = <<NULL, m.apdu.from>> /\ m.at \in On(HomeOf(m.apdu.from))
    BY DEF SourceIsOrigin
  <2>1. CASE m \in received
    BY <2>1 DEF SourceIsOrigin
  <2>2. CASE m = [at |-> x, apdu |-> apdu, src |-> src]
    BY <2>2
  <2> QED BY <2>1, <2>2 DEF Deliver
<1> QED BY <1>1, <1>2

LEMMA InitIInv == Init => IInv
<1> SUFFICES ASSUME Init PROVE IInv
  OBVIOUS
<1>1. TablesOK
  BY DirectRoutesLead DEF Init, TablesOK
<1>2. FramesOK /\ SourceIsOrigin
  BY DEF Init, FramesOK, SourceIsOrigin
<1>3. SendersOK
  BY TopologyAssumption DEF Init, SendersOK
<1> QED BY <1>1, <1>2, <1>3 DEF IInv

LEMMA RouterReceives ==
  ASSUME IInv, NEW r \in Routers, NEW f \in frames, router_receives(r, f)
  PROVE  IInv'
<1> DEFINE t == table[r]
<1>1. Sound(f) /\ f.to = r /\ f.lan \in Ports[r]
  BY ArrivesOnPort DEF IInv, FramesOK, router_receives
<1>2. Routes(r, t) /\ (r \in up => Timed(t)) /\ up' = up
  BY DEF IInv, TablesOK, router_receives
<1>3. CASE process_apdu(r, f)
  <2>1. \A g \in Forward(r, t, f) : Sound(g)
    BY <1>1, <1>2, <1>3, PassedOn DEF process_apdu
  <2>2. FramesOK'
    BY <1>3, <2>1, FrameStep DEF process_apdu, Put, IInv
  <2>3. TablesOK'
    BY <1>2, <1>3 DEF process_apdu, IInv, TablesOK
  <2>4. SendersOK' /\ SourceIsOrigin'
    <3>1. CASE f.npdu.dnet \in {NULL, Global} /\ AppPort[r] # NULL
      BY <1>1, <1>3, <3>1, SourceFound, DeliverStep DEF process_apdu, IInv, Stations
    <3>2. CASE ~(f.npdu.dnet \in {NULL, Global} /\ AppPort[r] # NULL)
      BY <1>3, <3>2 DEF process_apdu, IInv, SendersOK, SourceIsOrigin
    <3> QED BY <3>1, <3>2
  <2> QED BY <2>2, <2>3, <2>4 DEF IInv
<1>4. ASSUME UNCHANGED <<received, todo>>
      PROVE  SendersOK' /\ SourceIsOrigin'
  BY <1>4 DEF IInv, SendersOK, SourceIsOrigin
<1>5. CASE handle_who_is_router(r, f)
  <2> DEFINE n == f.npdu.body  known == get_reachable_networks(t, f.lan, TRUE)
  <2>1. \A g \in Broadcast(f.lan, r, Local("IAm", known)) : Sound(g)
    BY <1>1, <1>2, KnownElsewhere, Announcements
  <2>2. ASSUME n \in DOMAIN t, t[n].port # f.lan
        PROVE  \A g \in Broadcast(f.lan, r, Local("IAm", {n})) : Sound(g)
    <3>1. n \in Nets /\ Toward[r][n] # f.lan
      BY <1>2, <2>2 DEF Routes, Leads
    <3> QED BY <3>1, <1>1, Announcements
  <2>3. \A g \in BroadcastExcept(r, f.lan, prepare_forwarded_npdu(f)) : Sound(g)
    <3>1. f.npdu.type \notin {"IAm", "APDU"}
      BY <1>5 DEF handle_who_is_router
    <3> QED BY <3>1, OtherMessages DEF BroadcastExcept, prepare_forwarded_npdu
  <2>5. FramesOK'
    <3>1. CASE n = NULL
      <4>1. frames' \subseteq frames \cup Broadcast(f.lan, r, Local("IAm", known))
        BY <1>5, <3>1 DEF handle_who_is_router, Put
      <4> QED BY <2>1, <4>1, FrameStep DEF IInv
    <3>2. CASE n # NULL /\ n \in DOMAIN t /\ t[n].port # f.lan
      <4>1. frames' \subseteq frames \cup Broadcast(f.lan, r, Local("IAm", {n}))
        BY <1>5, <3>2 DEF handle_who_is_router, Put
      <4> QED BY <2>2, <3>2, <4>1, FrameStep DEF IInv
    <3>3. CASE n # NULL /\ n \in DOMAIN t /\ t[n].port = f.lan
      <4>1. frames' \subseteq frames
        BY <1>5, <3>3 DEF handle_who_is_router, Put
      <4> QED BY <4>1 DEF IInv, FramesOK
    <3>4. CASE n # NULL /\ n \notin DOMAIN t
      <4>1. frames' \subseteq frames \cup BroadcastExcept(r, f.lan, prepare_forwarded_npdu(f))
        BY <1>5, <3>4 DEF handle_who_is_router, Put
      <4> QED BY <2>3, <4>1, FrameStep DEF IInv
    <3> QED BY <3>1, <3>2, <3>3, <3>4
  <2>6. TablesOK'
    BY <1>2, <1>5 DEF handle_who_is_router, IInv, TablesOK
  <2> QED BY <1>4, <1>5, <2>5, <2>6 DEF handle_who_is_router, IInv
<1>6. CASE handle_i_am_router(r, f)
  <2> DEFINE u == update_route(t, f.npdu.body, f.lan, f.from)
  <2>1. f.npdu.type = "IAm" /\ table' = [table EXCEPT ![r] = u]
    BY <1>6 DEF handle_i_am_router
  <2>2. Routes(r, u) /\ (r \in up => Timed(u))
    BY <1>1, <1>2, <2>1, LearnedRoutes
  <2>3. TablesOK'
    BY <1>2, <2>1, <2>2, TableStep DEF IInv
  <2>4. \A g \in BroadcastExcept(r, f.lan, Local("IAm", f.npdu.body)) : Sound(g)
    <3> SUFFICES ASSUME NEW p \in Ports[r] \ {f.lan},
                        NEW g \in Broadcast(p, r, Local("IAm", f.npdu.body))
                 PROVE  Sound(g)
      BY DEF BroadcastExcept
    <3>1. f.npdu.body \in SUBSET Nets /\ \A n \in f.npdu.body : Toward[r][n] # p
      BY <1>1, <2>1, AnnouncementHeard
    <3> QED BY <3>1, Announcements
  <2>5. FramesOK'
    BY <1>6, <2>4, FrameStep DEF handle_i_am_router, Put, IInv
  <2> QED BY <1>4, <1>6, <2>3, <2>5 DEF handle_i_am_router, IInv
<1>7. CASE handle_reject_message(r, f)
  <2> DEFINE b == f.npdu.body
             u == IF b.reason = "ROUTER_BUSY" THEN mark_busy(t, {b.net})
                                              ELSE mark_unreachable(t, {b.net})
  <2>1. f.npdu.type = "Reject" /\ table' = [table EXCEPT ![r] = u]
    BY <1>7 DEF handle_reject_message
  <2>2. Routes(r, u) /\ (r \in up => Timed(u))
    BY <1>2, MarkedRoutes DEF mark_busy, mark_unreachable
  <2>3. TablesOK'
    BY <1>2, <2>1, <2>2, TableStep DEF IInv
  <2>4. table'[r] = u
    BY <2>1 DEF IInv, TablesOK
  <2>5. \A g \in Forward(r, u, f) : Sound(g)
    BY <1>1, <2>1, <2>2, PassedOn
  <2>6. FramesOK'
    BY <1>7, <2>4, <2>5, FrameStep DEF handle_reject_message, Put, IInv
  <2> QED BY <1>4, <1>7, <2>3, <2>6 DEF handle_reject_message, IInv
<1>8. ASSUME NEW type, type \notin {"IAm", "APDU"}, NEW body,
             Put(f, BroadcastExcept(r, f.lan, Local(type, body)))
      PROVE  FramesOK'
  <2>1. \A g \in BroadcastExcept(r, f.lan, Local(type, body)) : Sound(g)
    BY <1>8, OtherMessages DEF BroadcastExcept, Local
  <2> QED BY <1>8, <2>1, FrameStep DEF Put, IInv
<1>9. CASE handle_router_busy(r, f)
  <2>1. PICK nets : table' = [table EXCEPT ![r] = mark_busy(t, nets)]
    BY <1>9 DEF handle_router_busy
  <2>2. TablesOK'
    BY <1>2, <2>1, MarkedRoutes, TableStep DEF mark_busy, IInv
  <2> QED BY <1>4, <1>8, <1>9, <2>2 DEF handle_router_busy, IInv
<1>10. CASE handle_router_available(r, f)
  <2>1. PICK nets : table' = [table EXCEPT ![r] = mark_available(t, nets)]
    BY <1>10 DEF handle_router_available
  <2>2. TablesOK'
    BY <1>2, <2>1, MarkedRoutes, TableStep DEF mark_available, IInv
  <2> QED BY <1>4, <1>8, <1>10, <2>2 DEF handle_router_available, IInv
<1>11. CASE Put(f, {}) /\ UNCHANGED <<table, received, todo>>
  <2>1. FramesOK' /\ TablesOK'
    BY <1>2, <1>11 DEF Put, IInv, FramesOK, TablesOK
  <2> QED BY <1>4, <1>11, <2>1 DEF IInv
<1> QED
  BY <1>3, <1>5, <1>6, <1>7, <1>9, <1>10, <1>11
     DEF router_receives, ignore_network_number_is

LEMMA DeviceReceives ==
  ASSUME IInv, NEW d \in Devices, NEW f \in frames, device_receives(d, f)
  PROVE  IInv'
<1>1. Sound(f) /\ f.to = d /\ d \in On(f.lan)
  BY DEF IInv, FramesOK, device_receives, Sound, Addressed
<1>2. TablesOK' /\ FramesOK'
  BY DEF IInv, TablesOK, FramesOK, device_receives, Put
<1>3. SendersOK' /\ SourceIsOrigin'
  <2>1. CASE receive_apdu(d, f)
    <3> DEFINE src == IF f.npdu.src = NULL THEN <<NULL, f.from>> ELSE f.npdu.src
               x == f.npdu.body.from
    <3>1. Deliver(d, f.npdu.body, src) /\ f.npdu.type = "APDU"
      BY <2>1 DEF receive_apdu
    <3>2. \/ src = <<HomeOf(x), x>>
          \/ src = <<NULL, x>> /\ d \in On(HomeOf(x))
      BY <1>1, <3>1 DEF Sound, Carries
    <3> HIDE DEF src
    <3> QED BY <3>1, <3>2, DeliverStep DEF IInv, Stations
  <2>2. CASE UNCHANGED <<received, todo>>
    BY <2>2 DEF IInv, SendersOK, SourceIsOrigin
  <2> QED
    BY <2>1, <2>2 DEF device_receives, learn_router, learn_network_number,
                      ignore_network_message
<1> QED BY <1>2, <1>3 DEF IInv

LEMMA DeviceSends ==
  ASSUME IInv, NEW s \in todo, device_send(s)
  PROVE  IInv'
<1> DEFINE d == s.from
           l == Home[d]
           npdu == NPDU("APDU", s.dnet, s.dadr, NULL, HopLimit, s)
           whois == Local("WhoIs", s.dnet)
<1>1. d \in Devices /\ l \in Nets /\ HomeOf(d) = l /\ d \in Stations
  BY TopologyAssumption DEF device_send, HomeOf, Stations
<1>2. ASSUME NEW g, g.lan = l, g.from = d, g.npdu = npdu, Addressed(g)
      PROVE  Sound(g)
  BY <1>1, <1>2, Sent
<1>3. \A g \in Broadcast(l, d, npdu) : Sound(g)
  BY <1>2, BroadcastFrames
<1>4. \A y : \A g \in Unicast(l, d, y, npdu) : Sound(g)
  BY <1>2, UnicastFrames
<1>5. \A g \in Broadcast(l, d, whois) : Sound(g)
  BY OtherMessages DEF Local
<1>6. \A g \in frames' : g \in frames \/ Sound(g)
  BY <1>3, <1>4, <1>5 DEF device_send, send_remote
<1>7. FramesOK'
  BY <1>6 DEF IInv, FramesOK
<1>8. TablesOK' /\ SendersOK' /\ SourceIsOrigin'
  BY DEF device_send, Unsent, IInv, TablesOK, SendersOK, SourceIsOrigin
<1> QED BY <1>7, <1>8 DEF IInv

LEMMA RouterSends ==
  ASSUME IInv, NEW s \in todo, NEW r \in Routers, s.from = r, router_send(s)
  PROVE  IInv'
<1> DEFINE src == <<AppPort[r], r>>
           npdu == NPDU("APDU", s.dnet, s.dadr, src, HopLimit, s)
           local == Local("APDU", s)
<1>1. /\ AppPort[r] \in Nets /\ HomeOf(r) = AppPort[r] /\ r \in Stations
      /\ src # NULL
  <2>1. AppPort[r] \in Nets /\ HomeOf(r) = AppPort[r] /\ r \in Stations
    BY TopologyAssumption DEF router_send, HomeOf, Stations
  <2>2. src \in Nets \X Stations
    BY <2>1
  <2> QED BY <2>1, <2>2, TopologyAssumption
<1>2. ASSUME NEW g, g.lan \in Nets, g.from = r, g.npdu = npdu, Addressed(g)
      PROVE  Sound(g)
  BY <1>1, <1>2, Sent
<1>3. ASSUME NEW g, g.lan = AppPort[r], g.from = r, g.npdu = local, Addressed(g)
      PROVE  Sound(g)
  BY <1>1, <1>3, Sent DEF Local
<1>4. \A p \in Nets : \A g \in Broadcast(p, r, npdu) : Sound(g)
  BY <1>2, BroadcastFrames
<1>5. \A p \in Nets : \A y : \A g \in Unicast(p, r, y, npdu) : Sound(g)
  BY <1>2, UnicastFrames
<1>6. \A y : \A g \in Broadcast(AppPort[r], r, local) \cup Unicast(AppPort[r], r, y, local) : Sound(g)
  BY <1>3, BroadcastFrames, UnicastFrames
<1>7. \A n \in DOMAIN table[r] : table[r][n].port \in Nets
  BY DEF IInv, TablesOK, Routes, Entries
<1>8. \A p \in Ports[r] : p \in Nets
  BY TopologyAssumption
<1> HIDE DEF npdu, local
<1>9. \A g \in frames' : g \in frames \/ Sound(g)
  <2>1. CASE s.dnet = NULL
    BY <1>6, <2>1 DEF router_send, npdu, local
  <2>2. CASE s.dnet # NULL /\ s.dnet = Global
    BY <1>4, <1>8, <2>2 DEF router_send, npdu, local
  <2>3. CASE s.dnet \notin {NULL, Global} /\ s.dnet \notin DOMAIN table[r]
    BY <2>3 DEF router_send
  <2>4. CASE s.dnet \notin {NULL, Global} /\ s.dnet \in DOMAIN table[r]
    BY <1>4, <1>5, <1>7, <2>4 DEF router_send, npdu, local
  <2> QED BY <2>1, <2>2, <2>3, <2>4
<1>10. FramesOK'
  BY <1>9 DEF IInv, FramesOK
<1>11. TablesOK' /\ SendersOK' /\ SourceIsOrigin'
  BY DEF router_send, Unsent, IInv, TablesOK, SendersOK, SourceIsOrigin
<1> QED BY <1>10, <1>11 DEF IInv

LEMMA RouterStarts ==
  ASSUME IInv, NEW r \in Routers, start(r)
  PROVE  IInv'
<1> DEFINE t == DirectRoutes(r)
           known(l) == get_reachable_networks(t, l, FALSE)
<1>1. Routes(r, t) /\ Timed(t)
  BY DirectRoutesLead
<1>2. TablesOK'
  BY <1>1, TableStep DEF start, IInv
<1>3. ASSUME NEW l \in Ports[r]
      PROVE  \A g \in Broadcast(l, r, Local("NumberIs", l))
                     \cup Broadcast(l, r, Local("IAm", known(l))) : Sound(g)
  <2>1. \A g \in Broadcast(l, r, Local("NumberIs", l)) : Sound(g)
    BY OtherMessages DEF Local
  <2>2. \A g \in Broadcast(l, r, Local("IAm", known(l))) : Sound(g)
    BY <1>1, KnownElsewhere, Announcements
  <2> QED BY <2>1, <2>2
<1>4. ASSUME NEW g \in frames', g \notin frames
      PROVE  \E l \in Ports[r] : g \in Broadcast(l, r, Local("NumberIs", l))
                                     \cup Broadcast(l, r, Local("IAm", known(l)))
  BY <1>4 DEF start
<1>5. FramesOK'
  BY <1>3, <1>4 DEF IInv, FramesOK
<1>6. SendersOK' /\ SourceIsOrigin'
  BY DEF start, IInv, SendersOK, SourceIsOrigin
<1> QED BY <1>2, <1>5, <1>6 DEF IInv

LEMMA RouterStops ==
  ASSUME IInv, NEW r \in Routers, stop(r)
  PROVE  IInv'
<1> DEFINE u == [n \in DOMAIN table[r] |-> [table[r][n] EXCEPT !.timer = FALSE]]
<1>1. table' = [table EXCEPT ![r] = u] /\ up' = up \ {r}
  BY DEF stop
<1>2. Routes(r, u)
  <2>1. Routes(r, table[r])
    BY DEF IInv, TablesOK
  <2>2. ASSUME NEW n \in DOMAIN u
        PROVE  u[n] \in Entries /\ u[n].port = table[r][n].port /\ u[n].next = table[r][n].next
    BY <2>1, <2>2 DEF Routes, Entries
  <2>3. DOMAIN u = DOMAIN table[r]
    OBVIOUS
  <2> HIDE DEF u
  <2> QED BY <2>1, <2>2, <2>3 DEF Routes, Leads
<1> HIDE DEF u
<1>3. TablesOK'
  BY <1>1, <1>2, TableStep DEF IInv
<1>4. FramesOK' /\ SendersOK' /\ SourceIsOrigin'
  BY DEF stop, IInv, FramesOK, SendersOK, SourceIsOrigin
<1> QED BY <1>3, <1>4 DEF IInv

LEMMA NextIInv == IInv /\ [Next]_vars => IInv'
<1> SUFFICES ASSUME IInv, [Next]_vars PROVE IInv'
  OBVIOUS
<1>1. ASSUME NEW r \in Routers, start(r) PROVE IInv'
  BY <1>1, RouterStarts
<1>2. ASSUME NEW r \in Routers, stop(r) PROVE IInv'
  BY <1>2, RouterStops
<1>3. ASSUME NEW r \in Routers, NEW n \in Nets, busy_timeout(r, n) PROVE IInv'
  <2>1. Routes(r, table[r]) /\ (r \in up => Timed(table[r]))
    BY DEF IInv, TablesOK
  <2>2. TablesOK'
    BY <1>3, <2>1, MarkedRoutes, TableStep DEF busy_timeout, mark_available, IInv
  <2>3. FramesOK' /\ SendersOK' /\ SourceIsOrigin'
    BY <1>3 DEF busy_timeout, IInv, FramesOK, SendersOK, SourceIsOrigin
  <2> QED BY <2>2, <2>3 DEF IInv
<1>4. ASSUME NEW r \in Routers, NEW l \in Nets, NEW type \in {"Busy", "Available"},
             announce_congestion(r, l, type)
      PROVE  IInv'
  <2>1. \A g \in Broadcast(l, r, Local(type, {})) : Sound(g)
    BY OtherMessages DEF Local
  <2>2. FramesOK'
    BY <1>4, <2>1, FrameStep DEF announce_congestion, IInv
  <2>3. TablesOK' /\ SendersOK' /\ SourceIsOrigin'
    BY <1>4 DEF announce_congestion, IInv, TablesOK, SendersOK, SourceIsOrigin
  <2> QED BY <2>2, <2>3 DEF IInv
<1>5. ASSUME NEW s \in todo, device_send(s) PROVE IInv'
  BY <1>5, DeviceSends
<1>6. ASSUME NEW s \in todo, router_send(s) PROVE IInv'
  BY <1>6, RouterSends DEF router_send, IInv, TablesOK
<1>7. ASSUME NEW f \in frames, Arrival(f) PROVE IInv'
  BY <1>7, RouterReceives, DeviceReceives DEF Arrival
<1>8. ASSUME NEW f \in frames, lose(f) PROVE IInv'
  BY <1>8 DEF lose, Put, IInv, TablesOK, FramesOK, SendersOK, SourceIsOrigin
<1>9. ASSUME NEW d \in Devices, NEW n \in Nets, cache_expires(d, n) PROVE IInv'
  BY <1>9 DEF cache_expires, IInv, TablesOK, FramesOK, SendersOK, SourceIsOrigin
<1>10. CASE UNCHANGED vars
  BY <1>10 DEF vars, IInv, TablesOK, FramesOK, SendersOK, SourceIsOrigin
<1> QED BY <1>1, <1>2, <1>3, <1>4, <1>5, <1>6, <1>7, <1>8, <1>9, <1>10 DEF Next

-----------------------------------------------------------------------------
LEMMA Invariance == Spec => []IInv
BY InitIInv, NextIInv, PTL DEF Spec

(* Whatever order announcements arrive in, and whatever is lost or was     *)
(* sent before a restart, every entry of every routing table leads to its  *)
(* network (RoutingTable.update_route, NetworkRouter._handle_i_am_router). *)
THEOREM RoutingIsSound == Spec => []RoutesPointHome
<1>1. IInv => RoutesPointHome
  BY DEF IInv, TablesOK, Routes, RoutesPointHome
<1> QED BY <1>1, Invariance, PTL

(* A running router takes no network for congested without the timer that  *)
(* ends the congestion (RoutingTable.mark_busy and its callers).           *)
THEOREM CongestionEnds == Spec => []BusyHasTimer
<1>1. IInv => BusyHasTimer
  BY DEF IInv, TablesOK, Timed, BusyHasTimer
<1> QED BY <1>1, Invariance, PTL

(* An application is told the true origin of an APDU, however many routers *)
(* it came through (NetworkRouter._inject_source, _deliver_to_application, *)
(* NetworkLayer._on_npdu_received).                                        *)
THEOREM OriginIsTold == Spec => []SourceIsOrigin
<1>1. IInv => SourceIsOrigin
  BY DEF IInv
<1> QED BY <1>1, Invariance, PTL

-----------------------------------------------------------------------------
(* What devices learn.  A frame that brings an APDU from another network   *)
(* comes from a router that leads there, and if it is to go on, it was     *)
(* handed to a router that does not lead back.                             *)

Routed(f) ==
  f.npdu.type = "APDU" /\ f.npdu.src # NULL =>
    \/ f.npdu.src[1] = f.lan
    \/ /\ f.from \in Routers /\ f.lan \in Ports[f.from]
       /\ Toward[f.from][f.npdu.src[1]] # f.lan
       /\ \/ f.to \notin Routers
          \/ f.npdu.dnet \in {NULL, Global}
          \/ Toward[f.to][f.npdu.dnet] # f.lan
          \/ f.npdu.dnet = f.lan /\ f.npdu.dadr = f.to

Numbered(f) == f.npdu.type = "NumberIs" => f.npdu.body = f.lan

Counted(f) == f.npdu.hops \in 1 .. HopLimit

Truthful(f) == Routed(f) /\ Numbered(f) /\ Counted(f)

(* The router d would use for n                                            *)
Way(d, n, r) == r \in Routers /\ Home[d] \in Ports[r] /\ Toward[r][n] # Home[d]

KnownTo(d, c) == DOMAIN c \subseteq Nets /\ \A n \in DOMAIN c \ {Home[d]} : Way(d, n, c[n])

CachesOK == DOMAIN cache = Devices /\ \A d \in Devices : KnownTo(d, cache[d])

NumbersOK == DOMAIN number = Devices /\ NumberIsHome

AllTruthful == \A f \in frames : Truthful(f)

SendsOK == \A s \in todo : NotNextDoor(s)

LInv == IInv /\ CachesOK /\ NumbersOK /\ AllTruthful /\ SendsOK

LEMMA NPDURest ==
  ASSUME NEW type, NEW dnet, NEW dadr, NEW src, NEW hops, NEW body
  PROVE  LET npdu == NPDU(type, dnet, dadr, src, hops, body)
         IN  /\ npdu.dnet = dnet /\ npdu.dadr = dadr
             /\ hops \in 1 .. HopLimit => npdu.hops \in 1 .. HopLimit
             /\ dnet = NULL => npdu.hops \in 1 .. HopLimit
BY TopologyAssumption DEF NPDU

LEMMA UnicastTo ==
  ASSUME NEW l, NEW x, NEW y, NEW npdu, NEW f \in Unicast(l, x, y, npdu)
  PROVE  f.to = y /\ y # x
BY DEF Unicast, Frame

LEMMA HopsLeft ==
  ASSUME NEW f, Counted(f), ~Exhausted(f.npdu)
  PROVE  f.npdu.hops - 1 \in 1 .. HopLimit
BY TopologyAssumption DEF Counted, Exhausted

(* Messages other than APDUs and network numbers have nothing to be wrong  *)
(* but their hop count.                                                    *)
LEMMA OthersTruthful ==
  ASSUME NEW g, g.npdu.type \notin {"APDU", "NumberIs"}, Counted(g)
  PROVE  Truthful(g)
BY DEF Truthful, Routed, Numbered

LEMMA LocalTruthful ==
  ASSUME NEW type, type \notin {"APDU", "NumberIs"}, NEW body, NEW l, NEW x,
         NEW g \in Broadcast(l, x, Local(type, body))
  PROVE  Truthful(g)
<1>1. g.npdu = Local(type, body)
  BY BroadcastFrames
<1>2. g.npdu.type = type /\ g.npdu.hops \in 1 .. HopLimit
  BY <1>1, NPDUFields, NPDURest DEF Local
<1> QED BY <1>2, OthersTruthful DEF Counted

(* An APDU reaches a router from the side of its source.                   *)
LEMMA ComesFrom ==
  ASSUME NEW r \in Routers, NEW f, Sound(f), Routed(f), f.to = r, f.npdu.type = "APDU"
  PROVE  /\ Source(f)[1] \in Nets /\ Source(f)[2] \in Stations
         /\ f.lan \in Ports[r] /\ Toward[r][Source(f)[1]] = f.lan
<1> DEFINE h == Source(f)[1]
<1>1. /\ h = HomeOf(f.npdu.body.from) /\ h \in Nets
      /\ Source(f)[2] = f.npdu.body.from /\ Source(f)[2] \in Stations
  BY SourceFound
<1>2. f.lan \in Ports[r] /\ f.lan \in Nets
  BY ArrivesOnPort
<1>3. CASE h = f.lan
  BY <1>1, <1>2, <1>3, TreeAssumption
<1>4. CASE h # f.lan
  <2>1. f.npdu.src # NULL /\ Source(f) = f.npdu.src
    BY <1>1, <1>4 DEF Sound, Carries, Source
  <2>2. f.from \in Routers /\ f.lan \in Ports[f.from] /\ Toward[f.from][h] # f.lan
    BY <1>4, <2>1 DEF Routed
  <2>3. f.from # r
    BY DEF Sound, Addressed
  <2> QED BY <1>1, <1>2, <2>2, <2>3, TreeAssumption
<1> QED BY <1>1, <1>2, <1>3, <1>4

(* A router forwards nothing back to where it came from, unless that is    *)
(* where its source is.                                                    *)
LEMMA ForwardsAway ==
  ASSUME NEW r \in Routers, NEW f, Sound(f), Routed(f), f.to = r, f.npdu.type = "APDU",
         NEW t, Routes(r, t), f.npdu.dnet \notin {NULL, Global}, f.npdu.dnet \in DOMAIN t,
         t[f.npdu.dnet].port = f.lan, Source(f)[1] # f.lan
  PROVE  f.npdu.dadr = r /\ t[f.npdu.dnet].next = NULL
<1> DEFINE n == f.npdu.dnet
<1>1. Toward[r][n] = f.lan /\ n \in Nets /\ (t[n].next = NULL <=> n \in Ports[r])
  BY DEF Routes, Leads
<1>2. f.npdu.src # NULL /\ Source(f) = f.npdu.src
  <2>1. f.npdu.src = NULL => Source(f) = <<f.lan, f.from>>
    BY DEF Source
  <2>2. f.npdu.src # NULL => Source(f) = f.npdu.src
    BY DEF Source
  <2> QED BY <2>1, <2>2
<1>3. n = f.lan /\ f.npdu.dadr = r
  BY <1>1, <1>2 DEF Routed
<1>4. f.lan \in Ports[r]
  BY ArrivesOnPort
<1> QED BY <1>1, <1>3, <1>4

LEMMA ForwardedTruthful ==
  ASSUME NEW r \in Routers, NEW f, Sound(f), Truthful(f), f.to = r,
         f.npdu.type \notin {"IAm", "NumberIs"},
         NEW t, Routes(r, t), NEW g \in Forward(r, t, f)
  PROVE  Truthful(g)
<1> DEFINE n == f.npdu.dnet
           to == forward_to_network(r, t, f)
<1>1. f.lan \in Ports[r] /\ \A m \in DOMAIN t : t[m].port \in Ports[r]
  BY ArrivesOnPort, TreeAssumption DEF Routes, Leads
<1>2. /\ g.lan \in Ports[r]
      /\ \/ g.npdu.type = "Reject"
         \/ g.npdu.type = f.npdu.type /\ g.npdu.src = Source(f)
  BY <1>1, ForwardFrames
<1>3. n # NULL /\ g \in IF n = Global THEN forward_global_broadcast(r, f) ELSE to
  BY DEF Forward
<1>4. ASSUME NEW reason, \/ g \in send_reject(r, f, reason, n)
                         \/ g \in send_reject_toward_source(r, t, f, reason, n)
      PROVE  Truthful(g)
  <2>1. ASSUME NEW l, NEW y, g \in Unicast(l, r, y, Local("Reject", [net |-> n, reason |-> reason]))
        PROVE  Truthful(g)
    <3>1. g.npdu = Local("Reject", [net |-> n, reason |-> reason])
      BY <2>1, UnicastFrames
    <3>2. g.npdu.type = "Reject" /\ g.npdu.hops \in 1 .. HopLimit
      BY <3>1, NPDUFields, NPDURest DEF Local
    <3> QED BY <3>2, OthersTruthful DEF Counted
  <2>2. ASSUME NEW l, NEW y, NEW m, NEW z,
               g \in Unicast(l, r, y, NPDU("Reject", m, z, NULL, HopLimit,
                                           [net |-> n, reason |-> reason]))
        PROVE  Truthful(g)
    <3>1. g.npdu = NPDU("Reject", m, z, NULL, HopLimit, [net |-> n, reason |-> reason])
      BY <2>2, UnicastFrames
    <3>2. HopLimit \in 1 .. HopLimit
      BY TopologyAssumption
    <3>3. g.npdu.type = "Reject" /\ g.npdu.hops \in 1 .. HopLimit
      BY <3>1, <3>2, NPDUFields, NPDURest
    <3> QED BY <3>3, OthersTruthful DEF Counted
  <2> QED BY <1>4, <2>1, <2>2 DEF send_reject_toward_source, send_reject
<1>5. ASSUME Counted(g), g.npdu.type = f.npdu.type, g.npdu.src = Source(f),
             \/ g.npdu.dnet \in {NULL, Global}
             \/ g.to \in Routers => Toward[g.to][g.npdu.dnet] # g.lan,
             f.npdu.type = "APDU" /\ Source(f)[1] # f.lan => g.lan # f.lan
      PROVE  Truthful(g)
  <2>1. CASE f.npdu.type = "APDU"
    <3>1. Source(f)[1] \in Nets /\ Toward[r][Source(f)[1]] = f.lan
      BY <2>1, ComesFrom DEF Truthful
    <3>2. Source(f)[1] = g.lan \/ Toward[r][Source(f)[1]] # g.lan
      BY <1>5, <2>1, <3>1
    <3>3. g.from = r
      <4>1. CASE n = Global
        BY <1>3, <4>1, BroadcastFrames DEF forward_global_broadcast, BroadcastExcept
      <4>2. CASE n # Global
        BY <1>3, <4>2, BroadcastFrames, UnicastFrames
           DEF forward_to_network, send_reject_toward_source, send_reject,
               deliver_to_directly_connected, forward_via_next_hop
      <4> QED BY <4>1, <4>2
    <3> QED BY <1>2, <1>5, <2>1, <3>2, <3>3 DEF Truthful, Routed, Numbered
  <2>2. CASE f.npdu.type # "APDU"
    BY <1>5, <2>2, OthersTruthful
  <2> QED BY <2>1, <2>2
<1>6. CASE g \in forward_global_broadcast(r, f) /\ n = Global
  <2>1. PICK p \in Ports[r] \ {f.lan} : g \in Broadcast(p, r, prepare_forwarded_npdu(f))
    BY <1>6 DEF forward_global_broadcast, BroadcastExcept
  <2>2. ~Exhausted(f.npdu)
    BY <1>6 DEF forward_global_broadcast
  <2>3. g.lan # f.lan /\ g.npdu = prepare_forwarded_npdu(f)
    BY <2>1, BroadcastFrames
  <2>4. /\ g.npdu.type = f.npdu.type /\ g.npdu.src = Source(f) /\ g.npdu.dnet = Global
        /\ g.npdu.hops \in 1 .. HopLimit
    BY <1>6, <2>2, <2>3, HopsLeft, NPDUFields, NPDURest DEF prepare_forwarded_npdu, Truthful
  <2> QED BY <1>5, <2>3, <2>4 DEF Counted
<1>7. ASSUME g \in to, n \notin {NULL, Global}
      PROVE  Truthful(g)
  <2>1. CASE n \notin DOMAIN t \/ t[n].reach = "UNREACHABLE"
    BY <1>4, <1>7, <2>1 DEF forward_to_network
  <2>2. CASE n \in DOMAIN t /\ t[n].reach # "UNREACHABLE" /\ t[n].reach = "BUSY"
    BY <1>4, <1>7, <2>2 DEF forward_to_network
  <2>3. CASE n \in DOMAIN t /\ t[n].reach \notin {"UNREACHABLE", "BUSY"} /\ t[n].next = NULL
    <3> DEFINE npdu == NPDU(f.npdu.type, NULL, NULL, Source(f), HopLimit, f.npdu.body)
               l == t[n].port
    <3>1. g \in deliver_to_directly_connected(r, f, l)
      BY <1>7, <2>3 DEF forward_to_network
    <3>2. g.lan = l /\ g.npdu = npdu
      BY <3>1, BroadcastFrames, UnicastFrames DEF deliver_to_directly_connected
    <3>3. /\ g.npdu.type = f.npdu.type /\ g.npdu.src = Source(f) /\ g.npdu.dnet = NULL
          /\ g.npdu.hops \in 1 .. HopLimit
      BY <3>2, NPDUFields, NPDURest
    <3>4. ASSUME f.npdu.type = "APDU", Source(f)[1] # f.lan, l = f.lan
          PROVE  FALSE
      <4>1. f.npdu.dadr = r
        BY <1>7, <2>3, <3>4, ForwardsAway DEF Truthful
      <4>2. r # NULL
        BY TopologyAssumption DEF Stations
      <4>3. g \in Unicast(l, r, r, npdu)
        BY <3>1, <4>1, <4>2 DEF deliver_to_directly_connected
      <4> HIDE DEF npdu
      <4> QED BY <4>3, UnicastTo
    <3> QED BY <1>5, <3>2, <3>3, <3>4 DEF Counted
  <2>4. CASE n \in DOMAIN t /\ t[n].reach \notin {"UNREACHABLE", "BUSY"} /\ t[n].next # NULL
    <3> DEFINE e == t[n]
    <3>1. g \in forward_via_next_hop(r, f, e)
      BY <1>7, <2>4 DEF forward_to_network
    <3>2. ~Exhausted(f.npdu) /\ g \in Unicast(e.port, r, e.next, prepare_forwarded_npdu(f))
      BY <3>1 DEF forward_via_next_hop
    <3>3. g.lan = e.port /\ g.to = e.next /\ g.npdu = prepare_forwarded_npdu(f)
      BY <3>2, UnicastFrames, UnicastTo
    <3>4. /\ g.npdu.type = f.npdu.type /\ g.npdu.src = Source(f) /\ g.npdu.dnet = n
          /\ g.npdu.hops \in 1 .. HopLimit
      BY <3>2, <3>3, HopsLeft, NPDUFields, NPDURest DEF prepare_forwarded_npdu, Truthful
    <3>5. Toward[e.next][n] # e.port
      BY <2>4 DEF Routes, Leads
    <3>6. f.npdu.type = "APDU" /\ Source(f)[1] # f.lan => e.port # f.lan
      BY <1>7, <2>4, ForwardsAway DEF Truthful
    <3> QED BY <1>5, <3>3, <3>4, <3>5, <3>6 DEF Counted
  <2> QED BY <2>1, <2>2, <2>3, <2>4
<1> QED BY <1>3, <1>6, <1>7

-----------------------------------------------------------------------------
(* What devices learn is preserved.                                        *)

LEMMA TruthStep ==
  ASSUME AllTruthful, NEW new, frames' \subseteq frames \cup new, \A g \in new : Truthful(g)
  PROVE  AllTruthful'
BY DEF AllTruthful

(* Replies are addressed to a station.                                     *)
LEMMA ReplyStep ==
  ASSUME SendsOK, NEW x, NEW apdu, NEW src, src[2] \in Stations, Deliver(x, apdu, src)
  PROVE  SendsOK'
BY TopologyAssumption DEF SendsOK, Deliver, Reply, NotNextDoor

LEMMA RouterLearns ==
  ASSUME LInv, NEW r \in Routers, NEW f \in frames, router_receives(r, f)
  PROVE  AllTruthful' /\ SendsOK'
<1> DEFINE t == table[r]
<1>1. Sound(f) /\ Truthful(f) /\ f.to = r /\ f.lan \in Ports[r] /\ f.lan \in Nets
  BY ArrivesOnPort DEF LInv, IInv, FramesOK, AllTruthful, router_receives
<1>2. Routes(r, t) /\ DOMAIN table = Routers
  BY DEF LInv, IInv, TablesOK
<1>3. ASSUME NEW type, type \notin {"APDU", "NumberIs"}, NEW body, NEW g,
             \/ g \in Broadcast(f.lan, r, Local(type, body))
             \/ g \in BroadcastExcept(r, f.lan, Local(type, body))
      PROVE  Truthful(g)
  BY <1>3, LocalTruthful DEF BroadcastExcept
<1>4. CASE process_apdu(r, f)
  <2>1. \A g \in Forward(r, t, f) : Truthful(g)
    BY <1>1, <1>2, <1>4, ForwardedTruthful DEF process_apdu
  <2>2. AllTruthful'
    BY <1>4, <2>1, TruthStep DEF process_apdu, Put, LInv
  <2>3. SendsOK'
    <3>1. Source(f)[2] \in Stations
      BY <1>1, <1>4, ComesFrom DEF process_apdu, Truthful
    <3>2. CASE Deliver(r, f.npdu.body, Source(f))
      BY <3>1, <3>2, ReplyStep DEF LInv
    <3>3. CASE UNCHANGED todo
      BY <3>3 DEF LInv, SendsOK
    <3> QED BY <1>4, <3>2, <3>3 DEF process_apdu
  <2> QED BY <2>2, <2>3
<1>5. ASSUME UNCHANGED todo
      PROVE  SendsOK'
  BY <1>5 DEF LInv, SendsOK
<1>6. CASE handle_who_is_router(r, f)
  <2>1. ASSUME ~Exhausted(f.npdu), NEW g \in BroadcastExcept(r, f.lan, prepare_forwarded_npdu(f))
        PROVE  Truthful(g)
    <3>1. g.npdu = prepare_forwarded_npdu(f)
      BY <2>1, BroadcastFrames DEF BroadcastExcept
    <3>2. g.npdu.type = "WhoIs" /\ g.npdu.hops \in 1 .. HopLimit
      BY <1>1, <1>6, <2>1, <3>1, HopsLeft, NPDUFields, NPDURest
         DEF handle_who_is_router, prepare_forwarded_npdu, Truthful
    <3> QED BY <3>2, OthersTruthful DEF Counted
  <2>2. ASSUME NEW g \in frames', g \notin frames
        PROVE  Truthful(g)
    <3>1. \/ \E nets : g \in Broadcast(f.lan, r, Local("IAm", nets))
          \/ ~Exhausted(f.npdu) /\ g \in BroadcastExcept(r, f.lan, prepare_forwarded_npdu(f))
      BY <1>6, <2>2 DEF handle_who_is_router, Put
    <3> QED BY <1>3, <2>1, <3>1
  <2>3. AllTruthful'
    BY <2>2 DEF LInv, AllTruthful
  <2> QED BY <1>5, <1>6, <2>3 DEF handle_who_is_router
<1>7. ASSUME NEW type, type \notin {"APDU", "NumberIs"}, NEW body,
             Put(f, BroadcastExcept(r, f.lan, Local(type, body)))
      PROVE  AllTruthful'
  BY <1>3, <1>7, TruthStep DEF Put, LInv
<1>8. CASE handle_i_am_router(r, f)
  BY <1>5, <1>7, <1>8 DEF handle_i_am_router
<1>9. CASE handle_reject_message(r, f)
  <2> DEFINE b == f.npdu.body
             u == IF b.reason = "ROUTER_BUSY" THEN mark_busy(t, {b.net})
                                              ELSE mark_unreachable(t, {b.net})
  <2>1. f.npdu.type = "Reject" /\ table' = [table EXCEPT ![r] = u]
    BY <1>9 DEF handle_reject_message
  <2>2. Routes(r, u)
    BY <1>2, MarkedRoutes DEF mark_busy, mark_unreachable
  <2>3. table'[r] = u
    BY <1>2, <2>1
  <2>4. \A g \in Forward(r, u, f) : Truthful(g)
    BY <1>1, <2>1, <2>2, ForwardedTruthful
  <2>5. Put(f, Forward(r, u, f)) /\ UNCHANGED todo
    BY <1>9, <2>3 DEF handle_reject_message
  <2> HIDE DEF u
  <2>6. AllTruthful'
    BY <2>4, <2>5, TruthStep DEF Put, LInv
  <2> QED BY <1>5, <2>5, <2>6
<1>10. CASE handle_router_busy(r, f)
  BY <1>5, <1>7, <1>10 DEF handle_router_busy
<1>11. CASE handle_router_available(r, f)
  BY <1>5, <1>7, <1>11 DEF handle_router_available
<1>12. CASE Put(f, {}) /\ UNCHANGED todo
  <2>1. AllTruthful'
    BY <1>12 DEF Put, LInv, AllTruthful
  <2> QED BY <1>5, <1>12, <2>1
<1> QED
  BY <1>4, <1>6, <1>8, <1>9, <1>10, <1>11, <1>12
     DEF router_receives, ignore_network_number_is

(* What a device takes from a frame that reaches it.                       *)
LEMMA CachedFact ==
  ASSUME NEW d, NEW c, KnownTo(d, c), NEW nets \in SUBSET Nets, NEW r,
         \A n \in nets \ {Home[d]} : Way(d, n, r)
  PROVE  KnownTo(d, Cached(c, nets, r))
BY DEF KnownTo, Cached

LEMMA DeviceLearns ==
  ASSUME LInv, NEW d \in Devices, NEW f \in frames, device_receives(d, f)
  PROVE  CachesOK' /\ NumbersOK' /\ AllTruthful' /\ SendsOK'
<1>1. Sound(f) /\ Truthful(f) /\ Home[d] = f.lan
  BY TopologyAssumption
     DEF LInv, IInv, FramesOK, AllTruthful, device_receives, Sound, Addressed, On
<1>2. AllTruthful'
  BY DEF device_receives, Put, LInv, AllTruthful
<1>3. CachesOK /\ NumbersOK /\ SendsOK
  BY DEF LInv
<1>4. ASSUME NEW c, KnownTo(d, c), cache' = [cache EXCEPT ![d] = c]
      PROVE  CachesOK'
  BY <1>3, <1>4 DEF CachesOK
<1>5. CASE receive_apdu(d, f)
  <2> DEFINE src == IF f.npdu.src = NULL THEN <<NULL, f.from>> ELSE f.npdu.src
             c == learn_router_from_source(cache[d], f)
             x == f.npdu.body.from
  <2>1. /\ f.npdu.type = "APDU" /\ Deliver(d, f.npdu.body, src) /\ UNCHANGED number
        /\ cache' = [cache EXCEPT ![d] = c]
    BY <1>5 DEF receive_apdu
  <2>2. x \in Stations /\ HomeOf(x) \in Nets
        /\ IF f.npdu.src = NULL THEN f.from = x ELSE f.npdu.src = <<HomeOf(x), x>>
    BY <1>1, <2>1 DEF Sound, Carries
  <2>3. src[2] \in Stations
    BY <2>2
  <2>4. SendsOK'
    <3> HIDE DEF src
    <3> QED BY <1>3, <2>1, <2>3, ReplyStep
  <2>5. KnownTo(d, c)
    <3>1. CASE f.npdu.src = NULL \/ f.npdu.src[1] \in DOMAIN cache[d]
      BY <1>3, <3>1 DEF CachesOK, learn_router_from_source
    <3>2. CASE ~(f.npdu.src = NULL \/ f.npdu.src[1] \in DOMAIN cache[d])
      <4> DEFINE n == f.npdu.src[1]
      <4>1. c = Cached(cache[d], {n}, f.from) /\ n \in Nets
        BY <2>2, <3>2 DEF learn_router_from_source
      <4>2. n # Home[d] => Way(d, n, f.from)
        BY <1>1, <2>1, <3>2 DEF Truthful, Routed, Way
      <4>3. KnownTo(d, cache[d])
        BY <1>3 DEF CachesOK
      <4> HIDE DEF n, c
      <4> QED BY <4>1, <4>2, <4>3, CachedFact
    <3> QED BY <3>1, <3>2
  <2>6. CachesOK'
    <3> HIDE DEF c
    <3> QED BY <1>4, <2>1, <2>5
  <2>7. NumbersOK'
    BY <1>3, <2>1 DEF NumbersOK, NumberIsHome
  <2> QED BY <1>2, <2>4, <2>6, <2>7
<1>6. ASSUME UNCHANGED todo
      PROVE  SendsOK'
  BY <1>3, <1>6 DEF SendsOK
<1>7. CASE learn_router(d, f)
  <2>1. /\ f.npdu.type = "IAm" /\ UNCHANGED <<number, todo>>
        /\ cache' = [cache EXCEPT ![d] = Cached(cache[d], f.npdu.body, f.from)]
    BY <1>7 DEF learn_router
  <2>2. f.npdu.body \in SUBSET Nets /\ \A n \in f.npdu.body : Way(d, n, f.from)
    BY <1>1, <2>1 DEF Sound, Announces, Way
  <2>3. CachesOK'
    BY <1>3, <1>4, <2>1, <2>2, CachedFact DEF CachesOK
  <2> QED BY <1>2, <1>3, <1>6, <2>1, <2>3 DEF NumbersOK, NumberIsHome
<1>8. CASE learn_network_number(d, f)
  <2>1. f.npdu.body = Home[d]
    BY <1>1, <1>8 DEF learn_network_number, Truthful, Numbered
  <2>2. NumbersOK'
    BY <1>3, <1>8, <2>1 DEF learn_network_number, NumbersOK, NumberIsHome
  <2> QED BY <1>2, <1>3, <1>6, <1>8, <2>2 DEF learn_network_number, CachesOK
<1>9. CASE ignore_network_message(d, f)
  BY <1>2, <1>3, <1>6, <1>9 DEF ignore_network_message, CachesOK, NumbersOK, NumberIsHome
<1> QED BY <1>5, <1>7, <1>8, <1>9 DEF device_receives

LEMMA DeviceSendsTruth ==
  ASSUME LInv, NEW s \in todo, device_send(s)
  PROVE  AllTruthful'
<1> DEFINE d == s.from
           l == Home[d]
           npdu == NPDU("APDU", s.dnet, s.dadr, NULL, HopLimit, s)
<1>1. npdu.type = "APDU" /\ npdu.src = NULL /\ npdu.hops \in 1 .. HopLimit
  <2>1. HopLimit \in 1 .. HopLimit
    BY TopologyAssumption
  <2> QED BY <2>1, NPDUFields, NPDURest
<1>2. ASSUME NEW g, g.npdu = npdu
      PROVE  Truthful(g)
  BY <1>1, <1>2 DEF Truthful, Routed, Numbered, Counted
<1>3. \A y : \A g \in Broadcast(l, d, npdu) \cup Unicast(l, d, y, npdu) : Truthful(g)
  BY <1>2, BroadcastFrames, UnicastFrames
<1>4. \A g \in Broadcast(l, d, Local("WhoIs", s.dnet)) : Truthful(g)
  BY LocalTruthful
<1> HIDE DEF npdu
<1>5. \A g \in frames' : g \in frames \/ Truthful(g)
  BY <1>3, <1>4 DEF device_send, send_remote, npdu
<1> QED BY <1>5 DEF LInv, AllTruthful

(* The application of a router sends from its own network.                 *)
LEMMA RouterSendsTruth ==
  ASSUME LInv, NEW s \in todo, NEW r \in Routers, s.from = r, router_send(s)
  PROVE  AllTruthful'
<1> DEFINE a == AppPort[r]
           npdu == NPDU("APDU", s.dnet, s.dadr, <<a, r>>, HopLimit, s)
           local == Local("APDU", s)
<1>1. a \in Ports[r] /\ a \in Nets /\ Toward[r][a] = a
  BY TopologyAssumption, TreeAssumption DEF router_send
<1>2. HopLimit \in 1 .. HopLimit
  BY TopologyAssumption
<1>3. /\ npdu.type = "APDU" /\ npdu.src = <<a, r>> /\ npdu.hops \in 1 .. HopLimit
      /\ npdu.dnet = s.dnet /\ npdu.dadr = s.dadr
  BY <1>2, NPDUFields, NPDURest
<1>4. local.type = "APDU" /\ local.src = NULL /\ local.hops \in 1 .. HopLimit
  BY NPDUFields, NPDURest DEF Local
<1> HIDE DEF npdu, local
<1>5. ASSUME NEW y, NEW g \in Broadcast(a, r, local) \cup Unicast(a, r, y, local)
      PROVE  Truthful(g)
  <2>1. g.npdu = local
    BY BroadcastFrames, UnicastFrames
  <2> QED BY <1>4, <2>1 DEF Truthful, Routed, Numbered, Counted
<1>6. ASSUME NEW p \in Ports[r], NEW g, g.lan = p, g.from = r, g.npdu = npdu,
             \/ p = a
             \/ g.to \notin Routers
             \/ s.dnet \in {NULL, Global}
             \/ Toward[g.to][s.dnet] # p
             \/ s.dnet = p /\ s.dadr = g.to
      PROVE  Truthful(g)
  BY <1>1, <1>3, <1>6 DEF Truthful, Routed, Numbered, Counted
<1>7. CASE s.dnet = NULL
  <2>1. \E y : frames' \subseteq frames \cup Broadcast(a, r, local) \cup Unicast(a, r, y, local)
    BY <1>7 DEF router_send, local
  <2> QED BY <1>5, <2>1 DEF LInv, AllTruthful
<1>8. CASE s.dnet # NULL /\ s.dnet = Global
  <2>1. \A g \in frames' : g \in frames \/ \E p \in Ports[r] : g \in Broadcast(p, r, npdu)
    BY <1>8 DEF router_send, npdu
  <2>2. \A p \in Ports[r] : \A g \in Broadcast(p, r, npdu) : Truthful(g)
    BY <1>6, <1>8, BroadcastFrames
  <2> QED BY <2>1, <2>2 DEF LInv, AllTruthful
<1>9. CASE s.dnet \notin {NULL, Global} /\ s.dnet \notin DOMAIN table[r]
  <2>1. frames' = frames
    BY <1>9 DEF router_send
  <2> QED BY <2>1 DEF LInv, AllTruthful
<1>10. CASE s.dnet \notin {NULL, Global} /\ s.dnet \in DOMAIN table[r]
  <2> DEFINE n == s.dnet
             e == table[r][n]
  <2>1. /\ e.port = Toward[r][n] /\ n \in Nets /\ (e.next = NULL <=> n \in Ports[r])
        /\ e.next # NULL => Toward[e.next][n] # e.port
    BY <1>10 DEF LInv, IInv, TablesOK, Routes, Leads
  <2>2. e.port \in Ports[r] /\ (e.next = NULL => e.port = n)
    BY <2>1, TreeAssumption
  <2>3. frames' = frames \cup (IF e.next # NULL THEN Unicast(e.port, r, e.next, npdu)
                               ELSE IF s.dadr = NULL THEN Broadcast(e.port, r, npdu)
                               ELSE Unicast(e.port, r, s.dadr, npdu))
    BY <1>10 DEF router_send, npdu
  <2> HIDE DEF n, e
  <2>4. CASE e.next # NULL
    <3>1. \A g \in Unicast(e.port, r, e.next, npdu) : Truthful(g)
      BY <1>6, <2>1, <2>2, <2>4, UnicastFrames, UnicastTo DEF n
    <3> QED BY <2>3, <2>4, <3>1 DEF LInv, AllTruthful
  <2>5. CASE e.next = NULL /\ s.dadr = NULL
    <3>1. e.port = a
      BY <2>1, <2>2, <2>5 DEF LInv, SendsOK, NotNextDoor, n
    <3>2. \A g \in Broadcast(e.port, r, npdu) : Truthful(g)
      BY <1>6, <2>2, <3>1, BroadcastFrames
    <3> QED BY <2>3, <2>5, <3>2 DEF LInv, AllTruthful
  <2>6. CASE e.next = NULL /\ s.dadr # NULL
    <3>1. \A g \in Unicast(e.port, r, s.dadr, npdu) : Truthful(g)
      BY <1>6, <2>2, <2>6, UnicastFrames, UnicastTo DEF n
    <3> QED BY <2>3, <2>6, <3>1 DEF LInv, AllTruthful
  <2> QED BY <2>4, <2>5, <2>6
<1> QED BY <1>7, <1>8, <1>9, <1>10

LEMMA RouterStartsTruth ==
  ASSUME LInv, NEW r \in Routers, start(r)
  PROVE  AllTruthful'
<1> DEFINE known(l) == get_reachable_networks(DirectRoutes(r), l, FALSE)
<1>1. ASSUME NEW l, NEW g \in Broadcast(l, r, Local("NumberIs", l))
      PROVE  Truthful(g)
  <2>1. g.npdu = Local("NumberIs", l) /\ g.lan = l
    BY BroadcastFrames
  <2>2. g.npdu.type = "NumberIs" /\ g.npdu.body = l /\ g.npdu.hops \in 1 .. HopLimit
    BY <2>1, NPDUFields, NPDURest DEF Local
  <2> QED BY <2>1, <2>2 DEF Truthful, Routed, Numbered, Counted
<1>2. \A l : \A g \in Broadcast(l, r, Local("IAm", known(l))) : Truthful(g)
  BY LocalTruthful
<1>3. ASSUME NEW g \in frames', g \notin frames
      PROVE  \E l \in Ports[r] : g \in Broadcast(l, r, Local("NumberIs", l))
                                     \cup Broadcast(l, r, Local("IAm", known(l)))
  BY <1>3 DEF start
<1> QED BY <1>1, <1>2, <1>3 DEF LInv, AllTruthful

LEMMA NextLInv == LInv /\ [Next]_vars => LInv'
<1> SUFFICES ASSUME LInv, [Next]_vars PROVE LInv'
  OBVIOUS
<1>1. IInv'
  BY NextIInv DEF LInv
<1>2. CachesOK /\ NumbersOK /\ AllTruthful /\ SendsOK
  BY DEF LInv
<1>3. ASSUME UNCHANGED <<cache, number>>
      PROVE  CachesOK' /\ NumbersOK'
  BY <1>2, <1>3 DEF CachesOK, NumbersOK, NumberIsHome
<1>4. ASSUME todo' \subseteq todo
      PROVE  SendsOK'
  BY <1>2, <1>4 DEF SendsOK
<1>5. ASSUME frames' \subseteq frames
      PROVE  AllTruthful'
  BY <1>2, <1>5 DEF AllTruthful
<1>6. ASSUME NEW r \in Routers, start(r) PROVE LInv'
  BY <1>1, <1>3, <1>4, <1>6, RouterStartsTruth DEF start, LInv
<1>7. ASSUME NEW r \in Routers, stop(r) PROVE LInv'
  BY <1>1, <1>3, <1>4, <1>5, <1>7 DEF stop, LInv
<1>8. ASSUME NEW r \in Routers, NEW n \in Nets, busy_timeout(r, n) PROVE LInv'
  BY <1>1, <1>3, <1>4, <1>5, <1>8 DEF busy_timeout, LInv
<1>9. ASSUME NEW r \in Routers, NEW l \in Nets, NEW type \in {"Busy", "Available"},
             announce_congestion(r, l, type)
      PROVE  LInv'
  <2>1. AllTruthful'
    BY <1>2, <1>9, LocalTruthful, TruthStep DEF announce_congestion
  <2> QED BY <1>1, <1>3, <1>4, <1>9, <2>1 DEF announce_congestion, LInv
<1>10. ASSUME NEW s \in todo, device_send(s) PROVE LInv'
  <2>1. todo' \subseteq todo
    BY <1>10 DEF device_send, Unsent
  <2> QED BY <1>1, <1>3, <1>4, <1>10, <2>1, DeviceSendsTruth DEF device_send, LInv
<1>11. ASSUME NEW s \in todo, router_send(s) PROVE LInv'
  <2>1. todo' \subseteq todo /\ s.from \in Routers
    BY <1>11 DEF router_send, Unsent, LInv, IInv, TablesOK
  <2> QED BY <1>1, <1>3, <1>4, <1>11, <2>1, RouterSendsTruth DEF router_send, LInv
<1>12. ASSUME NEW f \in frames, NEW r \in Routers, router_receives(r, f) PROVE LInv'
  BY <1>1, <1>3, <1>12, RouterLearns DEF router_receives, LInv
<1>13. ASSUME NEW f \in frames, NEW d \in Devices, device_receives(d, f) PROVE LInv'
  BY <1>1, <1>13, DeviceLearns DEF LInv
<1>14. ASSUME NEW f \in frames, lose(f) PROVE LInv'
  BY <1>1, <1>3, <1>4, <1>5, <1>14 DEF lose, Put, LInv
<1>15. ASSUME NEW d \in Devices, NEW n \in Nets, cache_expires(d, n) PROVE LInv'
  <2>1. cache' = [cache EXCEPT ![d] = [x \in DOMAIN cache[d] \ {n} |-> cache[d][x]]]
    BY <1>15 DEF cache_expires
  <2>2. KnownTo(d, [x \in DOMAIN cache[d] \ {n} |-> cache[d][x]])
    BY <1>2 DEF CachesOK, KnownTo
  <2>3. CachesOK'
    BY <1>2, <2>1, <2>2 DEF CachesOK
  <2>4. NumbersOK'
    BY <1>2, <1>15 DEF cache_expires, NumbersOK, NumberIsHome
  <2> QED BY <1>1, <1>4, <1>5, <1>15, <2>3, <2>4 DEF cache_expires, LInv
<1>16. CASE UNCHANGED vars
  BY <1>1, <1>3, <1>4, <1>5, <1>16 DEF vars, LInv
<1> QED
  BY <1>6, <1>7, <1>8, <1>9, <1>10, <1>11, <1>12, <1>13, <1>14, <1>15, <1>16 DEF Next, Arrival

LEMMA InitLInv == NoBroadcastNextDoor /\ Init => LInv
<1> SUFFICES ASSUME NoBroadcastNextDoor, Init PROVE LInv
  OBVIOUS
<1>1. IInv
  BY InitIInv
<1>2. CachesOK
  BY DEF Init, CachesOK, KnownTo
<1>3. NumbersOK /\ AllTruthful /\ SendsOK
  BY DEF Init, NumbersOK, NumberIsHome, AllTruthful, SendsOK, NoBroadcastNextDoor
<1> QED BY <1>1, <1>2, <1>3 DEF LInv

(* What is on the way and what the devices have learned of the network is  *)
(* true of it: no hop count leaves its range, the number a device takes    *)
(* its LAN to have is the number of its LAN, and a cached router leads to  *)
(* the network it is cached for (NetworkLayer._learn_router_from_source,   *)
(* _handle_i_am_router, _handle_network_number_is), as long as the         *)
(* application of no router broadcasts on a network next door.             *)
THEOREM LearnedIsTrueTheorem ==
  ASSUME NoBroadcastNextDoor
  PROVE  Spec => []LearnedIsTrue
<1>1. LInv => LearnedIsTrue
  <2> SUFFICES ASSUME LInv PROVE LearnedIsTrue
    OBVIOUS
  <2>1. TypeOK
    <3>1. \A f \in frames : f.to \in On(f.lan) \ {f.from} /\ f.npdu.hops \in 1 .. HopLimit
      BY DEF LInv, IInv, FramesOK, Sound, Addressed, AllTruthful, Truthful, Counted
    <3>2. \A d \in Devices : DOMAIN cache[d] \subseteq Nets
      BY DEF LInv, CachesOK, KnownTo
    <3> QED BY <3>1, <3>2 DEF LInv, IInv, TablesOK, Routes, TypeOK
  <2>2. CachedRouterLeadsThere
    BY DEF LInv, CachesOK, KnownTo, Way, CachedRouterLeadsThere
  <2> QED BY <2>1, <2>2 DEF LInv, NumbersOK, LearnedIsTrue
<1>2. Init => LInv
  BY InitLInv
<1> QED BY <1>1, <1>2, NextLInv, PTL DEF Spec
=============================================================================
