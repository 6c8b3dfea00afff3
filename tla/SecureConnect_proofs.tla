------------------------- MODULE SecureConnect_proofs -------------------------
(***************************************************************************)
(* Proofs of the safety properties of BACnet/SC, for every set of nodes,   *)
(* hubs and addresses, and whatever is cut, stopped and started again.     *)
(***************************************************************************)
EXTENDS SecureConnect, SequenceTheorems, FiniteSetTheorems, TLAPS

-----------------------------------------------------------------------------
(* What the invariants say of one connection.                              *)

Fns == {"eof", "request", "accept", "nak", "disconnect", "ack", "npdu", "resolve",
        "resolved", "result", "heartbeat", "hback"}

Messages == [fn : Fns, orig : VMACs \cup {NULL}, dest : VMACs \cup {ALL, NULL}, npdu : Nat]

Records ==
  [from : Nodes, to : Nodes \cup Hubs, vmac : VMACs, dest : VMACs \cup {NULL},
   peer : VMACs \cup {NULL}, cut : BOOLEAN, st : [Ends -> States], in : [Ends -> Seq(Messages)]]

Open(r, e) == r.st[e] # "IDLE"

(* The ends go through their states in step: a hub that is answering has   *)
(* been left by the node, and one that has accepted is not asked again.    *)
StatesOK(r) ==
  /\ r.from # r.to
  /\ Open(r, "a") \/ Open(r, "b")
  /\ r.st.a \in {"IDLE", "AWAITING_ACCEPT", "CONNECTED"}
  /\ r.st.b \in States \ {"AWAITING_ACCEPT"}
  /\ r.st.b \in {"REPLYING", "DISCONNECTING"} => r.to \in Hubs
  /\ r.st.b = "REPLYING" => r.st.a = "IDLE"
  /\ r.st.a = "CONNECTED" => r.st.b \notin {"AWAITING_REQUEST", "REPLYING"}

(* A cut link holds nothing but what its ends noticed; an end that closes  *)
(* tells the other, and has nothing to read any more.                      *)
SilentOK(r) ==
  /\ r.cut => \A e \in Ends : r.in[e] \in {<<>>, <<EOF>>}
  /\ \A e \in Ends : ~Open(r, e) => r.in[e] = <<>>
  /\ ~r.cut /\ ~Open(r, "a") =>
       r.in.b # <<>> /\ r.in.b[Len(r.in.b)].fn = "eof"

(* What the node reads is what became of the other end.                    *)
ToldOK(r) ==
  /\ \A m \in Range(r.in.a) : m.fn \in {"nak", "eof"} => r.cut \/ ~Open(r, "b")
  /\ \A m \in Range(r.in.a) : m.fn = "accept" => r.st.b \notin {"AWAITING_REQUEST", "REPLYING"}

QueuesOK(r) == SilentOK(r) /\ ToldOK(r)

(* An end that is open belongs to a device that is up, and that still has  *)
(* the VMAC the other end knows.                                           *)
PartiesOK(r, up, addr) ==
  /\ Open(r, "a") => r.from \in up /\ addr[r.from] = r.vmac
  /\ Open(r, "b") => r.to \in up
  /\ r.to \in Nodes /\ Open(r, "b") =>
       /\ r.st.a = "CONNECTED" => r.peer = addr[r.to]
       /\ \A m \in Range(r.in.a) : m.fn = "accept" => m.orig = addr[r.to]

(* A node that a hub is yet to answer, or is answering, and that has left  *)
(* is not back yet.                                                        *)
Late(r) ==
  r.to \in Hubs /\ ~r.cut /\ r.st.a = "IDLE" /\ r.st.b \in {"AWAITING_REQUEST", "REPLYING"}

-----------------------------------------------------------------------------
(* What the tables of a node say.                                          *)

ConnectorOK(n) ==
  LET k == connector[n] IN
  /\ n \notin running => k.at = "down"
  /\ k.woken => k.at = "connected"
  /\ k.at = "waiting" \/ (k.at = "connected" /\ ~k.woken) =>
       /\ k.conn \in DOMAIN conns
       /\ conns[k.conn].from = n /\ conns[k.conn].to \in Hubs
       /\ conns[k.conn].st.a = IF k.at = "waiting" THEN "AWAITING_ACCEPT" ELSE "CONNECTED"

(* The hub connection of a node is the one its connect loop goes by.       *)
Followed(c) ==
  LET r == conns[c]
      k == connector[r.from]
  IN r.to \in Hubs /\ Open(r, "a") => k.conn = c /\ ~k.woken /\ k.at \in {"waiting", "connected"}

DirectOK(n, v) ==
  LET c == direct[n][v]
      r == conns[c]
  IN
  /\ c \in DOMAIN conns
  /\ \/ r.from = n /\ r.to \in Nodes /\ r.st.a = "CONNECTED" /\ r.peer = v
     \/ r.to = n /\ r.st.b = "CONNECTED" /\ r.vmac = v

NodesInv ==
  /\ \A c \in DOMAIN conns : Followed(c) /\ (Prompt /\ Late(conns[c]) => connector[conns[c].from].at = "down")
  /\ \A n \in Nodes : ConnectorOK(n) /\ \A v \in DOMAIN direct[n] : DirectOK(n, v)

-----------------------------------------------------------------------------
(* What the tables of a hub say.                                           *)

Entry(h, v) ==
  LET c == table[h][v] IN
  /\ c \in DOMAIN conns
  /\ conns[c].to = h /\ conns[c].vmac = v /\ conns[c].st.b = "CONNECTED"

(* While a hub is answering, the VMAC is reserved for that handshake, and  *)
(* any entry it has is an old one of the same node.                        *)
Reservation(c) ==
  LET r == conns[c]
      h == r.to
      v == r.vmac
  IN
  h \in Hubs \ lapsed /\ r.st.b = "REPLYING" =>
    /\ v \in pending[h]
    /\ \A d \in DOMAIN conns :
         conns[d].st.b = "REPLYING" /\ conns[d].to = h /\ conns[d].vmac = v => d = c
    /\ v \in DOMAIN table[h] =>
         /\ conns[table[h][v]].from = r.from
         /\ Prompt => conns[table[h][v]].st.a = "IDLE"

(* A connection that a hub has accepted and its node has not left is the   *)
(* one in the table.                                                       *)
Entered(c) ==
  LET r == conns[c] IN
  Prompt /\ r.to \in Hubs \ lapsed /\ ~r.cut /\ Open(r, "a") /\ r.st.b = "CONNECTED" =>
    r.vmac \in DOMAIN table[r.to] /\ table[r.to][r.vmac] = c

HubsInv ==
  /\ \A h \in Hubs : \A v \in DOMAIN table[h] : Entry(h, v)
  /\ ReservationsOwned /\ UuidsCurrent
  /\ \A c \in DOMAIN conns : Reservation(c) /\ Entered(c)

-----------------------------------------------------------------------------
Connectors ==
  [at : Ats, uri : DOMAIN URIs, conn : Ids \cup {NULL}, delay : MinDelay .. MaxDelay,
   woken : BOOLEAN]

Sendings == [from : Nodes, vmac : VMACs, dest : VMACs \cup {ALL}]

ConnTypes ==
  /\ running \subseteq Nodes \cup Hubs /\ vmac \in [Nodes -> VMACs]
  /\ DOMAIN conns \subseteq Ids /\ conns \in [DOMAIN conns -> Records]

HubTypes ==
  /\ DOMAIN table = Hubs /\ DOMAIN uuids = Hubs /\ pending \in [Hubs -> SUBSET VMACs]
  /\ \A h \in Hubs :
       /\ DOMAIN table[h] \subseteq VMACs /\ table[h] = [v \in DOMAIN table[h] |-> table[h][v]]
       /\ DOMAIN uuids[h] \subseteq Nodes /\ uuids[h] = [u \in DOMAIN uuids[h] |-> uuids[h][u]]
  /\ lapsed \subseteq Hubs

NodeTypes ==
  /\ connector \in [Nodes -> Connectors]
  /\ DOMAIN direct = Nodes
  /\ \A n \in Nodes : direct[n] = [v \in DOMAIN direct[n] |-> direct[n][v]]
  /\ DOMAIN asked = Nodes
  /\ \A n \in Nodes : asked[n] \in [DOMAIN asked[n] -> {"open", "set", "cancelled"}]
  /\ sent \in Seq(Sendings)

Types == ConnTypes /\ HubTypes /\ NodeTypes

ConnectionsInv ==
  \A c \in DOMAIN conns : StatesOK(conns[c]) /\ QueuesOK(conns[c]) /\ PartiesOK(conns[c], running, vmac)

ConnInv == Types /\ ConnectionsInv /\ NodesInv /\ HubsInv

-----------------------------------------------------------------------------
(* The operations on the record of a connection, field by field.           *)

\* Nothing but the states and the queues is different.
Alike(q, r) ==
  /\ q.from = r.from /\ q.to = r.to /\ q.vmac = r.vmac /\ q.dest = r.dest
  /\ q.peer = r.peer

LEMMA RecordsFact ==
  ASSUME NEW r
  PROVE  r \in Records <=>
           /\ r = [from |-> r.from, to |-> r.to, vmac |-> r.vmac, dest |-> r.dest,
                   peer |-> r.peer, cut |-> r.cut, st |-> r.st, in |-> r.in]
           /\ r.from \in Nodes /\ r.to \in Nodes \cup Hubs /\ r.vmac \in VMACs
           /\ r.dest \in VMACs \cup {NULL} /\ r.peer \in VMACs \cup {NULL}
           /\ r.cut \in BOOLEAN /\ r.st \in [Ends -> States] /\ r.in \in [Ends -> Seq(Messages)]
<1>. QED  BY DEF Records

\* A record with other states and queues.
Rebuilt(r, s, i) == [r EXCEPT !.st = s, !.in = i]

LEMMA RebuiltFact ==
  ASSUME NEW r \in Records, NEW s \in [Ends -> States], NEW i \in [Ends -> Seq(Messages)]
  PROVE  LET q == Rebuilt(r, s, i) IN
         q \in Records /\ Alike(q, r) /\ q.cut = r.cut /\ q.st = s /\ q.in = i
<1>. DEFINE q == Rebuilt(r, s, i)
<1>1. [r EXCEPT !.st = s] \in Records /\ [r EXCEPT !.st = s].st = s
  BY DEF Records
<1>2. Alike([r EXCEPT !.st = s], r) /\ [r EXCEPT !.st = s].cut = r.cut
  BY DEF Records, Alike
<1>. DEFINE x == [r EXCEPT !.st = s]
<1>. HIDE DEF x
<1>3. q = [x EXCEPT !.in = i] /\ x \in Records /\ x.st = s /\ Alike(x, r) /\ x.cut = r.cut
  BY <1>1, <1>2 DEF x, Rebuilt
<1>. HIDE DEF q
<1>4. q \in Records /\ q.in = i /\ q.st = x.st
  BY <1>3 DEF Records
<1>5. Alike(q, x) /\ q.cut = x.cut
  BY <1>3 DEF Records, Alike
<1>. QED  BY <1>3, <1>4, <1>5 DEF Alike, q

LEMMA EndsFact ==
  ASSUME NEW e \in Ends
  PROVE  Peer(e) \in Ends /\ Peer(e) # e /\ Peer(Peer(e)) = e /\ \A f \in Ends : f = e \/ f = Peer(e)
<1>. QED  BY DEF Ends, Peer

LEMMA QueueType ==
  ASSUME NEW r \in Records, NEW e \in Ends
  PROVE  /\ r.in[e] \in Seq(Messages)
         /\ r.in[e] # <<>> => Head(r.in[e]) \in Messages
<1>1. r.in[e] \in Seq(Messages)
  BY RecordsFact
<1>. QED  BY <1>1, HeadTailProperties

LEMMA MessageTypes ==
  /\ \A fn \in Fns : Plain(fn) \in Messages /\ Plain(fn).fn = fn
  /\ EOF \in Messages /\ EOF.fn = "eof"
  /\ \A fn \in Fns, o \in VMACs \cup {NULL}, d \in VMACs \cup {ALL, NULL}, k \in Nat :
       LET m == Msg(fn, o, d, k) IN
       m \in Messages /\ m.fn = fn /\ m.orig = o /\ m.dest = d /\ m.npdu = k
<1>1. \A fn \in Fns, o \in VMACs \cup {NULL}, d \in VMACs \cup {ALL, NULL}, k \in Nat :
        LET m == Msg(fn, o, d, k) IN
        m \in Messages /\ m.fn = fn /\ m.orig = o /\ m.dest = d /\ m.npdu = k
  BY DEF Msg, Messages
<1>2. \A fn \in Fns : Plain(fn) \in Messages /\ Plain(fn).fn = fn
  BY DEF Plain, Msg, Messages
<1>3. EOF \in Messages /\ EOF.fn = "eof"
  BY <1>2 DEF EOF, Fns
<1>. QED  BY <1>1, <1>2, <1>3

LEMMA TakenFact ==
  ASSUME NEW r \in Records, NEW e \in Ends, r.in[e] # <<>>
  PROVE  LET q == Taken(r, e) IN
         /\ q \in Records /\ Alike(q, r) /\ q.cut = r.cut /\ q.st = r.st
         /\ q.in[Peer(e)] = r.in[Peer(e)] /\ q.in[e] = Tail(r.in[e])
<1>. DEFINE s == SubSeq(r.in[e], 2, Len(r.in[e]))
            q == Taken(r, e)
            i == [r.in EXCEPT ![e] = s]
<1>1. s = Tail(r.in[e]) /\ s \in Seq(Messages)
  BY QueueType, TailIsSubSeq, HeadTailProperties
<1>2. q = Rebuilt(r, r.st, i)
  BY RecordsFact DEF Taken, Rebuilt
<1>. HIDE DEF s
<1>3. i \in [Ends -> Seq(Messages)] /\ i[e] = s /\ i[Peer(e)] = r.in[Peer(e)]
  BY <1>1, EndsFact, RecordsFact
<1>4. r.st \in [Ends -> States]
  BY RecordsFact
<1>. HIDE DEF i, q
<1>5. q \in Records /\ Alike(q, r) /\ q.cut = r.cut /\ q.st = r.st /\ q.in = i
  BY <1>2, <1>3, <1>4, RebuiltFact, ZenonT(30)
<1>. QED  BY <1>1, <1>3, <1>5 DEF q

LEMMA PutFact ==
  ASSUME NEW r \in Records, NEW e \in Ends, NEW m \in Messages
  PROVE  LET q == Put(r, e, m) IN
         /\ q \in Records /\ Alike(q, r) /\ q.cut = r.cut /\ q.st = r.st
         /\ r.cut => q.in[e] = <<EOF>> /\ q.in[Peer(e)] = r.in[Peer(e)]
         /\ ~r.cut => /\ q.in[e] = r.in[e]
                      /\ q.in[Peer(e)] = IF Open(r, Peer(e)) THEN Append(r.in[Peer(e)], m)
                                         ELSE r.in[Peer(e)]
<1>. DEFINE q == Put(r, e, m)
<1>1. /\ r.st \in [Ends -> States] /\ r.in \in [Ends -> Seq(Messages)]
      /\ Peer(e) \in Ends /\ Peer(e) # e
  BY RecordsFact, EndsFact
<1>2. CASE r.cut
  <2>. DEFINE i == [r.in EXCEPT ![e] = <<EOF>>]
  <2>1. q = Rebuilt(r, r.st, i)
    BY <1>2, RecordsFact DEF Put, Rebuilt
  <2>2. i \in [Ends -> Seq(Messages)] /\ i[e] = <<EOF>> /\ i[Peer(e)] = r.in[Peer(e)]
    BY <1>1, MessageTypes
  <2>. HIDE DEF i, q
  <2>3. q \in Records /\ Alike(q, r) /\ q.cut = r.cut /\ q.st = r.st /\ q.in = i
    BY <1>1, <2>1, <2>2, RebuiltFact, ZenonT(30)
  <2>. QED  BY <1>2, <2>2, <2>3 DEF q
<1>3. CASE ~r.cut /\ r.st[Peer(e)] = "IDLE"
  <2>1. q = r
    BY <1>3 DEF Put
  <2>. QED  BY <1>3, <2>1 DEF Alike, Open
<1>4. CASE ~r.cut /\ r.st[Peer(e)] # "IDLE"
  <2>. DEFINE x == Append(r.in[Peer(e)], m)
              i == [r.in EXCEPT ![Peer(e)] = x]
  <2>1. q = Rebuilt(r, r.st, i)
    BY <1>4, RecordsFact DEF Put, Rebuilt
  <2>2. x \in Seq(Messages)
    BY <1>1, AppendProperties
  <2>. HIDE DEF x
  <2>3. i \in [Ends -> Seq(Messages)] /\ i[e] = r.in[e] /\ i[Peer(e)] = x
    BY <1>1, <2>2
  <2>. HIDE DEF i, q
  <2>4. q \in Records /\ Alike(q, r) /\ q.cut = r.cut /\ q.st = r.st /\ q.in = i
    BY <1>1, <2>1, <2>3, RebuiltFact, ZenonT(30)
  <2>. QED  BY <1>4, <2>3, <2>4 DEF q, x, Open
<1>5. r.cut \in BOOLEAN
  BY RecordsFact
<1>. QED  BY <1>2, <1>3, <1>4, <1>5

\* Another state at one end
LEMMA StateFact ==
  ASSUME NEW r \in Records, NEW e \in Ends, NEW s \in States
  PROVE  LET q == [r EXCEPT !.st[e] = s] IN
         /\ q \in Records /\ Alike(q, r) /\ q.cut = r.cut /\ q.in = r.in
         /\ q.st[e] = s /\ q.st[Peer(e)] = r.st[Peer(e)]
<1>. DEFINE q == [r EXCEPT !.st[e] = s]
            t == [r.st EXCEPT ![e] = s]
<1>1. q = Rebuilt(r, t, r.in)
  BY RecordsFact DEF Rebuilt
<1>2. t \in [Ends -> States] /\ t[e] = s /\ t[Peer(e)] = r.st[Peer(e)] /\ r.in \in [Ends -> Seq(Messages)]
  BY EndsFact, RecordsFact
<1>. HIDE DEF t, q
<1>3. q \in Records /\ Alike(q, r) /\ q.cut = r.cut /\ q.st = t /\ q.in = r.in
  BY <1>1, <1>2, RebuiltFact, ZenonT(30)
<1>. QED  BY <1>2, <1>3 DEF q

\* An end that is closed without a word
LEMMA DroppedFact ==
  ASSUME NEW r \in Records, NEW e \in Ends
  PROVE  LET q == [r EXCEPT !.st[e] = "IDLE", !.in[e] = <<>>] IN
         /\ q \in Records /\ Alike(q, r) /\ q.cut = r.cut
         /\ q.st[e] = "IDLE" /\ q.st[Peer(e)] = r.st[Peer(e)]
         /\ q.in[e] = <<>> /\ q.in[Peer(e)] = r.in[Peer(e)]
<1>. DEFINE q == [r EXCEPT !.st[e] = "IDLE", !.in[e] = <<>>]
            t == [r.st EXCEPT ![e] = "IDLE"]
            i == [r.in EXCEPT ![e] = <<>>]
<1>1. q = Rebuilt(r, t, i)
  BY RecordsFact DEF Rebuilt
<1>2. t \in [Ends -> States] /\ t[e] = "IDLE" /\ t[Peer(e)] = r.st[Peer(e)]
  BY EndsFact, RecordsFact DEF States
<1>3. i \in [Ends -> Seq(Messages)] /\ i[e] = <<>> /\ i[Peer(e)] = r.in[Peer(e)]
  BY EndsFact, RecordsFact
<1>. HIDE DEF t, q, i
<1>4. q \in Records /\ Alike(q, r) /\ q.cut = r.cut /\ q.st = t /\ q.in = i
  BY <1>1, <1>2, <1>3, RebuiltFact
<1>. QED  BY <1>2, <1>3, <1>4 DEF q

LEMMA ShutFact ==
  ASSUME NEW r \in Records, NEW e \in Ends
  PROVE  LET q == Shut(r, e) IN
         /\ q \in Records /\ Alike(q, r) /\ q.cut = r.cut
         /\ q.st[e] = "IDLE" /\ q.st[Peer(e)] = r.st[Peer(e)]
         /\ q.in[e] = <<>>
         /\ q.in[Peer(e)] = IF ~r.cut /\ Open(r, e) /\ Open(r, Peer(e))
                            THEN Append(r.in[Peer(e)], EOF) ELSE r.in[Peer(e)]
<1>. DEFINE s == [r EXCEPT !.st[e] = "IDLE", !.in[e] = <<>>]
<1>1. /\ s \in Records /\ Alike(s, r) /\ s.cut = r.cut
      /\ s.st[e] = "IDLE" /\ s.st[Peer(e)] = r.st[Peer(e)]
      /\ s.in[e] = <<>> /\ s.in[Peer(e)] = r.in[Peer(e)]
  BY DroppedFact
<1>2. Shut(r, e) = IF r.cut \/ r.st[e] = "IDLE" THEN s ELSE Put(s, e, EOF)
  BY DEF Shut
<1>. HIDE DEF s
<1>3. CASE r.cut \/ r.st[e] = "IDLE"
  BY <1>1, <1>2, <1>3 DEF Open
<1>4. CASE ~(r.cut \/ r.st[e] = "IDLE")
  <2>. DEFINE q == Put(s, e, EOF)
  <2>1. /\ q \in Records /\ Alike(q, s) /\ q.cut = s.cut /\ q.st = s.st
        /\ q.in[e] = s.in[e]
        /\ q.in[Peer(e)] = IF Open(s, Peer(e)) THEN Append(s.in[Peer(e)], EOF) ELSE s.in[Peer(e)]
    BY <1>1, <1>4, PutFact, MessageTypes
  <2>. HIDE DEF q
  <2>2. Shut(r, e) = q
    BY <1>2, <1>4 DEF q
  <2>. QED  BY <1>1, <1>4, <2>1, <2>2 DEF Alike, Open
<1>. QED  BY <1>3, <1>4

-----------------------------------------------------------------------------
(* What keeps the queues of a connection in order.                         *)

LEMMA AppendFact ==
  ASSUME NEW s \in Seq(Messages), NEW m \in Messages
  PROVE  LET t == Append(s, m) IN
         t \in Seq(Messages) /\ t # <<>> /\ Range(t) = Range(s) \cup {m} /\ t[Len(t)] = m
<1>. DEFINE t == Append(s, m)
<1>1. t \in Seq(Messages) /\ t # <<>> /\ Len(t) = Len(s) + 1 /\ Len(s) \in Nat /\ t[Len(s) + 1] = m
  BY AppendProperties
<1>2. \A i \in 1 .. Len(s) : t[i] = s[i]
  BY AppendProperties
<1>3. DOMAIN t = 1 .. (Len(s) + 1) /\ DOMAIN s = 1 .. Len(s)
  BY <1>1
<1>. HIDE DEF t
<1>4. Range(t) = Range(s) \cup {m}
  BY <1>1, <1>2, <1>3 DEF Range
<1>. QED  BY <1>1, <1>4 DEF t

LEMMA TailFact ==
  ASSUME NEW s \in Seq(Messages), s # <<>>
  PROVE  /\ Tail(s) \in Seq(Messages) /\ Range(Tail(s)) \subseteq Range(s)
         /\ Head(s) \in Range(s)
         /\ Tail(s) = <<>> => Head(s) = s[Len(s)]
         /\ Tail(s) # <<>> => Tail(s)[Len(Tail(s))] = s[Len(s)]
<1>1. /\ Tail(s) \in Seq(Messages) /\ Len(Tail(s)) = Len(s) - 1 /\ Len(s) \in Nat
      /\ \A i \in 1 .. Len(Tail(s)) : Tail(s)[i] = s[i + 1]
  BY HeadTailProperties
<1>2. Len(s) # 0 /\ Head(s) = s[1]
  BY EmptySeq
<1>3. DOMAIN s = 1 .. Len(s) /\ DOMAIN Tail(s) = 1 .. (Len(s) - 1)
  BY <1>1
<1>4. Range(Tail(s)) \subseteq Range(s) /\ Head(s) \in Range(s)
  BY <1>1, <1>2, <1>3 DEF Range
<1>. DEFINE t == Tail(s)
<1>5. t = <<>> => Len(s) = 1
  <2>1. t \in Seq(Messages) /\ Len(t) = Len(s) - 1
    BY <1>1
  <2>2. Len(s) \in Nat
    BY <1>1
  <2>. HIDE DEF t
  <2>3. t = <<>> => Len(t) = 0
    BY <2>1, EmptySeq, Zenon
  <2>. QED  BY ONLY <2>1, <2>2, <2>3
<1>6. Tail(s) # <<>> => Len(s) - 1 \in 1 .. Len(Tail(s))
  BY <1>1, <1>2, EmptySeq
<1>. QED  BY <1>1, <1>2, <1>4, <1>5, <1>6

LEMMA RecordTypes ==
  ASSUME NEW r \in Records
  PROVE  /\ r.from \in Nodes /\ r.to \in Nodes \cup Hubs /\ r.vmac \in VMACs
         /\ r.dest \in VMACs \cup {NULL} /\ r.peer \in VMACs \cup {NULL}
         /\ r.cut \in BOOLEAN /\ r.st.a \in States /\ r.st.b \in States
         /\ r.in.a \in Seq(Messages) /\ r.in.b \in Seq(Messages)
<1>. QED  BY RecordsFact DEF Ends

LEMMA PutSilent ==
  ASSUME NEW r \in Records, NEW e \in Ends, NEW m \in Messages, SilentOK(r), Open(r, e)
  PROVE  /\ SilentOK(Put(r, e, m))
         /\ Range(Put(r, e, m).in.a) \subseteq
              Range(r.in.a) \cup (IF r.cut THEN {EOF} ELSE IF e = "b" THEN {m} ELSE {})
<1>. DEFINE q == Put(r, e, m)
<1>1. /\ q \in Records /\ Alike(q, r) /\ q.cut = r.cut /\ q.st = r.st
      /\ r.cut => q.in[e] = <<EOF>> /\ q.in[Peer(e)] = r.in[Peer(e)]
      /\ ~r.cut => /\ q.in[e] = r.in[e]
                   /\ q.in[Peer(e)] = IF Open(r, Peer(e)) THEN Append(r.in[Peer(e)], m)
                                      ELSE r.in[Peer(e)]
  BY PutFact
<1>. SUFFICES /\ SilentOK(q)
              /\ Range(q.in["a"]) \subseteq
                   Range(r.in["a"]) \cup (IF r.cut THEN {EOF} ELSE IF e = "b" THEN {m} ELSE {})
  OBVIOUS
<1>. HIDE DEF q
<1>2. e \in {"a", "b"} /\ Peer("a") = "b" /\ Peer("b") = "a" /\ Ends = {"a", "b"}
  BY DEF Ends, Peer
<1>3. CASE r.cut
  <2>1. \A f \in Ends : q.in[f] \in {<<>>, <<EOF>>} /\ (~Open(q, f) => q.in[f] = <<>>)
    BY <1>1, <1>2, <1>3 DEF SilentOK, Open
  <2>2. \A x \in Range(q.in["a"]) : x = EOF
    BY <2>1, <1>2 DEF Range
  <2>. QED  BY <1>1, <1>3, <2>1, <2>2 DEF SilentOK
<1>4. CASE ~r.cut
  <2>1. CASE e = "a"
    <3>1. /\ q.in["a"] = r.in["a"] /\ q.st = r.st
          /\ q.in["b"] = r.in["b"] \/ Open(r, "b")
      BY <1>1, <1>2, <1>4, <2>1
    <3>2. Open(r, "a") /\ Open(q, "a")
      BY <1>1, <2>1 DEF Open
    <3>. QED  BY <1>1, <1>2, <1>4, <3>1, <3>2 DEF SilentOK, Open
  <2>2. CASE e = "b"
    <3>1. /\ q.in["b"] = r.in["b"] /\ q.st = r.st
          /\ q.in["a"] = IF Open(r, "a") THEN Append(r.in["a"], m) ELSE r.in["a"]
      BY <1>1, <1>2, <1>4, <2>2
    <3>2. Range(q.in["a"]) \subseteq Range(r.in["a"]) \cup {m}
      BY <3>1, AppendFact, RecordTypes
    <3>3. ~Open(q, "a") => q.in["a"] = <<>>
      BY <3>1, <1>2 DEF SilentOK, Open
    <3>. QED  BY <1>1, <1>2, <1>4, <2>2, <3>1, <3>2, <3>3 DEF SilentOK, Open
  <2>. QED  BY <1>2, <2>1, <2>2
<1>. QED  BY <1>3, <1>4, RecordTypes

LEMMA PutOK ==
  ASSUME NEW r \in Records, NEW e \in Ends, NEW m \in Messages,
         QueuesOK(r), Open(r, e), m.fn \notin {"eof", "nak", "accept"}
  PROVE  QueuesOK(Put(r, e, m))
<1>1. /\ SilentOK(Put(r, e, m))
      /\ Range(Put(r, e, m).in["a"]) \subseteq
           Range(r.in["a"]) \cup (IF r.cut THEN {EOF} ELSE IF e = "b" THEN {m} ELSE {})
  BY PutSilent DEF QueuesOK
<1>2. Put(r, e, m).st = r.st /\ Put(r, e, m).cut = r.cut
  BY PutFact
<1>3. EOF.fn = "eof"
  BY MessageTypes
<1>. QED  BY <1>1, <1>2, <1>3 DEF QueuesOK, ToldOK, Open

LEMMA TakenOK ==
  ASSUME NEW r \in Records, NEW e \in Ends,
         QueuesOK(r), r.in[e] # <<>>, e = "a" \/ Head(r.in[e]).fn # "eof" \/ r.cut \/ Open(r, "a")
  PROVE  QueuesOK(Taken(r, e))
<1>. DEFINE q == Taken(r, e)
<1>1. /\ q \in Records /\ Alike(q, r) /\ q.cut = r.cut /\ q.st = r.st
      /\ q.in[Peer(e)] = r.in[Peer(e)] /\ q.in[e] = Tail(r.in[e])
  BY TakenFact
<1>. SUFFICES QueuesOK(q)
  OBVIOUS
<1>. HIDE DEF q
<1>2. e \in {"a", "b"} /\ Peer("a") = "b" /\ Peer("b") = "a" /\ Ends = {"a", "b"}
  BY DEF Ends, Peer
<1>3. /\ Range(Tail(r.in[e])) \subseteq Range(r.in[e])
      /\ Tail(r.in[e]) = <<>> => Head(r.in[e]) = r.in[e][Len(r.in[e])]
      /\ Tail(r.in[e]) # <<>> => Tail(r.in[e])[Len(Tail(r.in[e]))] = r.in[e][Len(r.in[e])]
  BY TailFact, QueueType
<1>4. r.cut => Tail(r.in[e]) = <<>>
  <2>1. Tail(<<EOF>>) = <<>>
    BY MessageTypes
  <2>. QED  BY <2>1 DEF QueuesOK, SilentOK, ToldOK
<1>5. Open(r, e)
  BY DEF QueuesOK, SilentOK, ToldOK
<1>6. \A f \in Ends : q.cut => q.in[f] \in {<<>>, <<EOF>>}
  BY <1>1, <1>2, <1>4 DEF QueuesOK, SilentOK, ToldOK
<1>7. \A f \in Ends : ~Open(q, f) => q.in[f] = <<>>
  BY <1>1, <1>2, <1>5 DEF QueuesOK, SilentOK, ToldOK, Open
<1>8. Range(q.in["a"]) \subseteq Range(r.in["a"])
  BY <1>1, <1>2, <1>3
<1>9. ~q.cut /\ ~Open(q, "a") => q.in["b"] # <<>> /\ q.in["b"][Len(q.in["b"])].fn = "eof"
  <2>1. CASE e = "a"
    BY <1>1, <1>2, <1>5, <2>1 DEF QueuesOK, SilentOK, ToldOK, Open
  <2>2. CASE e = "b"
    <3>1. q.in["b"] = Tail(r.in["b"])
      BY <1>1, <2>2
    <3>. SUFFICES ASSUME ~r.cut, ~Open(r, "a")
                  PROVE  Tail(r.in["b"]) # <<>> /\ Tail(r.in["b"])[Len(Tail(r.in["b"]))].fn = "eof"
      BY <1>1, <3>1 DEF Open
    <3>2. r.in["b"][Len(r.in["b"])].fn = "eof"
      BY DEF QueuesOK, SilentOK, ToldOK
    <3>. QED  BY <1>3, <2>2, <3>2
  <2>. QED  BY <1>2, <2>1, <2>2
<1>. QED  BY <1>1, <1>6, <1>7, <1>8, <1>9 DEF QueuesOK, SilentOK, ToldOK, Open

LEMMA ShutOK ==
  ASSUME NEW r \in Records, NEW e \in Ends, SilentOK(r), Open(r, Peer(e))
  PROVE  QueuesOK(Shut(r, e))
<1>. DEFINE q == Shut(r, e)
<1>1. /\ q \in Records /\ Alike(q, r) /\ q.cut = r.cut
      /\ q.st[e] = "IDLE" /\ q.st[Peer(e)] = r.st[Peer(e)]
      /\ q.in[e] = <<>>
      /\ q.in[Peer(e)] = IF ~r.cut /\ Open(r, e) /\ Open(r, Peer(e))
                         THEN Append(r.in[Peer(e)], EOF) ELSE r.in[Peer(e)]
  BY ShutFact
<1>. SUFFICES QueuesOK(q)
  OBVIOUS
<1>. HIDE DEF q
<1>2. e \in {"a", "b"} /\ Peer("a") = "b" /\ Peer("b") = "a" /\ Ends = {"a", "b"}
  BY DEF Ends, Peer
<1>3. /\ Append(r.in[Peer(e)], EOF) # <<>> /\ Range(Append(r.in[Peer(e)], EOF)) = Range(r.in[Peer(e)]) \cup {EOF}
      /\ Append(r.in[Peer(e)], EOF)[Len(Append(r.in[Peer(e)], EOF))] = EOF
  BY AppendFact, MessageTypes, QueueType, <1>2
<1>4. EOF.fn = "eof"
  BY MessageTypes
<1>5. CASE e = "a"
  <2>1. Range(q.in["a"]) = {}
    BY <1>1, <1>5 DEF Range
  <2>2. \A f \in Ends : (q.cut => q.in[f] \in {<<>>, <<EOF>>}) /\ (~Open(q, f) => q.in[f] = <<>>)
    BY <1>1, <1>2, <1>5 DEF QueuesOK, SilentOK, ToldOK, Open
  <2>3. ~q.cut => q.in["b"] # <<>> /\ q.in["b"][Len(q.in["b"])].fn = "eof"
    BY <1>1, <1>2, <1>3, <1>4, <1>5 DEF QueuesOK, SilentOK, ToldOK, Open
  <2>. QED  BY <2>1, <2>2, <2>3 DEF QueuesOK, SilentOK, ToldOK
<1>6. CASE e = "b"
  <2>1. Open(q, "a") /\ ~Open(q, "b")
    BY <1>1, <1>2, <1>6 DEF Open
  <2>2. \A f \in Ends : (q.cut => q.in[f] \in {<<>>, <<EOF>>}) /\ (~Open(q, f) => q.in[f] = <<>>)
    BY <1>1, <1>2, <1>6, <2>1 DEF QueuesOK, SilentOK, ToldOK, Open
  <2>. QED  BY <2>1, <2>2 DEF QueuesOK, SilentOK, ToldOK, Open
<1>. QED  BY <1>2, <1>5, <1>6

-----------------------------------------------------------------------------
(* Steps of connections.                                                   *)

Alive(r) == Open(r, "a") \/ Open(r, "b")

\* Every connection c is f[c] now, or is forgotten.
Became(f) ==
  /\ conns' = [c \in DOMAIN conns' |-> conns'[c]]
  /\ DOMAIN conns' = {c \in DOMAIN conns : Alive(f[c])}
  /\ \A c \in DOMAIN conns' : conns'[c] = f[c]

LEMMA StoreFact ==
  ASSUME NEW f, DOMAIN f = DOMAIN conns, Store(f)
  PROVE  Became(f)
<1>1. InUse(f) = {c \in DOMAIN conns : Alive(f[c])}
  BY DEF InUse, Alive, Open, Ends
<1>2. conns' = [c \in InUse(f) |-> f[c]]
  BY DEF Store, Restrict
<1>. QED  BY <1>1, <1>2 DEF Became

LEMMA KeepFact ==
  ASSUME NEW q, NEW c \in DOMAIN conns, Keep(c, q), Types
  PROVE  /\ Became([conns EXCEPT ![c] = q])
         /\ \A d \in DOMAIN conns : [conns EXCEPT ![c] = q][d] = IF d = c THEN q ELSE conns[d]
<1>1. DOMAIN [conns EXCEPT ![c] = q] = DOMAIN conns
  OBVIOUS
<1>2. Became([conns EXCEPT ![c] = q])
  BY <1>1, StoreFact DEF Keep
<1>3. conns = [d \in DOMAIN conns |-> conns[d]]
  BY DEF Types, ConnTypes, HubTypes, NodeTypes
<1>. QED  BY <1>2, <1>3

\* The connections are in order if every one has become one that is.
LEMMA ConnectionsStep ==
  ASSUME NEW f, Became(f), Types,
         \A c \in DOMAIN conns : Alive(f[c]) =>
           /\ f[c] \in Records /\ StatesOK(f[c]) /\ QueuesOK(f[c])
           /\ PartiesOK(f[c], running', vmac')
  PROVE  /\ ConnectionsInv'
         /\ DOMAIN conns' \subseteq DOMAIN conns /\ DOMAIN conns' \subseteq Ids
         /\ conns' \in [DOMAIN conns' -> Records]
<1>1. \A c \in DOMAIN conns' : c \in DOMAIN conns /\ Alive(f[c]) /\ conns'[c] = f[c]
  BY DEF Became
<1>2. ConnectionsInv'
  BY <1>1 DEF ConnectionsInv
<1>3. DOMAIN conns \subseteq Ids
  BY DEF Types, ConnTypes, HubTypes, NodeTypes
<1>. QED  BY <1>1, <1>2, <1>3 DEF Became

\* A connection on which messages were taken or sent, but no Connect-Accept
QuietRec(q, r) ==
  /\ q \in Records /\ Alike(q, r) /\ q.cut = r.cut /\ q.st = r.st
  /\ QueuesOK(q)
  /\ \A m \in Range(q.in.a) : m.fn = "accept" => m \in Range(r.in.a)

LEMMA QuietTaken ==
  ASSUME NEW r \in Records, QueuesOK(r), NEW e \in Ends, r.in[e] # <<>>,
         Head(r.in[e]).fn # "eof"
  PROVE  QuietRec(Taken(r, e), r)
<1>. DEFINE q == Taken(r, e)
<1>1. /\ q \in Records /\ Alike(q, r) /\ q.cut = r.cut /\ q.st = r.st
      /\ q.in[Peer(e)] = r.in[Peer(e)] /\ q.in[e] = Tail(r.in[e])
  BY TakenFact
<1>2. QueuesOK(q)
  BY TakenOK
<1>. SUFFICES QuietRec(q, r)
  OBVIOUS
<1>. HIDE DEF q
<1>3. Range(q.in["a"]) \subseteq Range(r.in["a"])
  BY <1>1, TailFact, QueueType DEF Ends, Peer
<1>. QED  BY <1>1, <1>2, <1>3 DEF QuietRec

LEMMA QuietPut ==
  ASSUME NEW r \in Records, NEW q, QuietRec(q, r), StatesOK(r), NEW e \in Ends, Open(r, e),
         NEW m \in Messages, m.fn \notin {"eof", "nak", "accept"}
  PROVE  QuietRec(Put(q, e, m), r)
<1>. DEFINE p == Put(q, e, m)
<1>1. q \in Records /\ Alike(q, r) /\ q.cut = r.cut /\ q.st = r.st /\ QueuesOK(q)
  BY DEF QuietRec
<1>2. StatesOK(q) /\ Open(q, e)
  BY <1>1 DEF StatesOK, Open, Alike
<1>3. /\ p \in Records /\ Alike(p, q) /\ p.cut = q.cut /\ p.st = q.st
      /\ q.cut => p.in[e] = <<EOF>> /\ p.in[Peer(e)] = q.in[Peer(e)]
      /\ ~q.cut => /\ p.in[e] = q.in[e]
                   /\ p.in[Peer(e)] = IF Open(q, Peer(e)) THEN Append(q.in[Peer(e)], m)
                                      ELSE q.in[Peer(e)]
  BY <1>1, PutFact
<1>4. QueuesOK(p)
  BY <1>1, <1>2, PutOK
<1>. SUFFICES QuietRec(p, r)
  OBVIOUS
<1>. HIDE DEF p
<1>5. Range(p.in["a"]) \subseteq Range(q.in["a"]) \cup {m, EOF}
  <2>1. \A s \in Seq(Messages) : Range(Append(s, m)) = Range(s) \cup {m}
    BY AppendFact
  <2>2. Range(<<EOF>>) = {EOF}
    BY DEF Range
  <2>. QED  BY <1>1, <1>3, <2>1, <2>2, QueueType DEF Ends, Peer
<1>6. EOF.fn # "accept"
  BY MessageTypes
<1>7. \A x \in Range(q.in["a"]) : x.fn = "accept" => x \in Range(r.in["a"])
  BY DEF QuietRec
<1>. QED  BY <1>1, <1>3, <1>4, <1>5, <1>6, <1>7 DEF QuietRec, Alike

LEMMA QuietParties ==
  ASSUME NEW q, NEW r, QuietRec(q, r), StatesOK(r), NEW up, NEW addr, PartiesOK(r, up, addr)
  PROVE  PartiesOK(q, up, addr) /\ StatesOK(q) /\ Alive(q)
<1>. QED  BY DEF QuietRec, StatesOK, PartiesOK, Open, Alike, Alive

\* Nothing but the queues changes: what the tables say still holds.
LEMMA QuietStep ==
  ASSUME ConnInv, NEW f, Became(f),
         \A c \in DOMAIN conns : QuietRec(f[c], conns[c]),
         UNCHANGED <<running, vmac, hubVars, connector, direct>>,
         sent' \in Seq(Sendings), DOMAIN asked' = Nodes,
         \A n \in Nodes : asked'[n] \in [DOMAIN asked'[n] -> {"open", "set", "cancelled"}]
  PROVE  ConnInv'
<1>1. \A c \in DOMAIN conns :
        /\ conns[c] \in Records /\ StatesOK(conns[c]) /\ QueuesOK(conns[c])
        /\ PartiesOK(conns[c], running, vmac)
  BY DEF ConnInv, Types, ConnTypes, HubTypes, NodeTypes, ConnectionsInv
<1>2. \A c \in DOMAIN conns :
        /\ f[c] \in Records /\ StatesOK(f[c]) /\ QueuesOK(f[c]) /\ Alive(f[c])
        /\ PartiesOK(f[c], running', vmac')
  BY <1>1, QuietParties DEF QuietRec
<1>3. /\ ConnectionsInv' /\ DOMAIN conns' \subseteq Ids
      /\ conns' \in [DOMAIN conns' -> Records]
  BY <1>2, ConnectionsStep DEF ConnInv
<1>4. DOMAIN conns' = DOMAIN conns
  BY <1>2 DEF Became
<1>5. \A c \in DOMAIN conns :
        /\ conns'[c].from = conns[c].from /\ conns'[c].to = conns[c].to
        /\ conns'[c].vmac = conns[c].vmac /\ conns'[c].peer = conns[c].peer
        /\ conns'[c].cut = conns[c].cut /\ conns'[c].st = conns[c].st
  BY <1>4 DEF Became, QuietRec, Alike
<1>6. Types'
  BY <1>3 DEF ConnInv, Types, ConnTypes, HubTypes, NodeTypes, hubVars
<1>7. NodesInv'
  <2>. USE <1>4, <1>5 DEF ConnInv, NodesInv
  <2>1. \A c \in DOMAIN conns : Followed(c)'
    BY DEF Followed, Open
  <2>2. \A c \in DOMAIN conns : (Prompt /\ Late(conns[c]) => connector[conns[c].from].at = "down")'
    BY DEF Late
  <2>3. \A n \in Nodes : ConnectorOK(n)'
    BY DEF ConnectorOK
  <2>4. \A n \in Nodes : \A v \in DOMAIN direct[n] : DirectOK(n, v)'
    BY DEF DirectOK
  <2>. QED  BY <2>1, <2>2, <2>3, <2>4
<1>8. HubsInv'
  <2>. USE <1>4, <1>5 DEF ConnInv, HubsInv, hubVars
  <2>1. \A h \in Hubs : \A v \in DOMAIN table[h] : Entry(h, v)'
    BY DEF Entry
  <2>2. ReservationsOwned'
    BY DEF ReservationsOwned
  <2>3. UuidsCurrent'
    BY DEF UuidsCurrent, Connected
  <2>4. \A c \in DOMAIN conns : Reservation(c)'
    <3>1. \A h \in Hubs : \A v \in DOMAIN table[h] : table[h][v] \in DOMAIN conns
      BY DEF Entry
    <3>. TAKE c \in DOMAIN conns
    <3>2. Reservation(c)
      OBVIOUS
    <3>. QED  BY <3>1, <3>2, SMTT(30) DEF Reservation
  <2>5. \A c \in DOMAIN conns : Entered(c)'
    BY DEF Entered, Open
  <2>. QED  BY <2>1, <2>2, <2>3, <2>4, <2>5
<1>. QED  BY <1>3, <1>6, <1>7, <1>8 DEF ConnInv

\* The same, if it is one connection.
LEMMA QuietKeep ==
  ASSUME ConnInv, NEW c \in DOMAIN conns, NEW q, Keep(c, q), QuietRec(q, conns[c]),
         UNCHANGED <<running, vmac, hubVars, connector, direct>>,
         sent' \in Seq(Sendings), DOMAIN asked' = Nodes,
         \A n \in Nodes : asked'[n] \in [DOMAIN asked'[n] -> {"open", "set", "cancelled"}]
  PROVE  ConnInv'
<1>. DEFINE f == [conns EXCEPT ![c] = q]
<1>1. Became(f) /\ \A d \in DOMAIN conns : f[d] = IF d = c THEN q ELSE conns[d]
  BY KeepFact DEF ConnInv
<1>2. \A d \in DOMAIN conns : conns[d] \in Records /\ QueuesOK(conns[d])
  BY DEF ConnInv, Types, ConnTypes, HubTypes, NodeTypes, ConnectionsInv
<1>3. \A d \in DOMAIN conns : QuietRec(f[d], conns[d])
  BY <1>1, <1>2 DEF QuietRec, Alike
<1>. HIDE DEF f
<1>. QED  BY <1>1, <1>3, QuietStep

-----------------------------------------------------------------------------
(* What only moves messages.                                               *)

\* What the invariants say of each connection
LEMMA Known ==
  ASSUME ConnInv
  PROVE  /\ \A c \in DOMAIN conns :
              /\ conns[c] \in Records /\ StatesOK(conns[c]) /\ QueuesOK(conns[c])
              /\ PartiesOK(conns[c], running, vmac)
         /\ vmac \in [Nodes -> VMACs]
         /\ DOMAIN asked = Nodes /\ sent \in Seq(Sendings)
         /\ \A n \in Nodes : asked[n] \in [DOMAIN asked[n] -> {"open", "set", "cancelled"}]
<1>. QED  BY DEF ConnInv, Types, ConnTypes, HubTypes, NodeTypes, ConnectionsInv

LEMMA QuietSame ==
  ASSUME NEW r \in Records, QueuesOK(r)
  PROVE  QuietRec(r, r)
<1>. QED  BY DEF QuietRec, Alike

LEMMA HeartbeatStep ==
  ASSUME ConnInv, NEW c \in DOMAIN conns, heartbeat(c)
  PROVE  ConnInv'
<1>. DEFINE r == conns[c]
            q == Put(r, "a", Plain("heartbeat"))
<1>1. r \in Records /\ StatesOK(r) /\ QueuesOK(r) /\ sent \in Seq(Sendings)
  BY Known
<1>2. Open(r, "a") /\ Keep(c, q)
  BY DEF heartbeat, HeartbeatEnd, Open
<1>3. Plain("heartbeat") \in Messages /\ Plain("heartbeat").fn = "heartbeat"
  BY MessageTypes DEF Fns
<1>4. QuietRec(r, r)
  BY <1>1, QuietSame
<1>5. QuietRec(q, r)
  BY <1>1, <1>2, <1>3, <1>4, QuietPut DEF Ends
<1>. QED  BY <1>1, <1>2, <1>5, QuietKeep, Known DEF heartbeat, nodeVars, history

LEMMA ReceiveHeartbeatStep ==
  ASSUME ConnInv, NEW c \in DOMAIN conns, NEW e \in Ends, receive_heartbeat(c, e)
  PROVE  ConnInv'
<1>. DEFINE r == conns[c]
            t == Taken(r, e)
<1>1. r \in Records /\ StatesOK(r) /\ QueuesOK(r) /\ sent \in Seq(Sendings)
  BY Known
<1>2. Open(r, e) /\ r.in[e] # <<>> /\ Head(r.in[e]).fn # "eof"
  BY DEF receive_heartbeat, Open, Heads
<1>3. QuietRec(t, r)
  BY <1>1, <1>2, QuietTaken
<1>4. Plain("hback") \in Messages /\ Plain("hback").fn = "hback"
  BY MessageTypes DEF Fns
<1>5. QuietRec(Put(t, e, Plain("hback")), r)
  BY <1>1, <1>2, <1>3, <1>4, QuietPut
<1>. QED  BY <1>1, <1>3, <1>5, QuietKeep, Known DEF receive_heartbeat, nodeVars, history

\* NPDUs that a network layer is given
LEMMA NpduStep ==
  ASSUME ConnInv, NEW c \in DOMAIN conns, hub_npdu(c) \/ \E e \in Ends : direct_npdu(c, e)
  PROVE  ConnInv'
<1>. DEFINE r == conns[c]
<1>1. r \in Records /\ StatesOK(r) /\ QueuesOK(r) /\ sent \in Seq(Sendings)
  BY Known
<1>2. PICK e \in Ends : /\ Keep(c, Taken(r, e)) /\ r.in[e] # <<>> /\ Head(r.in[e]).fn # "eof"
                        /\ UNCHANGED <<running, vmac, hubVars, nodeVars, sent>>
  BY DEF hub_npdu, direct_npdu, Heads, Ends
<1>3. QuietRec(Taken(r, e), r)
  BY <1>1, <1>2, QuietTaken
<1>. QED  BY <1>1, <1>2, <1>3, QuietKeep, Known DEF nodeVars

LEMMA HubResolveStep ==
  ASSUME ConnInv, NEW c \in DOMAIN conns, hub_resolve(c)
  PROVE  ConnInv'
<1>. DEFINE r == conns[c]
            t == Taken(r, "a")
            m == Msg(IF r.from \in Switches THEN "resolved" ELSE "result", vmac[r.from],
                     Head(r.in.a).orig, 0)
<1>1. r \in Records /\ StatesOK(r) /\ QueuesOK(r) /\ sent \in Seq(Sendings)
  BY Known
<1>2. Open(r, "a") /\ r.in["a"] # <<>> /\ Head(r.in["a"]).fn # "eof"
  BY DEF hub_resolve, Open, Heads, Connected
<1>3. QuietRec(t, r)
  BY <1>1, <1>2, QuietTaken DEF Ends
<1>4. r.from \in Nodes /\ Head(r.in["a"]) \in Messages
  BY <1>1, <1>2, RecordTypes, QueueType DEF Ends
<1>5. vmac[r.from] \in VMACs /\ Head(r.in["a"]).orig \in VMACs \cup {NULL}
  BY <1>4, Known DEF Messages
<1>6. m \in Messages /\ m.fn \notin {"eof", "nak", "accept"}
  <2>. DEFINE fn == IF r.from \in Switches THEN "resolved" ELSE "result"
  <2>1. fn \in Fns /\ fn \notin {"eof", "nak", "accept"}
    BY DEF Fns
  <2>. HIDE DEF fn
  <2>2. \A d \in VMACs \cup {ALL, NULL} : Msg(fn, vmac[r.from], d, 0) \in Messages /\ Msg(fn, vmac[r.from], d, 0).fn = fn
    BY <1>5, <2>1, MessageTypes
  <2>. QED  BY <1>5, <2>1, <2>2 DEF fn
<1>. HIDE DEF m
<1>7. QuietRec(Put(t, "a", m), r)
  BY <1>1, <1>2, <1>3, <1>6, QuietPut DEF Ends
<1>8. Keep(c, Put(t, "a", m)) /\ UNCHANGED <<running, vmac, hubVars, nodeVars, history>>
  BY DEF hub_resolve, m
<1>. QED  BY <1>1, <1>7, <1>8, QuietKeep, Known DEF nodeVars, history

LEMMA HubResolvedStep ==
  ASSUME ConnInv, NEW c \in DOMAIN conns, hub_resolved(c)
  PROVE  ConnInv'
<1>. DEFINE r == conns[c]
            n == r.from
            v == Head(r.in.a).orig
<1>1. r \in Records /\ StatesOK(r) /\ QueuesOK(r) /\ sent \in Seq(Sendings)
  BY Known
<1>2. /\ r.in["a"] # <<>> /\ Head(r.in["a"]).fn # "eof"
      /\ Keep(c, Taken(r, "a")) /\ UNCHANGED <<running, vmac, hubVars, connector, direct, history>>
  BY DEF hub_resolved, Heads
<1>3. QuietRec(Taken(r, "a"), r)
  BY <1>1, <1>2, QuietTaken DEF Ends
<1>4. \/ UNCHANGED asked
      \/ v \in DOMAIN asked[n] /\ asked' = [asked EXCEPT ![n][v] = "set"]
  BY DEF hub_resolved
<1>5. /\ DOMAIN asked' = Nodes
      /\ \A o \in Nodes : asked'[o] \in [DOMAIN asked'[o] -> {"open", "set", "cancelled"}]
  BY <1>4, Known
<1>. QED  BY <1>1, <1>2, <1>3, <1>5, QuietKeep DEF history

LEMMA ResolveStep ==
  ASSUME ConnInv, NEW n \in Nodes, NEW v \in VMACs,
         resolve_address(n, v) \/ resolution_timeout(n, v) \/ resolution_ends(n, v)
  PROVE  ConnInv'
<1>1. CASE resolve_address(n, v)
  <2>. DEFINE c == connector[n].conn
              r == conns[c]
              m == Msg("resolve", vmac[n], v, 0)
  <2>1. /\ c \in DOMAIN conns /\ Open(r, "a") /\ Keep(c, Put(r, "a", m))
        /\ UNCHANGED <<running, vmac, hubVars, connector, direct, sent>>
        /\ asked' = [asked EXCEPT ![n] = With(@, v, "open")]
    BY <1>1 DEF resolve_address, is_connected, Connected, Open
  <2>2. r \in Records /\ StatesOK(r) /\ QueuesOK(r) /\ sent \in Seq(Sendings)
    BY <2>1, Known
  <2>3. vmac[n] \in VMACs
    BY Known
  <2>4. m \in Messages /\ m.fn = "resolve"
    BY <2>3, MessageTypes DEF Fns
  <2>5. QuietRec(r, r)
    BY <2>2, QuietSame
  <2>6. QuietRec(Put(r, "a", m), r)
    BY <2>1, <2>2, <2>4, <2>5, QuietPut DEF Ends
  <2>7. /\ DOMAIN asked' = Nodes
        /\ \A o \in Nodes : asked'[o] \in [DOMAIN asked'[o] -> {"open", "set", "cancelled"}]
    <3>. DEFINE g == With(asked[n], v, "open")
    <3>1. /\ DOMAIN g = {v} \cup DOMAIN asked[n] /\ g[v] = "open"
          /\ \A z \in DOMAIN asked[n] \ {v} : g[z] = asked[n][z]
          /\ g = [z \in DOMAIN g |-> g[z]]
      BY DEF With
    <3>2. asked' = [asked EXCEPT ![n] = g]
      BY <2>1
    <3>. HIDE DEF g
    <3>3. g \in [DOMAIN g -> {"open", "set", "cancelled"}]
      BY <3>1, Known
    <3>. QED  BY <3>2, <3>3, Known
  <2>. HIDE DEF m
  <2>. QED  BY <2>1, <2>2, <2>6, <2>7, QuietKeep
<1>2. CASE resolution_timeout(n, v) \/ resolution_ends(n, v)
  <2>1. UNCHANGED <<running, vmac, conns, hubVars, connector, direct, history>>
    BY <1>2 DEF resolution_timeout, resolution_ends
  <2>2. /\ DOMAIN asked' = Nodes
        /\ \A o \in Nodes : asked'[o] \in [DOMAIN asked'[o] -> {"open", "set", "cancelled"}]
    BY <1>2, Known DEF resolution_timeout, resolution_ends, Without, Restrict
  <2>3. Became(conns)
    BY <2>1 DEF Became, ConnInv, ConnectionsInv, StatesOK, Alive, Types, ConnTypes, HubTypes, NodeTypes
  <2>4. \A c \in DOMAIN conns : QuietRec(conns[c], conns[c])
    BY Known, QuietSame
  <2>. QED  BY <2>1, <2>2, <2>3, <2>4, QuietStep, Known DEF history
<1>. QED  BY <1>1, <1>2

\* The hub forwards, or drops, what a node sent it.
LEMMA NodeMessageStep ==
  ASSUME ConnInv, NEW c \in DOMAIN conns, node_message(c)
  PROVE  ConnInv'
<1>. DEFINE r == Taken(conns[c], "b")
            m == Head(conns[c].in.b)
            out == rewrite_for_hub(m, r.vmac)
            cs == [conns EXCEPT ![c] = r]
            to == forwarded_to(r.to, r.vmac, m.dest)
            f == [d \in DOMAIN cs |-> IF d \in to THEN Put(cs[d], "b", out) ELSE cs[d]]
<1>1. /\ conns[c] \in Records /\ StatesOK(conns[c]) /\ QueuesOK(conns[c])
      /\ conns[c].in["b"] # <<>> /\ m.fn \in {"npdu", "resolve", "resolved", "result"}
      /\ Store(f) \/ Store(cs)
      /\ UNCHANGED <<running, vmac, hubVars, nodeVars, history>>
      /\ r.to \in Hubs
  BY Known DEF node_message, Heads
<1>2. QuietRec(r, conns[c])
  BY <1>1, QuietTaken DEF Ends
<1>3. m \in Messages /\ r.vmac \in VMACs
  BY <1>1, <1>2, QueueType, RecordTypes DEF Ends, QuietRec
<1>4. out \in Messages /\ out.fn \notin {"eof", "nak", "accept"}
  <2>1. out \in Messages
    BY <1>3 DEF rewrite_for_hub, Messages
  <2>2. out.fn = m.fn
    BY <1>3 DEF rewrite_for_hub, Messages
  <2>. QED  BY <1>1, <2>1, <2>2
<1>. HIDE DEF r, m, out
<1>5. DOMAIN cs = DOMAIN conns /\ DOMAIN f = DOMAIN conns
  OBVIOUS
<1>6. \A d \in DOMAIN conns : cs[d] = IF d = c THEN r ELSE conns[d]
  BY DEF ConnInv, Types, ConnTypes, HubTypes, NodeTypes
<1>. HIDE DEF cs
<1>7. \A d \in DOMAIN conns : f[d] = IF d \in to THEN Put(cs[d], "b", out) ELSE cs[d]
  BY <1>5
<1>8. \A d \in to : d \in DOMAIN conns /\ Open(conns[d], "b")
  BY DEF forwarded_to, Connected, Open
<1>. HIDE DEF f, to
<1>9. \A d \in DOMAIN conns : QuietRec(cs[d], conns[d])
  BY <1>2, <1>6, Known, QuietSame
<1>10. \A d \in DOMAIN conns : QuietRec(f[d], conns[d])
  BY <1>4, <1>7, <1>8, <1>9, Known, QuietPut DEF Ends
<1>11. Became(f) \/ Became(cs)
  BY <1>1, <1>5, StoreFact
<1>. QED  BY <1>1, <1>9, <1>10, <1>11, QuietStep, Known DEF nodeVars, history

\* An NPDU goes out, by the hub or by a direct connection.
LEMMA SendStep ==
  ASSUME ConnInv, NEW n \in Nodes,
         send_broadcast(n) \/ \E v \in VMACs : send_unicast(n, v)
  PROVE  ConnInv'
<1>1. /\ sent \in Seq(Sendings) /\ vmac[n] \in VMACs
  BY Known
<1>2. PICK v \in VMACs \cup {ALL} :
        /\ ViaHub(n, v) \/ (ViaDirect(n, v) /\ has_direct(n, v))
        /\ Sending(n, v)
  BY DEF send_broadcast, send_unicast
<1>3. UNCHANGED <<running, vmac, hubVars, nodeVars>> /\ sent' \in Seq(Sendings)
  <2>. DEFINE x == [from |-> n, vmac |-> vmac[n], dest |-> v]
  <2>1. x \in Sendings
    BY <1>1 DEF Sendings
  <2>. HIDE DEF x
  <2>2. Append(sent, x) \in Seq(Sendings)
    BY <1>1, <2>1, AppendProperties
  <2>. QED  BY <1>2, <2>2 DEF Sending, x
<1>4. Len(sent) + 1 \in Nat
  BY <1>1, LenProperties
<1>5. PICK c \in DOMAIN conns, e \in Ends, m \in Messages :
        Open(conns[c], e) /\ m.fn = "npdu" /\ Keep(c, Put(conns[c], e, m))
  <2>1. CASE ViaHub(n, v)
    <3>. DEFINE m == Msg("npdu", vmac[n], v, Len(sent) + 1)
    <3>1. m \in Messages /\ m.fn = "npdu"
      BY <1>1, <1>4 DEF Msg, Messages, Fns
    <3>2. connector[n].conn \in DOMAIN conns /\ Open(conns[connector[n].conn], "a")
      BY <2>1 DEF ViaHub, is_connected, Connected, Open
    <3>. QED  BY <2>1, <3>1, <3>2 DEF ViaHub, Ends
  <2>2. CASE ViaDirect(n, v) /\ has_direct(n, v)
    <3>. DEFINE m == Msg("npdu", NULL, NULL, Len(sent) + 1)
    <3>1. m \in Messages /\ m.fn = "npdu"
      BY <1>4 DEF Msg, Messages, Fns
    <3>2. /\ direct[n][v] \in DOMAIN conns /\ DirectEnd(n, v) \in Ends
          /\ Open(conns[direct[n][v]], DirectEnd(n, v))
      BY <2>2 DEF has_direct, Connected, Open, DirectEnd, Ends
    <3>. QED  BY <2>2, <3>1, <3>2 DEF ViaDirect
  <2>. QED  BY <1>2, <2>1, <2>2
<1>6. conns[c] \in Records /\ StatesOK(conns[c]) /\ QueuesOK(conns[c])
  BY Known
<1>7. QuietRec(Put(conns[c], e, m), conns[c])
  BY <1>5, <1>6, QuietSame, QuietPut
<1>. QED  BY <1>3, <1>5, <1>7, QuietKeep, Known DEF nodeVars

-----------------------------------------------------------------------------
(* Steps that leave the tables of the hubs, or of the nodes, alone.        *)

Near(q, r) == q.from = r.from /\ q.to = r.to /\ q.vmac = r.vmac

\* The connections a hub has accepted, and those it is answering, stay so;
\* a node may leave.
HubSame(q, r) ==
  /\ Near(q, r) /\ q.cut \in BOOLEAN
  /\ r.cut => q.cut
  /\ Open(q, "a") => Open(r, "a")
  /\ r.to \in Hubs => /\ q.st.b = "CONNECTED" <=> r.st.b = "CONNECTED"
                      /\ q.st.b = "REPLYING" <=> r.st.b = "REPLYING"

LEMMA HubsStep ==
  ASSUME ConnInv, NEW f, Became(f), \A c \in DOMAIN conns : HubSame(f[c], conns[c]),
         UNCHANGED hubVars
  PROVE  HubsInv'
<1>. USE DEF hubVars
<1>1. \A c \in DOMAIN conns' : c \in DOMAIN conns /\ conns'[c] = f[c]
  BY DEF Became
<1>2. \A c \in DOMAIN conns : conns[c].to \in Hubs /\ conns[c].st.b \in {"CONNECTED", "REPLYING"} =>
        c \in DOMAIN conns' /\ conns'[c].st.b = conns[c].st.b
  <2>1. \A c \in DOMAIN conns : conns[c].to \in Hubs /\ conns[c].st.b \in {"CONNECTED", "REPLYING"} =>
          f[c].st.b = conns[c].st.b
    BY DEF HubSame
  <2>2. \A c \in DOMAIN conns : conns[c].to \in Hubs /\ conns[c].st.b \in {"CONNECTED", "REPLYING"} =>
          Alive(f[c])
    BY <2>1 DEF Alive, Open
  <2>. QED  BY <2>1, <2>2 DEF Became
<1>3. \A c \in DOMAIN conns' :
        /\ conns'[c].from = conns[c].from /\ conns'[c].to = conns[c].to
        /\ conns'[c].vmac = conns[c].vmac
        /\ Open(conns'[c], "a") => Open(conns[c], "a")
        /\ ~conns'[c].cut => ~conns[c].cut
        /\ conns[c].to \in Hubs => /\ conns'[c].st.b = "CONNECTED" <=> conns[c].st.b = "CONNECTED"
                                   /\ conns'[c].st.b = "REPLYING" <=> conns[c].st.b = "REPLYING"
  <2>. TAKE c \in DOMAIN conns'
  <2>1. c \in DOMAIN conns /\ conns'[c] = f[c] /\ HubSame(f[c], conns[c])
    BY <1>1
  <2>. QED  BY <2>1 DEF HubSame, Near
<1>4. \A h \in Hubs : \A v \in DOMAIN table[h] :
        /\ table[h][v] \in DOMAIN conns /\ table[h][v] \in DOMAIN conns'
        /\ conns[table[h][v]].to = h /\ conns[table[h][v]].vmac = v
        /\ conns'[table[h][v]].to = h /\ conns'[table[h][v]].vmac = v
        /\ conns'[table[h][v]].st.b = "CONNECTED"
  BY <1>2, <1>3 DEF ConnInv, HubsInv, Entry
<1>5. \A h \in Hubs : \A v \in DOMAIN table'[h] : Entry(h, v)'
  BY <1>4 DEF Entry
<1>6. ReservationsOwned'
  <2>1. ReservationsOwned
    BY DEF ConnInv, HubsInv
  <2>. QED  BY <1>2, <1>3, <2>1 DEF ReservationsOwned
<1>7. UuidsCurrent'
  <2>1. UuidsCurrent
    BY DEF ConnInv, HubsInv
  <2>. QED  BY <1>3, <1>4, <2>1 DEF UuidsCurrent, Connected
<1>8. \A c \in DOMAIN conns' : Reservation(c)'
  <2>. TAKE c \in DOMAIN conns'
  <2>1. c \in DOMAIN conns /\ Reservation(c)
    BY <1>1 DEF ConnInv, HubsInv
  <2>. QED  BY <1>1, <1>3, <1>4, <2>1 DEF Reservation, Open
<1>9. \A c \in DOMAIN conns' : Entered(c)'
  <2>. TAKE c \in DOMAIN conns'
  <2>1. c \in DOMAIN conns /\ Entered(c)
    BY <1>1 DEF ConnInv, HubsInv
  <2>. QED  BY <1>3, <2>1 DEF Entered
<1>. QED  BY <1>5, <1>6, <1>7, <1>8, <1>9 DEF HubsInv

\* The connections a node has dialled are as they were, and so are the
\* direct ones it has accepted.
NodeSame(q, r) ==
  /\ Near(q, r) /\ q.peer = r.peer
  /\ q.st.a = r.st.a
  /\ r.to \in Nodes /\ r.st.b = "CONNECTED" => q.st.b = "CONNECTED"
  /\ Late(q) => Late(r)

LEMMA NodesStep ==
  ASSUME ConnInv, NEW f, Became(f), \A c \in DOMAIN conns : NodeSame(f[c], conns[c]),
         UNCHANGED <<connector, direct>>, \A n \in Nodes : n \in running => n \in running'
  PROVE  NodesInv'
<1>1. \A c \in DOMAIN conns' : c \in DOMAIN conns /\ conns'[c] = f[c]
  BY DEF Became
<1>2. \A c \in DOMAIN conns' :
        /\ conns'[c].from = conns[c].from /\ conns'[c].to = conns[c].to
        /\ conns'[c].vmac = conns[c].vmac /\ conns'[c].peer = conns[c].peer
        /\ conns'[c].st.a = conns[c].st.a
        /\ conns[c].to \in Nodes /\ conns[c].st.b = "CONNECTED" => conns'[c].st.b = "CONNECTED"
        /\ Late(conns'[c]) => Late(conns[c])
  <2>. TAKE c \in DOMAIN conns'
  <2>1. c \in DOMAIN conns /\ conns'[c] = f[c] /\ NodeSame(f[c], conns[c])
    BY <1>1
  <2>. QED  BY <2>1 DEF NodeSame, Near
<1>3. \A c \in DOMAIN conns :
        conns[c].st.a # "IDLE" \/ (conns[c].to \in Nodes /\ conns[c].st.b = "CONNECTED") =>
          c \in DOMAIN conns'
  BY DEF Became, NodeSame, Alive, Open
<1>4. \A c \in DOMAIN conns' :
        Followed(c)' /\ (Prompt /\ Late(conns'[c]) => connector'[conns'[c].from].at = "down")
  <2>. TAKE c \in DOMAIN conns'
  <2>1. c \in DOMAIN conns /\ Followed(c) /\ (Prompt /\ Late(conns[c]) => connector[conns[c].from].at = "down")
    BY <1>1 DEF ConnInv, NodesInv
  <2>. QED  BY <1>2, <2>1 DEF Followed, Open
<1>5. \A n \in Nodes : ConnectorOK(n)'
  <2>. TAKE n \in Nodes
  <2>1. ConnectorOK(n)
    BY DEF ConnInv, NodesInv
  <2>. QED  BY <1>2, <1>3, <2>1 DEF ConnectorOK
<1>6. \A n \in Nodes : \A v \in DOMAIN direct'[n] : DirectOK(n, v)'
  <2>. TAKE n \in Nodes
  <2>. TAKE v \in DOMAIN direct'[n]
  <2>1. DirectOK(n, v)
    BY DEF ConnInv, NodesInv
  <2>. QED  BY <1>2, <1>3, <2>1 DEF DirectOK
<1>. QED  BY <1>4, <1>5, <1>6 DEF NodesInv

\* One connection changes, or ends.
LEMMA OneConnection ==
  ASSUME ConnInv, NEW c \in DOMAIN conns, NEW q, Keep(c, q), UNCHANGED <<running, vmac>>,
         Alive(q) => /\ q \in Records /\ StatesOK(q) /\ QueuesOK(q)
                     /\ PartiesOK(q, running, vmac)
  PROVE  /\ ConnectionsInv'
         /\ DOMAIN conns' \subseteq DOMAIN conns /\ DOMAIN conns' \subseteq Ids
         /\ conns' \in [DOMAIN conns' -> Records]
         /\ \A d \in DOMAIN conns : d # c => d \in DOMAIN conns' /\ conns'[d] = conns[d]
         /\ c \in DOMAIN conns' <=> Alive(q)
         /\ c \in DOMAIN conns' => conns'[c] = q
         /\ HubSame(q, conns[c]) /\ UNCHANGED hubVars => HubsInv'
         /\ NodeSame(q, conns[c]) /\ UNCHANGED <<connector, direct>> => NodesInv'
<1>. DEFINE f == [conns EXCEPT ![c] = q]
<1>1. Became(f) /\ \A d \in DOMAIN conns : f[d] = IF d = c THEN q ELSE conns[d]
  BY KeepFact DEF ConnInv
<1>. HIDE DEF f
<1>2. \A d \in DOMAIN conns :
        /\ conns[d] \in Records /\ StatesOK(conns[d]) /\ QueuesOK(conns[d])
        /\ PartiesOK(conns[d], running, vmac) /\ Alive(conns[d])
  BY Known DEF StatesOK, Alive
<1>3. /\ ConnectionsInv'
      /\ DOMAIN conns' \subseteq DOMAIN conns /\ DOMAIN conns' \subseteq Ids
      /\ conns' \in [DOMAIN conns' -> Records]
  BY <1>1, <1>2, ConnectionsStep DEF ConnInv
<1>4. /\ \A d \in DOMAIN conns : d # c => d \in DOMAIN conns' /\ conns'[d] = conns[d]
      /\ c \in DOMAIN conns' <=> Alive(q)
      /\ c \in DOMAIN conns' => conns'[c] = q
  BY <1>1, <1>2 DEF Became
<1>5. \A d \in DOMAIN conns : HubSame(conns[d], conns[d]) /\ NodeSame(conns[d], conns[d])
  BY <1>2, RecordTypes DEF HubSame, NodeSame, Near
<1>6. HubSame(q, conns[c]) /\ UNCHANGED hubVars => HubsInv'
  BY <1>1, <1>5, HubsStep
<1>7. NodeSame(q, conns[c]) /\ UNCHANGED <<connector, direct>> => NodesInv'
  BY <1>1, <1>5, NodesStep
<1>. QED  BY <1>3, <1>4, <1>6, <1>7

\* Only queues and one state change, and no table.
LEMMA PlainStep ==
  ASSUME ConnInv, NEW c \in DOMAIN conns, NEW q, Keep(c, q),
         Alive(q) => /\ q \in Records /\ StatesOK(q) /\ QueuesOK(q)
                     /\ PartiesOK(q, running, vmac),
         HubSame(q, conns[c]), NodeSame(q, conns[c]),
         UNCHANGED <<running, vmac, hubVars, nodeVars, sent>>
  PROVE  ConnInv'
<1>1. /\ ConnectionsInv' /\ DOMAIN conns' \subseteq Ids /\ conns' \in [DOMAIN conns' -> Records]
      /\ HubsInv' /\ NodesInv'
  BY OneConnection DEF nodeVars
<1>2. Types'
  BY <1>1 DEF ConnInv, Types, ConnTypes, HubTypes, NodeTypes, hubVars, nodeVars
<1>. QED  BY <1>1, <1>2 DEF ConnInv

LEMMA PartiesStay ==
  ASSUME NEW r, NEW q, NEW up, NEW addr, PartiesOK(r, up, addr), Near(q, r), q.peer = r.peer,
         \A e \in Ends : Open(q, e) => Open(r, e),
         q.st.a = "CONNECTED" => r.st.a = "CONNECTED",
         \A m \in Range(q.in.a) : m.fn = "accept" => m \in Range(r.in.a)
  PROVE  PartiesOK(q, up, addr)
<1>. QED  BY DEF PartiesOK, Near, Ends

LEMMA EndNames ==
  Ends = {"a", "b"} /\ Peer("a") = "b" /\ Peer("b") = "a"
<1>. QED  BY DEF Ends, Peer

\* An end that closes
LEMMA ShutStays ==
  ASSUME NEW r \in Records, NEW e \in Ends, SilentOK(r), StatesOK(r), NEW up, NEW addr,
         PartiesOK(r, up, addr)
  PROVE  LET q == Shut(r, e) IN
         /\ q \in Records /\ Alike(q, r) /\ q.cut = r.cut
         /\ q.st[e] = "IDLE" /\ q.st[Peer(e)] = r.st[Peer(e)]
         /\ Alive(q) <=> Open(r, Peer(e))
         /\ Alive(q) => QueuesOK(q) /\ StatesOK(q) /\ PartiesOK(q, up, addr)
<1>. DEFINE q == Shut(r, e)
<1>1. /\ q \in Records /\ Alike(q, r) /\ q.cut = r.cut
      /\ q.st[e] = "IDLE" /\ q.st[Peer(e)] = r.st[Peer(e)]
      /\ q.in[e] = <<>>
      /\ q.in[Peer(e)] = IF ~r.cut /\ Open(r, e) /\ Open(r, Peer(e))
                         THEN Append(r.in[Peer(e)], EOF) ELSE r.in[Peer(e)]
  BY ShutFact
<1>2. Alive(q) <=> Open(r, Peer(e))
  BY <1>1, EndNames DEF Alive, Open
<1>3. Alive(q) => QueuesOK(q)
  BY <1>2, ShutOK
<1>. HIDE DEF q
<1>4. Alive(q) => StatesOK(q)
  BY <1>1, <1>2, EndNames DEF StatesOK, Open, Alike, Alive, States
<1>5. Range(q.in["a"]) \subseteq Range(r.in["a"]) \cup {EOF}
  <2>1. \A s \in Seq(Messages) : Range(Append(s, EOF)) = Range(s) \cup {EOF}
    BY AppendFact, MessageTypes
  <2>2. Range(<<>>) = {}
    BY DEF Range
  <2>. QED  BY <1>1, <2>1, <2>2, EndNames, RecordTypes
<1>6. PartiesOK(q, up, addr)
  <2>1. Near(q, r) /\ q.peer = r.peer /\ \A f \in Ends : Open(q, f) => Open(r, f)
    BY <1>1, EndNames DEF Near, Alike, Open
  <2>2. q.st["a"] = "CONNECTED" => r.st["a"] = "CONNECTED"
    BY <1>1, EndNames
  <2>3. EOF.fn # "accept"
    BY MessageTypes
  <2>. QED  BY <1>5, <2>1, <2>2, <2>3, PartiesStay
<1>. QED  BY <1>1, <1>2, <1>3, <1>4, <1>6 DEF q

\* What an invariant-abiding connection says, in one place
OK(r) == r \in Records /\ StatesOK(r) /\ QueuesOK(r) /\ PartiesOK(r, running, vmac)

LEMMA AllOK ==
  ASSUME ConnInv
  PROVE  \A c \in DOMAIN conns : OK(conns[c]) /\ Alive(conns[c])
<1>. QED  BY Known DEF OK, StatesOK, Alive

LEMMA AbandonedStep ==
  ASSUME ConnInv, NEW c \in DOMAIN conns, accept_abandoned(c)
  PROVE  ConnInv'
<1>. DEFINE r == conns[c]
            q == Shut(r, "b")
<1>1. OK(r)
  BY AllOK
<1>2. /\ r.st.b = "AWAITING_REQUEST" /\ Keep(c, q)
      /\ UNCHANGED <<running, vmac, hubVars, nodeVars, sent>>
  BY DEF accept_abandoned, history
<1>3. /\ q \in Records /\ Alike(q, r) /\ q.cut = r.cut
      /\ q.st.b = "IDLE" /\ q.st.a = r.st.a
      /\ Alive(q) => QueuesOK(q) /\ StatesOK(q) /\ PartiesOK(q, running, vmac)
  BY <1>1, ShutStays, EndNames DEF OK, QueuesOK
<1>. HIDE DEF q
<1>4. HubSame(q, r) /\ NodeSame(q, r)
  BY <1>1, <1>2, <1>3, RecordTypes DEF OK, HubSame, NodeSame, Near, Alike, Open, Late
<1>. QED  BY <1>2, <1>3, <1>4, PlainStep

LEMMA CutStep ==
  ASSUME ConnInv, NEW c \in DOMAIN conns, Cut(c)
  PROVE  ConnInv'
<1>. DEFINE r == conns[c]
            i == [e \in Ends |-> <<>>]
            q == [r EXCEPT !.cut = TRUE, !.in = i]
<1>1. OK(r)
  BY AllOK
<1>2. Keep(c, q) /\ UNCHANGED <<running, vmac, hubVars, nodeVars, sent>>
  BY DEF Cut
<1>3. i \in [Ends -> Seq(Messages)] /\ i["a"] = <<>> /\ i["b"] = <<>>
  BY DEF Ends
<1>. HIDE DEF i
<1>4. q \in Records /\ q.cut = TRUE /\ q.in = i /\ q.st = r.st /\ Alike(q, r)
  BY <1>1, <1>3 DEF OK, Records, Alike
<1>. HIDE DEF q
<1>5. StatesOK(q) /\ QueuesOK(q)
  BY <1>1, <1>3, <1>4 DEF OK, StatesOK, QueuesOK, SilentOK, ToldOK, Open, Alike, Range, Ends
<1>6. PartiesOK(q, running, vmac)
  BY <1>1, <1>3, <1>4, PartiesStay DEF OK, Near, Alike, Open, Range
<1>7. HubSame(q, r) /\ NodeSame(q, r)
  BY <1>1, <1>4 DEF OK, HubSame, NodeSame, Near, Alike, Open, Late
<1>. QED  BY <1>2, <1>4, <1>5, <1>6, <1>7, PlainStep

-----------------------------------------------------------------------------
(* The hub accepts.                                                        *)

\* The record after the Connect-Accept
LEMMA AcceptFact ==
  ASSUME NEW r \in Records, SilentOK(r), ToldOK(r), r.st.b \in {"AWAITING_REQUEST", "REPLYING"},
         r.from # r.to, r.st.a \in {"IDLE", "AWAITING_ACCEPT"},
         NEW m \in Messages, m.fn = "accept"
  PROVE  LET q == [Put(r, "b", m) EXCEPT !.st.b = "CONNECTED"] IN
         /\ q \in Records /\ Alike(q, r) /\ q.cut = r.cut
         /\ q.st.b = "CONNECTED" /\ q.st.a = r.st.a
         /\ QueuesOK(q) /\ StatesOK(q)
         /\ Range(q.in.a) \subseteq Range(r.in.a) \cup {m, EOF}
<1>. DEFINE p == Put(r, "b", m)
            q == [p EXCEPT !.st["b"] = "CONNECTED"]
<1>. USE EndNames
<1>1. Open(r, "b") /\ "b" \in Ends /\ "CONNECTED" \in States
  BY DEF Open, States
<1>2. /\ SilentOK(p) /\ Range(p.in["a"]) \subseteq Range(r.in["a"]) \cup (IF r.cut THEN {EOF} ELSE {m})
      /\ p \in Records /\ Alike(p, r) /\ p.cut = r.cut /\ p.st = r.st
  BY <1>1, PutSilent, PutFact
<1>. HIDE DEF p
<1>3. /\ q \in Records /\ Alike(q, p) /\ q.cut = p.cut /\ q.in = p.in
      /\ q.st["b"] = "CONNECTED" /\ q.st["a"] = p.st["a"]
  BY <1>1, <1>2, StateFact
<1>. HIDE DEF q
<1>4. SilentOK(q)
  BY <1>1, <1>2, <1>3 DEF SilentOK, Open
<1>5. ToldOK(q)
  <2>1. \A x \in Range(r.in["a"]) : x.fn \in {"nak", "eof"} => r.cut
    BY <1>1 DEF ToldOK
  <2>. QED  BY <1>2, <1>3, <2>1 DEF ToldOK
<1>6. StatesOK(q)
  BY <1>2, <1>3 DEF StatesOK, Open, Alike, States
<1>. QED  BY <1>2, <1>3, <1>4, <1>5, <1>6 DEF QueuesOK, Alike, q, p

\* ... and that of a connection that is evicted
LEMMA LeavingFact ==
  ASSUME NEW r \in Records, QueuesOK(r), StatesOK(r), r.st.b = "CONNECTED", r.to \in Hubs
  PROVE  LET q == Leaving(r) IN
         /\ q \in Records /\ Alike(q, r) /\ q.cut = r.cut
         /\ q.st.b = "DISCONNECTING" /\ q.st.a = r.st.a
         /\ QueuesOK(q) /\ StatesOK(q)
<1>. DEFINE m == Plain("disconnect")
            p == Put(r, "b", m)
            q == [p EXCEPT !.st["b"] = "DISCONNECTING"]
<1>. USE EndNames
<1>1. Open(r, "b") /\ "b" \in Ends /\ "DISCONNECTING" \in States
  BY DEF Open, States
<1>2. m \in Messages /\ m.fn = "disconnect"
  BY MessageTypes DEF Fns
<1>. HIDE DEF m
<1>3. QueuesOK(p) /\ p \in Records /\ Alike(p, r) /\ p.cut = r.cut /\ p.st = r.st
  BY <1>1, <1>2, PutOK, PutFact
<1>4. Leaving(r) = q
  BY DEF Leaving, m
<1>. HIDE DEF p
<1>5. /\ q \in Records /\ Alike(q, p) /\ q.cut = p.cut /\ q.in = p.in
      /\ q.st["b"] = "DISCONNECTING" /\ q.st["a"] = p.st["a"]
  BY <1>1, <1>3, StateFact
<1>. HIDE DEF q
<1>6. QueuesOK(q)
  BY <1>1, <1>3, <1>5 DEF QueuesOK, SilentOK, ToldOK, Open
<1>7. StatesOK(q)
  BY <1>3, <1>5 DEF StatesOK, Open, Alike, States
<1>. QED  BY <1>3, <1>4, <1>5, <1>6, <1>7 DEF Alike

LEMMA NodeConnectedStep ==
  ASSUME ConnInv, NEW c \in DOMAIN conns, NEW r, NEW h \in Hubs, NEW v, NEW u,
         r \in Records, Alike(r, conns[c]), r.cut = conns[c].cut, r.st = conns[c].st,
         SilentOK(r), ToldOK(r), Range(r.in.a) \subseteq Range(conns[c].in.a),
         conns[c].st.b \in {"AWAITING_REQUEST", "REPLYING"},
         h = r.to, v = r.vmac, u = r.from, node_connected(h, c, r),
         h \notin lapsed /\ v \in DOMAIN table[h] =>
           /\ conns[table[h][v]].from = u
           /\ Prompt => conns[table[h][v]].st.a = "IDLE",
         h \notin lapsed => \A d \in DOMAIN conns :
           conns[d].st.b = "REPLYING" /\ conns[d].to = h /\ conns[d].vmac = v => d = c
  PROVE  ConnInv'
<1>. DEFINE old == Evicts(h, u, v)
            q == [Put(r, "b", Plain("accept")) EXCEPT !.st.b = "CONNECTED"]
            cs == [conns EXCEPT ![c] = q]
            gone == {table[h][w] : w \in old}
            f == [d \in DOMAIN cs |-> IF d \in gone THEN Leaving(cs[d]) ELSE cs[d]]
<1>. USE EndNames
<1>1. /\ Store(f)
      /\ table' = [table EXCEPT ![h] = With(Without(@, old), v, c)]
      /\ uuids' = [uuids EXCEPT ![h] = With(@, u, v)]
      /\ pending' = [pending EXCEPT ![h] = @ \ {v}]
      /\ UNCHANGED <<running, vmac, lapsed, nodeVars, history>>
  BY DEF node_connected
<1>2. /\ \A d \in DOMAIN conns : OK(conns[d]) /\ Alive(conns[d])
      /\ r.to = conns[c].to /\ r.vmac = conns[c].vmac /\ r.from = conns[c].from
      /\ r.peer = conns[c].peer
      /\ h \notin Nodes
  BY AllOK, NodesAssumption DEF Alike
<1>3. /\ q \in Records /\ Alike(q, r) /\ q.cut = r.cut
      /\ q.st.b = "CONNECTED" /\ q.st.a = r.st.a
      /\ QueuesOK(q) /\ StatesOK(q)
  <2>1. Plain("accept") \in Messages /\ Plain("accept").fn = "accept"
    BY MessageTypes DEF Fns
  <2>2. StatesOK(conns[c])
    BY <1>2 DEF OK
  <2>3. r.from # r.to /\ r.st.a \in {"IDLE", "AWAITING_ACCEPT"}
    BY <1>2, <2>2 DEF StatesOK
  <2>. QED  BY <2>1, <2>3, AcceptFact
<1>. HIDE DEF q
<1>4. /\ \A w \in DOMAIN table[h] :
           /\ table[h][w] \in DOMAIN conns /\ conns[table[h][w]].to = h
           /\ conns[table[h][w]].vmac = w /\ conns[table[h][w]].st.b = "CONNECTED"
      /\ old \subseteq DOMAIN table[h] /\ v \notin old
      /\ \A w \in old : u \in DOMAIN uuids[h] /\ w = uuids[h][u]
  BY DEF ConnInv, HubsInv, Entry, Evicts
<1>5. \A w \in DOMAIN table[h] : table[h][w] # c
  BY <1>4
<1>6. \A d \in gone : /\ d \in DOMAIN conns /\ d # c /\ conns[d].to = h
                      /\ conns[d].st.b = "CONNECTED" /\ conns[d].vmac \in old
                      /\ table[h][conns[d].vmac] = d
  BY <1>4, <1>5
<1>. HIDE DEF gone, old
<1>7. /\ DOMAIN f = DOMAIN conns
      /\ f[c] = q
      /\ \A d \in DOMAIN conns \ {c} : f[d] = IF d \in gone THEN Leaving(conns[d]) ELSE conns[d]
  <2>1. conns = [d \in DOMAIN conns |-> conns[d]]
    BY DEF ConnInv, Types, ConnTypes, HubTypes, NodeTypes
  <2>. QED  BY <1>6, <2>1
<1>. HIDE DEF cs, f
<1>8. \A d \in DOMAIN conns \ {c} : d \in gone =>
        /\ f[d] \in Records /\ Alike(f[d], conns[d]) /\ f[d].cut = conns[d].cut
        /\ f[d].st.b = "DISCONNECTING" /\ f[d].st.a = conns[d].st.a
        /\ QueuesOK(f[d]) /\ StatesOK(f[d])
  BY <1>2, <1>6, <1>7, LeavingFact DEF OK
<1>9. Became(f)
  BY <1>1, <1>7, StoreFact
<1>10. \A d \in DOMAIN conns :
         /\ f[d] \in Records /\ StatesOK(f[d]) /\ QueuesOK(f[d]) /\ Alike(f[d], conns[d])
         /\ f[d].st.a = conns[d].st.a /\ f[d].cut = conns[d].cut /\ Alive(f[d])
  <2>1. Alike(q, conns[c])
    BY <1>3 DEF Alike
  <2>2. \A d \in DOMAIN conns : Alike(conns[d], conns[d])
    BY DEF Alike
  <2>3. \A d \in DOMAIN conns : StatesOK(f[d]) => Alive(f[d])
    BY DEF StatesOK, Alive
  <2>. QED  BY <1>2, <1>3, <1>7, <1>8, <2>1, <2>2, <2>3 DEF OK
<1>11. \A d \in DOMAIN conns : PartiesOK(f[d], running', vmac')
  <2>. TAKE d \in DOMAIN conns
  <2>1. CASE d \in gone \/ d = c
    <3>1. f[d].to = h /\ h \in running /\ f[d].from = conns[d].from /\ f[d].vmac = conns[d].vmac
      BY <1>2, <1>6, <1>10, <2>1 DEF OK, PartiesOK, Open, Alike
    <3>2. PartiesOK(conns[d], running, vmac)
      BY <1>2 DEF OK
    <3>. QED  BY <1>1, <1>2, <1>10, <3>1, <3>2 DEF PartiesOK, Open
  <2>2. CASE d \notin gone /\ d # c
    BY <1>1, <1>2, <1>7, <2>2 DEF OK
  <2>. QED  BY <2>1, <2>2
<1>12. /\ ConnectionsInv' /\ DOMAIN conns' \subseteq Ids /\ conns' \in [DOMAIN conns' -> Records]
  BY <1>9, <1>10, <1>11, ConnectionsStep DEF ConnInv
<1>13. NodesInv'
  <2>1. \A d \in DOMAIN conns : NodeSame(f[d], conns[d])
    <3>. TAKE d \in DOMAIN conns
    <3>1. CASE d \in gone \/ d = c
      <4>1. conns[d].to = h /\ f[d].st.b \in {"CONNECTED", "DISCONNECTING"}
        BY <1>2, <1>3, <1>6, <1>7, <1>8, <3>1
      <4>. QED  BY <1>2, <1>10, <4>1 DEF NodeSame, Near, Alike, Late
    <3>2. CASE d \notin gone /\ d # c
      BY <1>7, <3>2 DEF NodeSame, Near
    <3>. QED  BY <3>1, <3>2
  <2>. QED  BY <1>1, <1>9, <2>1, NodesStep DEF nodeVars
<1>14. DOMAIN conns' = DOMAIN conns /\ \A d \in DOMAIN conns : conns'[d] = f[d]
  BY <1>9, <1>10 DEF Became
<1>15. /\ v \in VMACs /\ u \in Nodes
  BY <1>2, RecordTypes
<1>16. /\ DOMAIN table' = Hubs /\ DOMAIN uuids' = Hubs /\ pending' \in [Hubs -> SUBSET VMACs]
       /\ \A g \in Hubs \ {h} : table'[g] = table[g] /\ uuids'[g] = uuids[g] /\ pending'[g] = pending[g]
       /\ DOMAIN table'[h] = (DOMAIN table[h] \ old) \cup {v}
       /\ \A w \in DOMAIN table'[h] : table'[h][w] = IF w = v THEN c ELSE table[h][w]
       /\ table'[h] = [w \in DOMAIN table'[h] |-> table'[h][w]]
       /\ DOMAIN uuids'[h] = DOMAIN uuids[h] \cup {u}
       /\ \A w \in DOMAIN uuids'[h] : uuids'[h][w] = IF w = u THEN v ELSE uuids[h][w]
       /\ uuids'[h] = [w \in DOMAIN uuids'[h] |-> uuids'[h][w]]
       /\ pending'[h] = pending[h] \ {v}
  <2>1. DOMAIN table = Hubs /\ DOMAIN uuids = Hubs /\ pending \in [Hubs -> SUBSET VMACs]
    BY DEF ConnInv, Types, ConnTypes, HubTypes, NodeTypes
  <2>2. /\ table'[h] = With(Without(table[h], old), v, c) /\ uuids'[h] = With(uuids[h], u, v)
        /\ pending'[h] = pending[h] \ {v}
        /\ \A g \in Hubs \ {h} : table'[g] = table[g] /\ uuids'[g] = uuids[g] /\ pending'[g] = pending[g]
        /\ DOMAIN table' = Hubs /\ DOMAIN uuids' = Hubs /\ pending' \in [Hubs -> SUBSET VMACs]
    BY <1>1, <2>1
  <2>. QED  BY <2>2 DEF With, Without, Restrict
<1>17. Types'
  <2>1. \A g \in Hubs :
          /\ DOMAIN table'[g] \subseteq VMACs /\ table'[g] = [w \in DOMAIN table'[g] |-> table'[g][w]]
          /\ DOMAIN uuids'[g] \subseteq Nodes /\ uuids'[g] = [w \in DOMAIN uuids'[g] |-> uuids'[g][w]]
    BY <1>15, <1>16 DEF ConnInv, Types, ConnTypes, HubTypes, NodeTypes
  <2>2. ConnTypes'
    BY <1>1, <1>12 DEF ConnInv, Types, ConnTypes
  <2>3. HubTypes'
    BY <1>1, <1>16, <2>1 DEF ConnInv, Types, HubTypes
  <2>4. NodeTypes'
    BY <1>1 DEF ConnInv, Types, NodeTypes, nodeVars, history
  <2>. QED  BY <2>2, <2>3, <2>4 DEF Types
<1>18. \A d \in DOMAIN conns :
         /\ conns'[d].from = conns[d].from /\ conns'[d].to = conns[d].to
         /\ conns'[d].vmac = conns[d].vmac /\ conns'[d].cut = conns[d].cut
         /\ conns'[d].st.a = conns[d].st.a
         /\ conns'[d].st.b = IF d = c THEN "CONNECTED" ELSE IF d \in gone THEN "DISCONNECTING"
                             ELSE conns[d].st.b
  BY <1>3, <1>7, <1>8, <1>10, <1>14 DEF Alike
<1>19. HubsInv'
  <2>. USE <1>14
  <2>1. \A g \in Hubs : \A w \in DOMAIN table'[g] : Entry(g, w)'
    <3>. TAKE g \in Hubs
    <3>. TAKE w \in DOMAIN table'[g]
    <3>1. CASE g # h
      <4>1. Entry(g, w) /\ table'[g][w] = table[g][w]
        BY <1>16, <3>1 DEF ConnInv, HubsInv
      <4>2. table[g][w] # c /\ table[g][w] \notin gone
        BY <1>2, <1>6, <3>1, <4>1 DEF Entry
      <4>. QED  BY <1>18, <4>1, <4>2 DEF Entry
    <3>2. CASE g = h /\ w = v
      BY <1>2, <1>16, <1>18, <3>2 DEF Entry
    <3>3. CASE g = h /\ w # v
      <4>1. w \in DOMAIN table[h] /\ w \notin old /\ table'[h][w] = table[h][w]
        BY <1>16, <3>3
      <4>2. table[h][w] # c /\ table[h][w] \notin gone
        BY <1>4, <1>5, <1>6, <4>1
      <4>. QED  BY <1>4, <1>18, <3>3, <4>1, <4>2 DEF Entry
    <3>. QED  BY <3>1, <3>2, <3>3
  <2>2. ReservationsOwned'
    <3>. SUFFICES ASSUME NEW g \in Hubs, NEW w \in pending'[g]
                  PROVE  \E d \in DOMAIN conns : conns'[d].to = g /\ conns'[d].st.b = "REPLYING"
                                                 /\ conns'[d].vmac = w
      BY DEF ReservationsOwned
    <3>1. w \in pending[g] /\ (g = h => w # v)
      BY <1>16
    <3>2. PICK d \in DOMAIN conns : conns[d].to = g /\ conns[d].st.b = "REPLYING" /\ conns[d].vmac = w
      BY <3>1 DEF ConnInv, HubsInv, ReservationsOwned
    <3>3. d # c /\ d \notin gone
      BY <1>2, <1>6, <3>1, <3>2
    <3>. QED  BY <1>18, <3>2, <3>3
  <2>3. UuidsCurrent'
    <3>1. ASSUME NEW g \in Hubs \ lapsed, NEW x \in DOMAIN uuids'[g]
          PROVE  /\ uuids'[g][x] \in DOMAIN table'[g]
                 /\ table'[g][uuids'[g][x]] \in DOMAIN conns'
                 /\ conns'[table'[g][uuids'[g][x]]].st["b"] = "CONNECTED"
                 /\ conns'[table'[g][uuids'[g][x]]].from = x
      <4>1. CASE g = h /\ x = u
        BY <1>2, <1>16, <1>18, <4>1, SMTT(30)
      <4>2. CASE g # h \/ x # u
        <5>. DEFINE w == uuids[g][x]
        <5>1. x \in DOMAIN uuids[g] /\ uuids'[g][x] = w
          BY <1>16, <4>2
        <5>2. /\ w \in DOMAIN table[g] /\ table[g][w] \in DOMAIN conns
              /\ conns[table[g][w]].st.b = "CONNECTED" /\ conns[table[g][w]].from = x
          BY <5>1 DEF ConnInv, HubsInv, UuidsCurrent, Connected
        <5>. HIDE DEF w
        <5>3. g = h => w # v /\ w \notin old
          <6>. SUFFICES ASSUME g = h PROVE w # v /\ w \notin old
            OBVIOUS
          <6>1. w # v
            BY <4>2, <5>2
          <6>2. w \notin old
            <7>1. ASSUME w \in old PROVE FALSE
              <8>1. u \in DOMAIN uuids[h] /\ w = uuids[h][u]
                BY <1>4, <7>1
              <8>2. conns[table[h][w]].from = u
                BY <8>1 DEF ConnInv, HubsInv, UuidsCurrent
              <8>. QED  BY <4>2, <5>2, <8>2
            <7>. QED  BY <7>1
          <6>. QED  BY <6>1, <6>2
        <5>4. w \in DOMAIN table'[g] /\ table'[g][w] = table[g][w]
          BY <1>16, <5>2, <5>3
        <5>5. table[g][w] # c /\ table[g][w] \notin gone
          BY <1>2, <1>4, <1>6, <5>2, <5>3 DEF ConnInv, HubsInv, Entry
        <5>. QED  BY <1>18, <5>1, <5>2, <5>4, <5>5
      <4>. QED  BY <4>1, <4>2
    <3>2. lapsed' = lapsed
      BY <1>1
    <3>. QED  BY ONLY <3>1, <3>2 DEF UuidsCurrent, Connected
  <2>4. \A d \in DOMAIN conns : Reservation(d)'
    <3>. TAKE d \in DOMAIN conns
    <3>. DEFINE g == conns[d].to
                w == conns[d].vmac
    <3>. SUFFICES ASSUME g \in Hubs \ lapsed, conns'[d].st.b = "REPLYING"
                  PROVE  /\ w \in pending'[g]
                         /\ \A x \in DOMAIN conns :
                              conns'[x].st.b = "REPLYING" /\ conns[x].to = g /\ conns[x].vmac = w => x = d
                         /\ w \in DOMAIN table'[g] =>
                              /\ conns'[table'[g][w]].from = conns[d].from
                              /\ Prompt => conns'[table'[g][w]].st.a = "IDLE"
      BY <1>1, <1>18 DEF Reservation
    <3>1. d # c /\ d \notin gone /\ conns[d].st.b = "REPLYING"
      BY <1>18
    <3>2. /\ w \in pending[g]
          /\ \A x \in DOMAIN conns :
               conns[x].st.b = "REPLYING" /\ conns[x].to = g /\ conns[x].vmac = w => x = d
          /\ w \in DOMAIN table[g] =>
               /\ conns[table[g][w]].from = conns[d].from
               /\ Prompt => conns[table[g][w]].st.a = "IDLE"
      BY <3>1 DEF ConnInv, HubsInv, Reservation
    <3>3. g = h => w # v
      BY <3>1
    <3>4. w \in pending'[g]
      BY <1>16, <3>2, <3>3
    <3>5. \A x \in DOMAIN conns : conns'[x].st.b = "REPLYING" => conns[x].st.b = "REPLYING"
      BY <1>18
    <3>6. w \in DOMAIN table'[g] => w \in DOMAIN table[g] /\ table'[g][w] = table[g][w]
      BY <1>16, <3>3
    <3>7. w \in DOMAIN table[g] => table[g][w] \in DOMAIN conns
      BY DEF ConnInv, HubsInv, Entry
    <3>. HIDE DEF g, w
    <3>. QED  BY <1>18, <3>2, <3>4, <3>5, <3>6, <3>7
  <2>5. \A d \in DOMAIN conns : Entered(d)'
    <3>. TAKE d \in DOMAIN conns
    <3>. DEFINE g == conns[d].to
                w == conns[d].vmac
    <3>. SUFFICES ASSUME Prompt, g \in Hubs \ lapsed, ~conns[d].cut, conns[d].st.a # "IDLE",
                         conns'[d].st.b = "CONNECTED"
                  PROVE  w \in DOMAIN table'[g] /\ table'[g][w] = d
      BY <1>1, <1>18 DEF Entered, Open
    <3>1. CASE d = c
      BY <1>2, <1>16, <3>1
    <3>2. CASE d # c
      <4>1. conns[d].st.b = "CONNECTED" /\ d \notin gone
        BY <1>18, <3>2
      <4>2. w \in DOMAIN table[g] /\ table[g][w] = d
        BY <4>1 DEF ConnInv, HubsInv, Entered, Open
      <4>3. g = h => w # v /\ w \notin old
        BY <4>1, <4>2 DEF gone
      <4>. QED  BY <1>16, <4>2, <4>3
    <3>. QED  BY <3>1, <3>2
  <2>. QED  BY <2>1, <2>2, <2>3, <2>4, <2>5 DEF HubsInv
<1>. QED  BY <1>12, <1>13, <1>17, <1>19 DEF ConnInv

\* What a hub that has read a request knows
LEMMA RequestFact ==
  ASSUME ConnInv, NEW c \in DOMAIN conns, conns[c].to \in Hubs,
         conns[c].st.b = "AWAITING_REQUEST", Heads(c, "b", "request")
  PROVE  LET r == Taken(conns[c], "b") IN
         /\ r \in Records /\ Alike(r, conns[c]) /\ r.cut = FALSE /\ conns[c].cut = FALSE
         /\ r.st = conns[c].st /\ QueuesOK(r) /\ r.in.a = conns[c].in.a
         /\ r.st.a \in {"IDLE", "AWAITING_ACCEPT"}
         /\ Range(r.in.a) \subseteq Range(conns[c].in.a)
<1>. USE EndNames
<1>1. OK(conns[c]) /\ conns[c].in["b"] # <<>> /\ Head(conns[c].in["b"]).fn = "request"
  BY AllOK DEF Heads
<1>2. conns[c].cut = FALSE
  <2>1. Head(<<EOF>>).fn = "eof"
    BY MessageTypes
  <2>2. conns[c].cut => conns[c].in["b"] = <<EOF>>
    BY <1>1 DEF OK, QueuesOK, SilentOK
  <2>. QED  BY <1>1, <2>1, <2>2, RecordTypes DEF OK
<1>3. QuietRec(Taken(conns[c], "b"), conns[c])
  BY <1>1, QuietTaken DEF OK
<1>4. Taken(conns[c], "b").in["a"] = conns[c].in["a"]
  BY <1>1, TakenFact DEF OK
<1>5. conns[c].st.a \in {"IDLE", "AWAITING_ACCEPT"}
  BY <1>1 DEF OK, StatesOK
<1>. QED  BY <1>2, <1>3, <1>4, <1>5 DEF QuietRec

\* The VMAC is free, or the entry is an old one of the same node.
LEMMA CheckedFact ==
  ASSUME ConnInv, NEW c \in DOMAIN conns, NEW h \in Hubs, conns[c].to = h,
         conns[c].st.b = "AWAITING_REQUEST", ~conns[c].cut,
         check_vmac(h, conns[c].vmac, conns[c].from)
  PROVE  LET v == conns[c].vmac IN
         /\ v \in DOMAIN table[h] =>
              /\ conns[table[h][v]].from = conns[c].from
              /\ Prompt => conns[table[h][v]].st.a = "IDLE"
         /\ h \notin lapsed => \A d \in DOMAIN conns :
              ~(conns[d].st.b = "REPLYING" /\ conns[d].to = h /\ conns[d].vmac = v)
<1>. DEFINE v == conns[c].vmac
<1>1. (v \in DOMAIN table[h] => conns[table[h][v]].from = conns[c].from) /\ v \notin pending[h]
  BY DEF check_vmac
<1>2. ASSUME v \in DOMAIN table[h], Prompt PROVE conns[table[h][v]].st.a = "IDLE"
  <2>. DEFINE d == table[h][v]
  <2>1. d \in DOMAIN conns /\ conns[d].to = h /\ conns[d].st.b = "CONNECTED" /\ conns[d].from = conns[c].from
    BY <1>1, <1>2 DEF ConnInv, HubsInv, Entry
  <2>2. Followed(d) /\ Followed(c) /\ (Late(conns[c]) => connector[conns[c].from].at = "down")
    BY <1>2, <2>1 DEF ConnInv, NodesInv
  <2>3. d # c
    BY <2>1
  <2>. SUFFICES conns[d].st.a = "IDLE"
    OBVIOUS
  <2>. HIDE DEF d
  <2>4. CASE conns[c].st.a = "IDLE"
    BY <2>1, <2>2, <2>4 DEF Late, Followed, Open
  <2>5. CASE conns[c].st.a # "IDLE"
    BY <2>1, <2>2, <2>3, <2>5 DEF Followed, Open
  <2>. QED  BY <2>4, <2>5
<1>3. ASSUME h \notin lapsed, NEW d \in DOMAIN conns
      PROVE  ~(conns[d].st.b = "REPLYING" /\ conns[d].to = h /\ conns[d].vmac = v)
  BY <1>1, <1>3 DEF ConnInv, HubsInv, Reservation
<1>. QED  BY <1>1, <1>2, <1>3

\* A refusal, which closes the connection
LEMMA RefusedStep ==
  ASSUME ConnInv, NEW c \in DOMAIN conns, NEW r, OK(r), Alike(r, conns[c]),
         r.cut = conns[c].cut, r.st = conns[c].st, r.st.b = "AWAITING_REQUEST",
         Keep(c, Shut(Put(r, "b", Plain("nak")), "b")),
         UNCHANGED <<running, vmac, hubVars, nodeVars, history>>
  PROVE  ConnInv'
<1>. DEFINE m == Plain("nak")
            p == Put(r, "b", m)
            q == Shut(p, "b")
<1>. USE EndNames
<1>1. m \in Messages /\ m.fn = "nak" /\ EOF.fn = "eof"
  BY MessageTypes DEF Fns
<1>. HIDE DEF m
<1>2. r \in Records /\ StatesOK(r) /\ QueuesOK(r) /\ PartiesOK(r, running, vmac) /\ Open(r, "b")
  BY DEF OK, Open
<1>3. /\ p \in Records /\ Alike(p, r) /\ p.cut = r.cut /\ p.st = r.st
      /\ SilentOK(p) /\ Range(p.in["a"]) \subseteq Range(r.in["a"]) \cup {EOF, m}
  <2>1. /\ SilentOK(p)
        /\ Range(p.in["a"]) \subseteq Range(r.in["a"]) \cup (IF r.cut THEN {EOF} ELSE {m})
    BY <1>1, <1>2, PutSilent DEF QueuesOK
  <2>2. p \in Records /\ Alike(p, r) /\ p.cut = r.cut /\ p.st = r.st
    BY <1>1, <1>2, PutFact
  <2>. HIDE DEF p
  <2>. QED  BY <2>1, <2>2
<1>. HIDE DEF p
<1>4. StatesOK(p) /\ PartiesOK(p, running, vmac)
  <2>1. StatesOK(p)
    BY <1>2, <1>3 DEF StatesOK, Open, Alike
  <2>2. PartiesOK(p, running, vmac)
    BY <1>1, <1>2, <1>3, PartiesStay DEF Near, Alike, Open
  <2>. QED  BY <2>1, <2>2
<1>5. /\ q \in Records /\ Alike(q, p) /\ q.cut = p.cut
      /\ q.st["b"] = "IDLE" /\ q.st["a"] = p.st["a"]
      /\ Alive(q) => QueuesOK(q) /\ StatesOK(q) /\ PartiesOK(q, running, vmac)
  BY <1>3, <1>4, ShutStays
<1>6. Keep(c, q)
  BY DEF m, p
<1>. HIDE DEF q
<1>7. HubSame(q, conns[c]) /\ NodeSame(q, conns[c])
  BY <1>3, <1>5, RecordTypes DEF HubSame, NodeSame, Near, Alike, Open, Late
<1>. QED  BY <1>5, <1>6, <1>7, PlainStep DEF history

LEMMA AcceptRepliedStep ==
  ASSUME ConnInv, NEW c \in DOMAIN conns, accept_replied(c)
  PROVE  ConnInv'
<1>. DEFINE r == conns[c]
<1>1. OK(r) /\ r.st.b = "REPLYING" /\ node_connected(r.to, c, r)
  BY AllOK DEF accept_replied
<1>2. r.to \in Hubs
  BY <1>1 DEF OK, StatesOK
<1>3. Reservation(c)
  BY DEF ConnInv, HubsInv
<1>4. Alike(r, r) /\ SilentOK(r) /\ ToldOK(r) /\ r \in Records
  BY <1>1 DEF OK, QueuesOK, Alike
<1>. QED  BY <1>1, <1>2, <1>3, <1>4, NodeConnectedStep DEF Reservation

\* The node has left: the VMAC is reserved while the hub is answering.
LEMMA ReplyingStep ==
  ASSUME ConnInv, NEW c \in DOMAIN conns, NEW h \in Hubs, NEW r, NEW q,
         conns[c].to = h, conns[c].st.b = "AWAITING_REQUEST", conns[c].st.a = "IDLE",
         ~conns[c].cut, check_vmac(h, conns[c].vmac, conns[c].from),
         r \in Records, Alike(r, conns[c]), r.cut = conns[c].cut, r.st = conns[c].st,
         QueuesOK(r), r.in.a = conns[c].in.a,
         q = [r EXCEPT !.st.b = "REPLYING"], Keep(c, q),
         pending' = [pending EXCEPT ![h] = @ \cup {conns[c].vmac}],
         UNCHANGED <<running, vmac, table, uuids, lapsed, nodeVars, history>>
  PROVE  ConnInv'
<1>. DEFINE v == conns[c].vmac
<1>. USE EndNames
<1>1. OK(conns[c]) /\ h \notin Nodes
  BY AllOK, NodesAssumption
<1>2. /\ q \in Records /\ Alike(q, conns[c]) /\ q.cut = conns[c].cut /\ q.in = r.in
      /\ q.st["b"] = "REPLYING" /\ q.st["a"] = "IDLE"
  <2>1. /\ q \in Records /\ Alike(q, r) /\ q.cut = r.cut /\ q.in = r.in
        /\ q.st["b"] = "REPLYING" /\ q.st["a"] = r.st["a"]
    <3>1. "b" \in Ends /\ "REPLYING" \in States
      BY DEF States
    <3>. DEFINE p == [r EXCEPT !.st["b"] = "REPLYING"]
    <3>2. q = p
      OBVIOUS
    <3>3. /\ p \in Records /\ Alike(p, r) /\ p.cut = r.cut /\ p.in = r.in
          /\ p.st["b"] = "REPLYING" /\ p.st["a"] = r.st["a"]
      BY <3>1, StateFact
    <3>. HIDE DEF p
    <3>. QED  BY <3>2, <3>3
  <2>. QED  BY <2>1 DEF Alike
<1>3. StatesOK(q)
  BY <1>1, <1>2 DEF OK, StatesOK, Open, Alike, States
<1>4. QueuesOK(q)
  BY <1>2 DEF QueuesOK, SilentOK, ToldOK, Open
<1>5. PartiesOK(q, running, vmac)
  <2>1. PartiesOK(conns[c], running, vmac) /\ Near(q, conns[c]) /\ q.peer = conns[c].peer
    BY <1>1, <1>2 DEF OK, Near, Alike
  <2>2. \A e \in Ends : Open(q, e) => Open(conns[c], e)
    BY <1>2 DEF Open
  <2>3. q.st.a = "IDLE" /\ q.in.a = conns[c].in.a
    BY <1>2
  <2>. QED  BY <2>1, <2>2, <2>3, PartiesStay
<1>6. NodeSame(q, conns[c]) /\ Alive(q)
  BY <1>1, <1>2 DEF NodeSame, Near, Alike, Late, Alive, Open
<1>7. /\ ConnectionsInv' /\ NodesInv'
      /\ DOMAIN conns' = DOMAIN conns /\ DOMAIN conns' \subseteq Ids
      /\ conns' \in [DOMAIN conns' -> Records]
      /\ \A d \in DOMAIN conns : conns'[d] = IF d = c THEN q ELSE conns[d]
  <2>1. /\ ConnectionsInv' /\ NodesInv'
        /\ DOMAIN conns' \subseteq DOMAIN conns /\ DOMAIN conns' \subseteq Ids
        /\ conns' \in [DOMAIN conns' -> Records]
        /\ \A d \in DOMAIN conns : d # c => d \in DOMAIN conns' /\ conns'[d] = conns[d]
        /\ c \in DOMAIN conns' /\ conns'[c] = q
    BY <1>2, <1>3, <1>4, <1>5, <1>6, OneConnection DEF nodeVars
  <2>. QED  BY <2>1
<1>8. /\ pending' \in [Hubs -> SUBSET VMACs] /\ pending'[h] = pending[h] \cup {v}
      /\ \A g \in Hubs : pending[g] \subseteq pending'[g]
      /\ \A g \in Hubs \ {h} : pending'[g] = pending[g]
  <2>1. pending \in [Hubs -> SUBSET VMACs] /\ v \in VMACs
    BY <1>1, RecordTypes DEF ConnInv, Types, HubTypes, OK
  <2>. QED  BY <2>1
<1>9. Types'
  BY <1>7, <1>8 DEF ConnInv, Types, ConnTypes, HubTypes, NodeTypes, nodeVars, history
<1>10. /\ v \in DOMAIN table[h] =>
            conns[table[h][v]].from = conns[c].from /\ (Prompt => conns[table[h][v]].st.a = "IDLE")
       /\ h \notin lapsed => \A d \in DOMAIN conns :
            ~(conns[d].st.b = "REPLYING" /\ conns[d].to = h /\ conns[d].vmac = v)
  BY CheckedFact
<1>11. /\ conns'[c].from = conns[c].from /\ conns'[c].to = h /\ conns'[c].vmac = v
       /\ conns'[c].st.b = "REPLYING" /\ conns'[c].st.a = "IDLE"
  BY <1>2, <1>7 DEF Alike
<1>12. \A g \in Hubs : \A w \in DOMAIN table[g] :
         /\ table[g][w] \in DOMAIN conns /\ table[g][w] # c /\ conns'[table[g][w]] = conns[table[g][w]]
  <2>1. \A g \in Hubs : \A w \in DOMAIN table[g] : table[g][w] \in DOMAIN conns /\ table[g][w] # c
    BY DEF ConnInv, HubsInv, Entry
  <2>. QED  BY <1>7, <2>1
<1>13. HubsInv'
  <2>. USE <1>7
  <2>1. \A g \in Hubs : \A w \in DOMAIN table'[g] : Entry(g, w)'
    BY <1>12 DEF ConnInv, HubsInv, Entry
  <2>2. ReservationsOwned'
    <3>1. ASSUME NEW g \in Hubs, NEW w \in pending'[g]
          PROVE  \E d \in DOMAIN conns' : conns'[d].to = g /\ conns'[d].st.b = "REPLYING"
                                          /\ conns'[d].vmac = w
      <4>1. CASE w \in pending[g]
        BY <1>11, <4>1 DEF ConnInv, HubsInv, ReservationsOwned
      <4>2. CASE w \notin pending[g]
        BY <1>8, <1>11, <4>2
      <4>. QED  BY <4>1, <4>2
    <3>. QED  BY <3>1 DEF ReservationsOwned
  <2>3. UuidsCurrent'
    BY <1>12, SMTT(30) DEF ConnInv, HubsInv, UuidsCurrent, Connected
  <2>4. ASSUME NEW d \in DOMAIN conns' PROVE Reservation(d)'
    <3>1. CASE d = c
      BY <1>8, <1>10, <1>11, <1>12, <3>1 DEF Reservation
    <3>2. CASE d # c
      <4>1. Reservation(d)
        BY DEF ConnInv, HubsInv
      <4>. QED  BY <1>8, <1>10, <1>11, <1>12, <3>2, <4>1, SMTT(30) DEF Reservation
    <3>. QED  BY <3>1, <3>2
  <2>5. \A d \in DOMAIN conns' : Entered(d)'
    BY <1>11 DEF ConnInv, HubsInv, Entered, Open
  <2>. QED  BY <2>1, <2>2, <2>3, <2>4, <2>5 DEF HubsInv
<1>. QED  BY <1>7, <1>9, <1>13 DEF ConnInv

LEMMA AcceptRequestStep ==
  ASSUME ConnInv, NEW c \in DOMAIN conns, accept_request(c)
  PROVE  ConnInv'
<1>. DEFINE r == Taken(conns[c], "b")
            h == r.to
<1>1. h \in Hubs /\ r.st.b = "AWAITING_REQUEST" /\ Heads(c, "b", "request")
  BY DEF accept_request
<1>2. OK(conns[c])
  BY AllOK
<1>3. conns[c].in["b"] # <<>> /\ "b" \in Ends
  BY <1>1, EndNames DEF Heads
<1>4. Alike(r, conns[c]) /\ r.st = conns[c].st
  BY <1>2, <1>3, TakenFact DEF OK
<1>5. conns[c].to = h /\ conns[c].st.b = "AWAITING_REQUEST"
  BY <1>1, <1>4 DEF Alike
<1>6. /\ r \in Records /\ Alike(r, conns[c]) /\ r.cut = FALSE /\ conns[c].cut = FALSE
      /\ r.st = conns[c].st /\ QueuesOK(r) /\ r.in.a = conns[c].in.a
      /\ r.st.a \in {"IDLE", "AWAITING_ACCEPT"}
      /\ Range(r.in.a) \subseteq Range(conns[c].in.a)
  BY <1>1, <1>5, RequestFact
<1>7. r.vmac = conns[c].vmac /\ r.from = conns[c].from
  BY <1>6 DEF Alike
<1>8. \/ check_vmac(h, r.vmac, r.from) /\ node_connected(h, c, r)
      \/ /\ check_vmac(h, r.vmac, r.from) /\ r.st.a = "IDLE" /\ ~r.cut
         /\ Keep(c, [r EXCEPT !.st.b = "REPLYING"])
         /\ pending' = [pending EXCEPT ![h] = @ \cup {r.vmac}]
         /\ UNCHANGED <<running, vmac, table, uuids, lapsed, nodeVars, history>>
      \/ /\ Keep(c, Shut(Put(r, "b", Plain("nak")), "b"))
         /\ UNCHANGED <<running, vmac, hubVars, nodeVars, history>>
  BY DEF accept_request
<1>. HIDE DEF r
<1>9. CASE check_vmac(h, r.vmac, r.from) /\ node_connected(h, c, r)
  <2>1. /\ r.vmac \in DOMAIN table[h] => /\ conns[table[h][r.vmac]].from = r.from
                                         /\ Prompt => conns[table[h][r.vmac]].st.a = "IDLE"
        /\ h \notin lapsed => \A d \in DOMAIN conns :
             ~(conns[d].st.b = "REPLYING" /\ conns[d].to = h /\ conns[d].vmac = r.vmac)
    BY <1>1, <1>5, <1>6, <1>7, <1>9, CheckedFact
  <2>. QED  BY <1>1, <1>5, <1>6, <1>9, <2>1, NodeConnectedStep DEF QueuesOK
<1>10. CASE /\ check_vmac(h, r.vmac, r.from) /\ r.st.a = "IDLE" /\ ~r.cut
            /\ Keep(c, [r EXCEPT !.st.b = "REPLYING"])
            /\ pending' = [pending EXCEPT ![h] = @ \cup {r.vmac}]
            /\ UNCHANGED <<running, vmac, table, uuids, lapsed, nodeVars, history>>
  <2>. DEFINE q == [r EXCEPT !.st.b = "REPLYING"]
  <2>1. Keep(c, q) /\ q = [r EXCEPT !.st.b = "REPLYING"]
    BY <1>10
  <2>. HIDE DEF q
  <2>. QED  BY <1>1, <1>5, <1>6, <1>7, <1>10, <2>1, ReplyingStep
<1>11. CASE /\ Keep(c, Shut(Put(r, "b", Plain("nak")), "b"))
            /\ UNCHANGED <<running, vmac, hubVars, nodeVars, history>>
  <2>1. OK(r)
    <3>1. StatesOK(r)
      BY <1>2, <1>6 DEF OK, StatesOK, Alike, Open
    <3>2. PartiesOK(r, running, vmac)
      BY <1>2, <1>6, PartiesStay DEF OK, Near, Alike, Open
    <3>. QED  BY <1>6, <3>1, <3>2 DEF OK
  <2>. QED  BY <1>1, <1>6, <1>11, <2>1, RefusedStep
<1>. QED  BY <1>8, <1>9, <1>10, <1>11

\* The answer cannot be sent: the VMAC is given back.
LEMMA AcceptFailedStep ==
  ASSUME ConnInv, NEW c \in DOMAIN conns, accept_failed(c)
  PROVE  ConnInv'
<1>. DEFINE r == conns[c]
            h == r.to
            v == r.vmac
            q == [r EXCEPT !.st["b"] = "IDLE"]
<1>. USE EndNames
<1>1. /\ OK(r) /\ r.st.b = "REPLYING" /\ Keep(c, q)
      /\ pending' = [pending EXCEPT ![h] = pending[h] \ {v}]
      /\ UNCHANGED <<running, vmac, table, uuids, lapsed, nodeVars, history>>
  BY AllOK DEF accept_failed, Reserved
<1>2. r.st.a = "IDLE" /\ h \in Hubs /\ h \notin Nodes
  BY <1>1, NodesAssumption DEF OK, StatesOK
<1>3. q.st["a"] = "IDLE" /\ q.st["b"] = "IDLE" /\ Alike(q, r) /\ q.cut = r.cut
  <2>1. r \in Records /\ "b" \in Ends /\ "IDLE" \in States
    BY <1>1 DEF OK, States
  <2>2. /\ q \in Records /\ Alike(q, r) /\ q.cut = r.cut /\ q.in = r.in
        /\ q.st["b"] = "IDLE" /\ q.st["a"] = r.st["a"]
    BY <2>1, StateFact
  <2>. QED  BY <1>2, <2>2
<1>. HIDE DEF q
<1>4. ~Alive(q) /\ NodeSame(q, r)
  BY <1>2, <1>3 DEF Alive, Open, NodeSame, Near, Alike, Late
<1>5. /\ ConnectionsInv' /\ NodesInv'
      /\ DOMAIN conns' = DOMAIN conns \ {c} /\ DOMAIN conns' \subseteq Ids
      /\ conns' \in [DOMAIN conns' -> Records]
      /\ \A d \in DOMAIN conns' : conns'[d] = conns[d]
  BY <1>1, <1>4, OneConnection DEF nodeVars
<1>6. /\ pending' \in [Hubs -> SUBSET VMACs] /\ pending'[h] = pending[h] \ {v}
      /\ \A g \in Hubs \ {h} : pending'[g] = pending[g]
  BY <1>1, <1>2 DEF ConnInv, Types, HubTypes
<1>7. Types'
  BY <1>1, <1>5, <1>6 DEF ConnInv, Types, ConnTypes, HubTypes, NodeTypes, nodeVars, history
<1>8. \A g \in Hubs : \A w \in DOMAIN table[g] :
         table[g][w] \in DOMAIN conns' /\ conns'[table[g][w]] = conns[table[g][w]]
  <2>1. \A g \in Hubs : \A w \in DOMAIN table[g] : table[g][w] \in DOMAIN conns /\ table[g][w] # c
    BY <1>1 DEF ConnInv, HubsInv, Entry
  <2>. QED  BY <1>5, <2>1
<1>9. HubsInv'
  <2>1. \A g \in Hubs : \A w \in DOMAIN table'[g] : Entry(g, w)'
    BY <1>1, <1>8 DEF ConnInv, HubsInv, Entry
  <2>2. ReservationsOwned'
    <3>1. ASSUME NEW g \in Hubs, NEW w \in pending'[g]
          PROVE  \E d \in DOMAIN conns' : conns'[d].to = g /\ conns'[d].st.b = "REPLYING"
                                          /\ conns'[d].vmac = w
      <4>1. w \in pending[g] /\ (g = h => w # v)
        BY <1>6
      <4>2. PICK d \in DOMAIN conns : conns[d].to = g /\ conns[d].st.b = "REPLYING" /\ conns[d].vmac = w
        BY <4>1 DEF ConnInv, HubsInv, ReservationsOwned
      <4>3. d # c
        BY <4>1, <4>2
      <4>. QED  BY <1>5, <4>2, <4>3
    <3>. QED  BY <3>1 DEF ReservationsOwned
  <2>3. UuidsCurrent'
    BY <1>1, <1>8 DEF ConnInv, HubsInv, UuidsCurrent, Connected
  <2>4. ASSUME NEW d \in DOMAIN conns' PROVE Reservation(d)'
    <3>1. Reservation(d) /\ d \in DOMAIN conns /\ d # c /\ conns'[d] = conns[d]
      BY <1>5 DEF ConnInv, HubsInv
    <3>2. conns[d].st.b = "REPLYING" /\ conns[d].to = h /\ conns[d].vmac = v => h \in lapsed
      BY <1>1, <1>2, <3>1 DEF Reservation
    <3>. QED  BY <1>1, <1>5, <1>6, <1>8, <3>1, <3>2 DEF Reservation
  <2>5. \A d \in DOMAIN conns' : Entered(d)'
    BY <1>1, <1>5 DEF ConnInv, HubsInv, Entered, Open
  <2>. QED  BY <2>1, <2>2, <2>3, <2>4, <2>5 DEF HubsInv
<1>. QED  BY <1>5, <1>7, <1>9 DEF ConnInv

-----------------------------------------------------------------------------
(* Connections end.                                                        *)

\* What an end is left with when it closes: it has read a message, and may
\* have answered.
LEMMA EndedFact ==
  ASSUME ConnInv, NEW c \in DOMAIN conns, NEW e \in Ends, Open(conns[c], e), NEW r,
         \/ r = conns[c]
         \/ conns[c].in[e] # <<>> /\ r = Taken(conns[c], e)
         \/ /\ conns[c].in[e] # <<>> /\ Head(conns[c].in[e]).fn # "eof"
            /\ r = Put(Taken(conns[c], e), e, Plain("ack"))
  PROVE  LET q == Shut(r, e) IN
         /\ Alike(r, conns[c]) /\ q \in Records /\ Alike(q, conns[c]) /\ q.cut = conns[c].cut
         /\ q.st[e] = "IDLE" /\ q.st[Peer(e)] = conns[c].st[Peer(e)]
         /\ Alive(q) <=> Open(conns[c], Peer(e))
         /\ Alive(q) => QueuesOK(q) /\ StatesOK(q) /\ PartiesOK(q, running, vmac)
<1>. DEFINE r0 == conns[c]
            t == Taken(r0, e)
            m == Plain("ack")
<1>1. r0 \in Records /\ StatesOK(r0) /\ QueuesOK(r0) /\ PartiesOK(r0, running, vmac)
  BY AllOK DEF OK
<1>2. m \in Messages /\ m.fn = "ack"
  BY MessageTypes DEF Fns
<1>3. \/ r = r0
      \/ r0.in[e] # <<>> /\ r = t
      \/ r0.in[e] # <<>> /\ Head(r0.in[e]).fn # "eof" /\ r = Put(t, e, m)
  OBVIOUS
<1>. HIDE DEF m, r0
<1>4. r0.in[e] # <<>> =>
        /\ t \in Records /\ Alike(t, r0) /\ t.cut = r0.cut /\ t.st = r0.st
        /\ t.in[e] = Tail(r0.in[e]) /\ t.in[Peer(e)] = r0.in[Peer(e)]
  BY <1>1, TakenFact
<1>5. r \in Records /\ Alike(r, r0) /\ r.cut = r0.cut /\ r.st = r0.st
  <2>1. CASE r = r0
    BY <1>1, <2>1 DEF Alike
  <2>2. CASE r0.in[e] # <<>> /\ r = t
    BY <1>4, <2>2
  <2>3. CASE r0.in[e] # <<>> /\ Head(r0.in[e]).fn # "eof" /\ r = Put(t, e, m)
    <3>1. /\ Put(t, e, m) \in Records /\ Alike(Put(t, e, m), t) /\ Put(t, e, m).cut = t.cut
          /\ Put(t, e, m).st = t.st
      BY <1>2, <1>4, <2>3, PutFact
    <3>. QED  BY <1>4, <2>3, <3>1 DEF Alike
  <2>. QED  BY <1>3, <2>1, <2>2, <2>3
<1>6. LET q == Shut(r, e) IN
      /\ q \in Records /\ Alike(q, r) /\ q.cut = r.cut
      /\ q.st[e] = "IDLE" /\ q.st[Peer(e)] = r.st[Peer(e)]
  BY <1>5, ShutFact
<1>7. Open(r0, Peer(e)) => QuietRec(r, r0)
  <2>. SUFFICES ASSUME Open(r0, Peer(e)) PROVE QuietRec(r, r0)
    OBVIOUS
  <2>1. CASE r = r0
    BY <1>1, <2>1, QuietSame
  <2>2. CASE r0.in[e] # <<>> /\ r = t
    <3>1. QueuesOK(t)
      <4>1. e = "a" \/ Open(r0, "a")
        BY EndNames
      <4>. QED  BY <1>1, <2>2, <4>1, TakenOK
    <3>2. Range(t.in["a"]) \subseteq Range(r0.in["a"])
      <4>1. r0.in[e] \in Seq(Messages)
        BY <1>1, QueueType
      <4>2. Range(Tail(r0.in[e])) \subseteq Range(r0.in[e])
        BY <2>2, <4>1, TailFact
      <4>. QED  BY <1>4, <2>2, <4>2, EndNames
    <3>. QED  BY <1>4, <2>2, <3>1, <3>2 DEF QuietRec
  <2>3. CASE r0.in[e] # <<>> /\ Head(r0.in[e]).fn # "eof" /\ r = Put(t, e, m)
    <3>1. QuietRec(t, r0)
      BY <1>1, <2>3, QuietTaken
    <3>2. Open(r0, e)
      BY DEF r0
    <3>. QED  BY <1>1, <1>2, <2>3, <3>1, <3>2, QuietPut
  <2>. QED  BY <1>3, <2>1, <2>2, <2>3
<1>. DEFINE q == Shut(r, e)
<1>8. CASE Open(r0, Peer(e))
  <2>1. SilentOK(r) /\ StatesOK(r) /\ PartiesOK(r, running, vmac)
    BY <1>1, <1>7, <1>8, QuietParties DEF QuietRec, QueuesOK
  <2>2. Alive(q) => QueuesOK(q) /\ StatesOK(q) /\ PartiesOK(q, running, vmac)
    BY <1>5, <2>1, ShutStays
  <2>3. /\ q \in Records /\ Alike(q, r) /\ q.cut = r.cut
        /\ q.st[e] = "IDLE" /\ q.st[Peer(e)] = r.st[Peer(e)]
    BY <1>6
  <2>. HIDE DEF q
  <2>4. Alive(q)
    BY <1>5, <1>8, <2>3, EndNames DEF Alive, Open
  <2>. QED  BY <1>5, <1>8, <2>2, <2>3, <2>4 DEF q, r0, Alike
<1>9. CASE ~Open(r0, Peer(e))
  <2>1. /\ q \in Records /\ Alike(q, r) /\ q.cut = r.cut
        /\ q.st[e] = "IDLE" /\ q.st[Peer(e)] = r.st[Peer(e)]
    BY <1>6
  <2>. HIDE DEF q
  <2>2. ~Alive(q)
    BY <1>5, <1>9, <2>1, EndNames DEF Alive, Open
  <2>. QED  BY <1>5, <1>9, <2>1, <2>2 DEF q, r0, Alike
<1>. QED  BY <1>8, <1>9

\* _on_node_disconnected
LEMMA HubIdleStep ==
  ASSUME ConnInv, NEW c \in DOMAIN conns, NEW h \in Hubs, NEW r,
         conns[c].to = h, conns[c].st.b \in {"CONNECTED", "DISCONNECTING"},
         \/ r = conns[c]
         \/ conns[c].in["b"] # <<>> /\ r = Taken(conns[c], "b")
         \/ /\ conns[c].in["b"] # <<>> /\ Head(conns[c].in["b"]).fn # "eof"
            /\ r = Put(Taken(conns[c], "b"), "b", Plain("ack")),
         go_idle(c, "b", r)
  PROVE  ConnInv'
<1>. DEFINE q == Shut(r, "b")
            v == conns[c].vmac
            u == conns[c].from
<1>. USE EndNames
<1>1. OK(conns[c]) /\ h \notin Nodes /\ Open(conns[c], "b")
  BY AllOK, NodesAssumption DEF Open
<1>2. /\ Alike(r, conns[c]) /\ q \in Records /\ Alike(q, conns[c]) /\ q.cut = conns[c].cut
      /\ q.st["b"] = "IDLE" /\ q.st["a"] = conns[c].st["a"]
      /\ Alive(q) <=> Open(conns[c], "a")
      /\ Alive(q) => QueuesOK(q) /\ StatesOK(q) /\ PartiesOK(q, running, vmac)
  BY <1>1, EndedFact
<1>3. r.to = h /\ r.vmac = v /\ r.from = u
  BY <1>2 DEF Alike
<1>4. /\ Keep(c, q)
      /\ table' = [table EXCEPT ![h] = node_disconnected(h, r, c)]
      /\ uuids' = [uuids EXCEPT ![h] = uuid_removed(h, r)]
      /\ pending' = [pending EXCEPT ![h] = pending[h] \ {v}]
      /\ lapsed' = IF v \in pending[h] THEN lapsed \cup {h} ELSE lapsed
      /\ UNCHANGED <<running, vmac, nodeVars, sent>>
  BY <1>1, <1>3 DEF go_idle, Owner, nodeVars
<1>. HIDE DEF q
<1>5. NodeSame(q, conns[c])
  BY <1>1, <1>2 DEF NodeSame, Near, Alike, Late
<1>6. /\ ConnectionsInv' /\ NodesInv'
      /\ DOMAIN conns' \subseteq DOMAIN conns /\ DOMAIN conns' \subseteq Ids
      /\ conns' \in [DOMAIN conns' -> Records]
      /\ \A d \in DOMAIN conns : d # c => d \in DOMAIN conns' /\ conns'[d] = conns[d]
      /\ c \in DOMAIN conns' => conns'[c] = q
  BY <1>2, <1>4, <1>5, OneConnection DEF nodeVars
<1>7. c \in DOMAIN conns' => conns'[c].st.b = "IDLE"
  BY <1>2, <1>6
<1>8. /\ pending' \in [Hubs -> SUBSET VMACs] /\ pending'[h] = pending[h] \ {v}
      /\ \A g \in Hubs \ {h} : pending'[g] = pending[g] /\ table'[g] = table[g] /\ uuids'[g] = uuids[g]
      /\ DOMAIN table' = Hubs /\ DOMAIN uuids' = Hubs
      /\ table'[h] = node_disconnected(h, r, c) /\ uuids'[h] = uuid_removed(h, r)
  BY <1>4 DEF ConnInv, Types, HubTypes
<1>9. /\ DOMAIN table'[h] = {w \in DOMAIN table[h] : ~(w = v /\ table[h][w] = c)}
      /\ \A w \in DOMAIN table'[h] : table'[h][w] = table[h][w]
      /\ table'[h] = [w \in DOMAIN table'[h] |-> table'[h][w]]
  <2>. DEFINE f == table[h]
              g == table'[h]
  <2>1. f = [w \in DOMAIN f |-> f[w]]
    BY DEF ConnInv, Types, HubTypes
  <2>2. g = IF v \in DOMAIN f /\ f[v] = c THEN Without(f, {v}) ELSE f
    BY <1>3, <1>8 DEF node_disconnected
  <2>. SUFFICES /\ DOMAIN g = {w \in DOMAIN f : ~(w = v /\ f[w] = c)}
                /\ \A w \in DOMAIN g : g[w] = f[w]
                /\ g = [w \in DOMAIN g |-> g[w]]
    OBVIOUS
  <2>. HIDE DEF f, g, u, v
  <2>3. CASE v \in DOMAIN f /\ f[v] = c
    <3>1. g = [w \in DOMAIN f \ {v} |-> f[w]]
      BY <2>2, <2>3 DEF Without, Restrict
    <3>. QED  BY <2>3, <3>1
  <2>4. CASE ~(v \in DOMAIN f /\ f[v] = c)
    BY <2>1, <2>2, <2>4
  <2>. QED  BY <2>3, <2>4
<1>10. /\ DOMAIN uuids'[h] = {x \in DOMAIN uuids[h] : ~(x = u /\ uuids[h][x] = v)}
       /\ \A x \in DOMAIN uuids'[h] : uuids'[h][x] = uuids[h][x]
       /\ uuids'[h] = [x \in DOMAIN uuids'[h] |-> uuids'[h][x]]
  <2>. DEFINE f == uuids[h]
              g == uuids'[h]
  <2>1. f = [x \in DOMAIN f |-> f[x]]
    BY DEF ConnInv, Types, HubTypes
  <2>2. g = IF u \in DOMAIN f /\ f[u] = v THEN Without(f, {u}) ELSE f
    BY <1>3, <1>8 DEF uuid_removed
  <2>. SUFFICES /\ DOMAIN g = {x \in DOMAIN f : ~(x = u /\ f[x] = v)}
                /\ \A x \in DOMAIN g : g[x] = f[x]
                /\ g = [x \in DOMAIN g |-> g[x]]
    OBVIOUS
  <2>. HIDE DEF f, g, u, v
  <2>3. CASE u \in DOMAIN f /\ f[u] = v
    <3>1. g = [x \in DOMAIN f \ {u} |-> f[x]]
      BY <2>2, <2>3 DEF Without, Restrict
    <3>. QED  BY <2>3, <3>1
  <2>4. CASE ~(u \in DOMAIN f /\ f[u] = v)
    BY <2>1, <2>2, <2>4
  <2>. QED  BY <2>3, <2>4
<1>11. Types'
  <2>1. \A g \in Hubs :
          /\ DOMAIN table'[g] \subseteq VMACs /\ table'[g] = [w \in DOMAIN table'[g] |-> table'[g][w]]
          /\ DOMAIN uuids'[g] \subseteq Nodes /\ uuids'[g] = [w \in DOMAIN uuids'[g] |-> uuids'[g][w]]
    BY <1>8, <1>9, <1>10 DEF ConnInv, Types, HubTypes
  <2>2. ConnTypes'
    BY <1>4, <1>6 DEF ConnInv, Types, ConnTypes
  <2>3. HubTypes'
    BY <1>4, <1>8, <2>1 DEF ConnInv, Types, HubTypes
  <2>4. NodeTypes'
    BY <1>4 DEF ConnInv, Types, NodeTypes, nodeVars
  <2>. QED  BY <2>2, <2>3, <2>4 DEF Types
<1>12. \A g \in Hubs : \A w \in DOMAIN table'[g] :
         /\ w \in DOMAIN table[g] /\ table'[g][w] = table[g][w]
         /\ table[g][w] \in DOMAIN conns' /\ conns'[table[g][w]] = conns[table[g][w]]
  <2>. TAKE g \in Hubs
  <2>. TAKE w \in DOMAIN table'[g]
  <2>1. w \in DOMAIN table[g] /\ table'[g][w] = table[g][w]
    BY <1>8, <1>9
  <2>2. Entry(g, w)
    BY <2>1 DEF ConnInv, HubsInv
  <2>3. table[g][w] # c
    BY <1>9, <2>2 DEF Entry
  <2>. QED  BY <1>6, <2>1, <2>2, <2>3 DEF Entry
<1>13. HubsInv'
  <2>1. \A g \in Hubs : \A w \in DOMAIN table'[g] : Entry(g, w)'
    BY <1>12 DEF ConnInv, HubsInv, Entry
  <2>2. ReservationsOwned'
    <3>1. \A g \in Hubs : pending'[g] \subseteq pending[g]
      BY <1>8
    <3>. QED  BY <1>6, <3>1 DEF ConnInv, HubsInv, ReservationsOwned
  <2>3. UuidsCurrent'
    <3>1. ASSUME NEW g \in Hubs \ lapsed', NEW x \in DOMAIN uuids'[g]
          PROVE  /\ uuids'[g][x] \in DOMAIN table'[g]
                 /\ table'[g][uuids'[g][x]] \in DOMAIN conns'
                 /\ conns'[table'[g][uuids'[g][x]]].st["b"] = "CONNECTED"
                 /\ conns'[table'[g][uuids'[g][x]]].from = x
      <4>. DEFINE w == uuids[g][x]
      <4>1. x \in DOMAIN uuids[g] /\ uuids'[g][x] = w /\ g \notin lapsed
        BY <1>4, <1>8, <1>10
      <4>2. /\ w \in DOMAIN table[g] /\ table[g][w] \in DOMAIN conns
            /\ conns[table[g][w]].st.b = "CONNECTED" /\ conns[table[g][w]].from = x
        BY <4>1 DEF ConnInv, HubsInv, UuidsCurrent, Connected
      <4>3. w \in DOMAIN table'[g]
        BY <1>8, <1>9, <1>10, <4>1, <4>2
      <4>. HIDE DEF w
      <4>. QED  BY <1>12, <4>1, <4>2, <4>3
    <3>. QED  BY ONLY <3>1 DEF UuidsCurrent, Connected
  <2>4. ASSUME NEW d \in DOMAIN conns' PROVE Reservation(d)'
    <3>. SUFFICES ASSUME conns'[d].to \in Hubs \ lapsed', conns'[d].st.b = "REPLYING"
                  PROVE  Reservation(d)'
      BY DEF Reservation
    <3>1. d # c /\ conns'[d] = conns[d] /\ Reservation(d) /\ d \in DOMAIN conns
      BY <1>6, <1>7 DEF ConnInv, HubsInv
    <3>2. conns[d].to \notin lapsed /\ conns[d].vmac \in pending[conns[d].to]
      BY <1>4, <3>1 DEF Reservation
    <3>3. conns[d].vmac \in pending'[conns[d].to]
      BY <1>4, <1>8, <3>1, <3>2
    <3>4. \A x \in DOMAIN conns' : conns'[x].st.b = "REPLYING" => x \in DOMAIN conns /\ conns'[x] = conns[x]
      BY <1>6, <1>7
    <3>. QED  BY <1>12, <3>1, <3>2, <3>3, <3>4 DEF Reservation
  <2>5. ASSUME NEW d \in DOMAIN conns' PROVE Entered(d)'
    <3>. SUFFICES ASSUME Prompt, conns'[d].to \in Hubs \ lapsed', ~conns'[d].cut,
                         Open(conns'[d], "a"), conns'[d].st.b = "CONNECTED"
                  PROVE  /\ conns'[d].vmac \in DOMAIN table'[conns'[d].to]
                         /\ table'[conns'[d].to][conns'[d].vmac] = d
      BY DEF Entered
    <3>1. d # c /\ conns'[d] = conns[d] /\ Entered(d) /\ d \in DOMAIN conns
      BY <1>6, <1>7 DEF ConnInv, HubsInv
    <3>2. conns[d].to \notin lapsed
      BY <1>4, <3>1
    <3>3. conns[d].vmac \in DOMAIN table[conns[d].to] /\ table[conns[d].to][conns[d].vmac] = d
      BY <3>1, <3>2 DEF Entered
    <3>. QED  BY <1>8, <1>9, <3>1, <3>3
  <2>. QED  BY <2>1, <2>2, <2>3, <2>4, <2>5 DEF HubsInv
<1>. QED  BY <1>6, <1>11, <1>13 DEF ConnInv

LEMMA DisconnectedStep ==
  ASSUME ConnInv, NEW c \in DOMAIN conns, disconnected(c)
  PROVE  ConnInv'
<1>. DEFINE r == conns[c]
            q == [r EXCEPT !.st["b"] = "IDLE", !.in["b"] = <<>>]
<1>. USE EndNames
<1>1. OK(r) /\ r.st.b = "DISCONNECTING"
  BY AllOK DEF disconnected
<1>2. r.to \in Hubs /\ r.to \notin Nodes
  BY <1>1, NodesAssumption DEF OK, StatesOK
<1>3. \/ r.in["b"] # <<>> /\ go_idle(c, "b", Taken(r, "b"))
      \/ go_idle(c, "b", r)
      \/ Keep(c, q) /\ UNCHANGED <<running, vmac, hubVars, nodeVars, history>>
  BY DEF disconnected
<1>4. CASE r.in["b"] # <<>> /\ go_idle(c, "b", Taken(r, "b"))
  BY <1>1, <1>2, <1>4, HubIdleStep
<1>5. CASE go_idle(c, "b", r)
  BY <1>1, <1>2, <1>5, HubIdleStep
<1>6. CASE Keep(c, q) /\ UNCHANGED <<running, vmac, hubVars, nodeVars, history>>
  <2>1. /\ q \in Records /\ Alike(q, r) /\ q.cut = r.cut
        /\ q.st["b"] = "IDLE" /\ q.st["a"] = r.st["a"]
        /\ q.in["b"] = <<>> /\ q.in["a"] = r.in["a"]
    BY <1>1, DroppedFact, ZenonT(30) DEF OK
  <2>2. Keep(c, q)
    BY <1>6
  <2>. HIDE DEF q
  <2>3. Alive(q) => Open(r, "a")
    BY <2>1 DEF Alive, Open
  <2>4. Open(r, "a") => QueuesOK(q) /\ StatesOK(q)
    BY <1>1, <2>1 DEF OK, QueuesOK, SilentOK, ToldOK, StatesOK, Open, Alike, States
  <2>5. PartiesOK(q, running, vmac)
    BY <1>1, <2>1, PartiesStay DEF OK, Near, Alike, Open
  <2>6. HubSame(q, r) /\ NodeSame(q, r)
    BY <1>1, <1>2, <2>1, RecordTypes DEF OK, HubSame, NodeSame, Near, Alike, Open, Late
  <2>. QED  BY <1>6, <2>1, <2>2, <2>3, <2>4, <2>5, <2>6, PlainStep DEF history
<1>. QED  BY <1>3, <1>4, <1>5, <1>6

\* The connection of a node to a hub goes on, or ends, and its connect loop
\* is told.
LEMMA ConnectorStep ==
  ASSUME ConnInv, NEW c \in DOMAIN conns, NEW n, NEW q, NEW k \in Connectors,
         n = conns[c].from, conns[c].to \in Hubs, Open(conns[c], "a"),
         Keep(c, q), connector' = [connector EXCEPT ![n] = k],
         UNCHANGED <<running, vmac, hubVars, direct, asked, sent>>,
         q \in Records, Alike(q, conns[c]), q.cut = conns[c].cut, q.st.b = conns[c].st.b,
         Alive(q) => QueuesOK(q) /\ StatesOK(q) /\ PartiesOK(q, running, vmac),
         Open(q, "a") => /\ k.conn = c /\ ~k.woken /\ k.at \in {"waiting", "connected"}
                         /\ q.st.a = IF k.at = "waiting" THEN "AWAITING_ACCEPT" ELSE "CONNECTED",
         ~Open(q, "a") => ~(k.at = "waiting" \/ (k.at = "connected" /\ ~k.woken)),
         k.woken => k.at = "connected",
         Prompt => ~Late(q)
  PROVE  ConnInv'
<1>1. OK(conns[c]) /\ n \in Nodes /\ n \in running /\ conns[c].to \notin Nodes
  BY AllOK, RecordTypes, NodesAssumption DEF OK, PartiesOK
<1>2. HubSame(q, conns[c])
  BY <1>1, RecordTypes DEF HubSame, Near, Alike
<1>3. /\ ConnectionsInv' /\ HubsInv'
      /\ DOMAIN conns' \subseteq DOMAIN conns /\ DOMAIN conns' \subseteq Ids
      /\ conns' \in [DOMAIN conns' -> Records]
      /\ \A d \in DOMAIN conns : d # c => d \in DOMAIN conns' /\ conns'[d] = conns[d]
      /\ c \in DOMAIN conns' <=> Alive(q)
      /\ c \in DOMAIN conns' => conns'[c] = q
  BY <1>2, OneConnection
<1>4. /\ connector' \in [Nodes -> Connectors] /\ connector'[n] = k
      /\ \A m \in Nodes : m # n => connector'[m] = connector[m]
  BY <1>1 DEF ConnInv, Types, NodeTypes
<1>5. Types'
  BY <1>3, <1>4 DEF ConnInv, Types, ConnTypes, HubTypes, NodeTypes, hubVars
<1>6. connector[n].conn = c /\ connector[n].at \in {"waiting", "connected"}
  BY DEF ConnInv, NodesInv, Followed
<1>7. q.from = n /\ q.to = conns[c].to
  BY DEF Alike
<1>8. ASSUME NEW d \in DOMAIN conns'
      PROVE  Followed(d)' /\ (Prompt /\ Late(conns'[d]) => connector'[conns'[d].from].at = "down")
  <2>1. CASE d = c
    BY <1>3, <1>4, <1>7, <2>1 DEF Followed
  <2>2. CASE d # c
    <3>1. /\ conns'[d] = conns[d] /\ d \in DOMAIN conns /\ Followed(d)
          /\ (Prompt /\ Late(conns[d]) => connector[conns[d].from].at = "down")
      BY <1>3, <2>2 DEF ConnInv, NodesInv
    <3>2. conns[d].from \in Nodes
      BY <3>1, AllOK, RecordTypes DEF OK
    <3>. QED  BY <1>4, <1>6, <2>2, <3>1, <3>2 DEF Followed
  <2>. QED  BY <2>1, <2>2
<1>9. ASSUME NEW m \in Nodes PROVE ConnectorOK(m)'
  <2>1. CASE m = n
    <3>1. k.at = "waiting" \/ (k.at = "connected" /\ ~k.woken) =>
            c \in DOMAIN conns' /\ conns'[c] = q /\ k.conn = c
            /\ q.st.a = IF k.at = "waiting" THEN "AWAITING_ACCEPT" ELSE "CONNECTED"
      BY <1>3 DEF Alive
    <3>. QED  BY <1>1, <1>4, <1>7, <2>1, <3>1 DEF ConnectorOK
  <2>2. CASE m # n
    <3>1. ConnectorOK(m)
      BY DEF ConnInv, NodesInv
    <3>. QED  BY <1>3, <1>4, <2>2, <3>1 DEF ConnectorOK
  <2>. QED  BY <2>1, <2>2
<1>10. ASSUME NEW m \in Nodes, NEW v \in DOMAIN direct'[m] PROVE DirectOK(m, v)'
  <2>1. DirectOK(m, v)
    BY DEF ConnInv, NodesInv
  <2>2. direct[m][v] # c
    BY <1>1, <2>1 DEF DirectOK
  <2>. QED  BY <1>3, <2>1, <2>2 DEF DirectOK
<1>11. NodesInv'
  BY <1>8, <1>9, <1>10 DEF NodesInv
<1>. QED  BY <1>3, <1>5, <1>11 DEF ConnInv

LEMMA ConnectorTypes ==
  /\ \A i \in DOMAIN URIs, d \in MinDelay .. MaxDelay :
       Trying(i, d) \in Connectors /\ Trying(i, d).at = "trying" /\ ~Trying(i, d).woken
  /\ \A k \in Connectors : next_uri(k) \in Connectors /\ next_uri(k).at \in {"trying", "asleep"} /\ ~next_uri(k).woken
  /\ Down \in Connectors /\ Down.at = "down" /\ ~Down.woken
  /\ Failed \in Connectors /\ Failed.at = "failed" /\ ~Failed.woken
  /\ 1 \in DOMAIN URIs /\ MinDelay \in MinDelay .. MaxDelay
<1>1. DOMAIN URIs = 1 .. Len(URIs) /\ Len(URIs) \in Nat /\ Len(URIs) # 0
  BY NodesAssumption, LenProperties, EmptySeq
<1>2. MinDelay \in Nat /\ MaxDelay \in Nat /\ MinDelay <= MaxDelay
  BY NodesAssumption
<1>3. 1 \in DOMAIN URIs /\ MinDelay \in MinDelay .. MaxDelay
  BY <1>1, <1>2
<1>4. \A i \in DOMAIN URIs, d \in MinDelay .. MaxDelay :
        Trying(i, d) \in Connectors /\ Trying(i, d).at = "trying" /\ ~Trying(i, d).woken
  BY DEF Trying, Connectors, Ats
<1>5. \A d \in MinDelay .. MaxDelay : Asleep(d) \in Connectors /\ Asleep(d).at = "asleep" /\ ~Asleep(d).woken
  BY <1>3, <1>4 DEF Asleep, Trying, Connectors, Ats
<1>6. ASSUME NEW k \in Connectors
      PROVE  /\ next_uri(k) \in Connectors /\ next_uri(k).at \in {"trying", "asleep"}
             /\ ~next_uri(k).woken
  <2>1. k.uri \in DOMAIN URIs /\ k.delay \in MinDelay .. MaxDelay
    BY DEF Connectors
  <2>2. k.uri < Len(URIs) => k.uri + 1 \in DOMAIN URIs
    BY <1>1, <2>1
  <2>. QED  BY <1>4, <1>5, <2>1, <2>2 DEF next_uri
<1>7. /\ Down \in Connectors /\ Down.at = "down" /\ ~Down.woken
      /\ Failed \in Connectors /\ Failed.at = "failed" /\ ~Failed.woken
  BY <1>3, <1>4 DEF Down, Failed, Trying, Connectors, Ats
<1>. QED  BY <1>3, <1>4, <1>6, <1>7

LEMMA ConnectAcceptedStep ==
  ASSUME ConnInv, NEW c \in DOMAIN conns, connect_accepted(c)
  PROVE  ConnInv'
<1>. DEFINE r == conns[c]
            n == r.from
            t == Taken(r, "a")
            q == [t EXCEPT !.st["a"] = "CONNECTED"]
            k == [connector[n] EXCEPT !.at = "connected", !.delay = MinDelay]
<1>. USE EndNames
<1>1. /\ OK(r) /\ r.to \in Hubs /\ r.st.a = "AWAITING_ACCEPT"
      /\ r.in["a"] # <<>> /\ Head(r.in["a"]).fn = "accept"
      /\ Keep(c, q) /\ connector' = [connector EXCEPT ![n] = k]
      /\ UNCHANGED <<running, vmac, hubVars, direct, asked, sent>>
  BY AllOK DEF connect_accepted, Heads, history
<1>2. n \in Nodes /\ r.to \notin Nodes
  BY <1>1, RecordTypes, NodesAssumption DEF OK
<1>3. QuietRec(t, r)
  BY <1>1, QuietTaken DEF OK
<1>4. "a" \in Ends /\ "CONNECTED" \in States /\ t \in Records
  BY <1>3 DEF States, QuietRec
<1>. HIDE DEF t
<1>5. /\ q \in Records /\ Alike(q, t) /\ q.cut = t.cut /\ q.in = t.in
      /\ q.st["a"] = "CONNECTED" /\ q.st["b"] = t.st["b"]
  BY <1>4, StateFact
<1>6. Keep(c, q)
  BY <1>1
<1>. HIDE DEF q
<1>7. q.st["b"] = r.st["b"] /\ q.st["b"] \notin {"AWAITING_REQUEST", "REPLYING"} /\ q.cut = r.cut /\ Alike(q, r)
  <2>1. Head(r.in["a"]) \in Range(r.in["a"])
    BY <1>1, TailFact, RecordTypes DEF OK
  <2>. QED  BY <1>1, <1>3, <1>5, <2>1 DEF OK, QueuesOK, ToldOK, QuietRec, Alike
<1>8. StatesOK(q) /\ QueuesOK(q)
  <2>1. StatesOK(q)
    BY <1>1, <1>5, <1>7 DEF OK, StatesOK, Alike, Open, States
  <2>2. QueuesOK(q)
    BY <1>1, <1>3, <1>5 DEF OK, QuietRec, QueuesOK, SilentOK, ToldOK, Open
  <2>. QED  BY <2>1, <2>2
<1>9. PartiesOK(q, running, vmac)
  BY <1>1, <1>2, <1>7 DEF OK, PartiesOK, Alike, Open
<1>10. connector[n] \in Connectors /\ connector[n].conn = c /\ ~connector[n].woken
  BY <1>1, <1>2 DEF ConnInv, Types, NodeTypes, NodesInv, Followed, Open
<1>11. k \in Connectors /\ k.conn = c /\ ~k.woken /\ k.at = "connected"
  BY <1>10, ConnectorTypes DEF Connectors, Ats
<1>. HIDE DEF k
<1>. QED  BY <1>1, <1>5, <1>6, <1>7, <1>8, <1>9, <1>11, ConnectorStep DEF Open, Late

\* Something about a direct connection changes.
LEMMA DirectStep ==
  ASSUME ConnInv, NEW c \in DOMAIN conns, NEW q, conns[c].to \in Nodes,
         Keep(c, q), UNCHANGED <<running, vmac, hubVars, connector, asked, sent>>,
         Alive(q) => q \in Records /\ StatesOK(q) /\ QueuesOK(q) /\ PartiesOK(q, running, vmac),
         Near(q, conns[c]), q.cut = conns[c].cut,
         Open(q, "a") => Open(conns[c], "a"),
         DOMAIN direct' = Nodes, \A n \in Nodes : direct'[n] = [v \in DOMAIN direct'[n] |-> direct'[n][v]],
         \A n \in Nodes : \A v \in DOMAIN direct'[n] :
           \/ /\ direct'[n][v] = c
              /\ \/ q.from = n /\ q.st.a = "CONNECTED" /\ q.peer = v
                 \/ q.to = n /\ q.st.b = "CONNECTED" /\ q.vmac = v
           \/ v \in DOMAIN direct[n] /\ direct'[n][v] = direct[n][v] /\ direct[n][v] # c
  PROVE  ConnInv'
<1>1. OK(conns[c]) /\ conns[c].to \notin Hubs
  BY AllOK, NodesAssumption
<1>2. HubSame(q, conns[c])
  BY <1>1, RecordTypes DEF HubSame, OK
<1>3. /\ ConnectionsInv' /\ HubsInv'
      /\ DOMAIN conns' \subseteq DOMAIN conns /\ DOMAIN conns' \subseteq Ids
      /\ conns' \in [DOMAIN conns' -> Records]
      /\ \A d \in DOMAIN conns : d # c => d \in DOMAIN conns' /\ conns'[d] = conns[d]
      /\ c \in DOMAIN conns' <=> Alive(q)
      /\ c \in DOMAIN conns' => conns'[c] = q
  BY <1>2, OneConnection
<1>4. Types'
  BY <1>3 DEF ConnInv, Types, ConnTypes, HubTypes, NodeTypes, hubVars
<1>5. ASSUME NEW d \in DOMAIN conns'
      PROVE  Followed(d)' /\ (Prompt /\ Late(conns'[d]) => connector'[conns'[d].from].at = "down")
  BY <1>1, <1>3 DEF ConnInv, NodesInv, Followed, Late, Near
<1>6. ASSUME NEW m \in Nodes PROVE ConnectorOK(m)'
  <2>1. ConnectorOK(m)
    BY DEF ConnInv, NodesInv
  <2>. QED  BY <1>1, <1>3, <2>1 DEF ConnectorOK
<1>7. ASSUME NEW m \in Nodes, NEW v \in DOMAIN direct'[m] PROVE DirectOK(m, v)'
  <2>1. CASE direct'[m][v] = c /\ \/ q.from = m /\ q.st.a = "CONNECTED" /\ q.peer = v
                                  \/ q.to = m /\ q.st.b = "CONNECTED" /\ q.vmac = v
    BY <1>3, <2>1 DEF DirectOK, Alive, Open, Near
  <2>2. CASE v \in DOMAIN direct[m] /\ direct'[m][v] = direct[m][v] /\ direct[m][v] # c
    <3>1. DirectOK(m, v)
      BY <2>2 DEF ConnInv, NodesInv
    <3>. QED  BY <1>3, <2>2, <3>1 DEF DirectOK
  <2>. QED  BY <2>1, <2>2
<1>8. NodesInv'
  BY <1>5, <1>6, <1>7 DEF NodesInv
<1>. QED  BY <1>3, <1>4, <1>8 DEF ConnInv

\* A node gives a direct connection up before it is one.
LEMMA DirectGivenUp ==
  ASSUME ConnInv, NEW c \in DOMAIN conns, NEW q, conns[c].to \in Nodes,
         conns[c].st.a = "AWAITING_ACCEPT", Keep(c, q),
         UNCHANGED <<running, vmac, hubVars, nodeVars, sent>>,
         q \in Records, Alike(q, conns[c]), q.cut = conns[c].cut, q.st.b = conns[c].st.b,
         Alive(q) => StatesOK(q) /\ QueuesOK(q) /\ PartiesOK(q, running, vmac),
         Open(q, "a") => Open(conns[c], "a")
  PROVE  ConnInv'
<1>1. /\ DOMAIN direct = Nodes
      /\ \A n \in Nodes : direct[n] = [v \in DOMAIN direct[n] |-> direct[n][v]]
  BY DEF ConnInv, Types, NodeTypes
<1>2. ASSUME NEW n \in Nodes, NEW v \in DOMAIN direct[n], direct[n][v] = c
      PROVE  q.to = n /\ q.st.b = "CONNECTED" /\ q.vmac = v
  <2>1. DirectOK(n, v)
    BY DEF ConnInv, NodesInv
  <2>. QED  BY <1>2, <2>1 DEF DirectOK, Alike
<1>3. Near(q, conns[c])
  BY DEF Near, Alike
<1>4. direct' = direct /\ UNCHANGED <<running, vmac, hubVars, connector, asked, sent>>
  BY DEF nodeVars
<1>5. \A n \in Nodes : \A v \in DOMAIN direct'[n] :
           \/ /\ direct'[n][v] = c
              /\ \/ q.from = n /\ q.st.a = "CONNECTED" /\ q.peer = v
                 \/ q.to = n /\ q.st.b = "CONNECTED" /\ q.vmac = v
           \/ v \in DOMAIN direct[n] /\ direct'[n][v] = direct[n][v] /\ direct[n][v] # c
  BY <1>2, <1>4
<1>6. DOMAIN direct' = Nodes /\ \A n \in Nodes : direct'[n] = [v \in DOMAIN direct'[n] |-> direct'[n][v]]
  BY <1>1, <1>4
<1>. QED  BY <1>3, <1>4, <1>5, <1>6, DirectStep

LEMMA ConnectRefusedStep ==
  ASSUME ConnInv, NEW c \in DOMAIN conns, connect_refused(c)
  PROVE  ConnInv'
<1>. DEFINE r == conns[c]
            n == r.from
            q == Shut(r, "a")
            k == next_uri(connector[n])
<1>. USE EndNames
<1>1. /\ OK(r) /\ r.st.a = "AWAITING_ACCEPT" /\ Keep(c, q)
      /\ (r.in["a"] # <<>> /\ Head(r.in["a"]).fn = "nak") \/ (Prompt => r.cut)
      /\ connector' = IF r.to \in Hubs THEN [connector EXCEPT ![n] = k] ELSE connector
      /\ UNCHANGED <<running, vmac, hubVars, direct, asked, sent>>
  BY AllOK DEF connect_refused, Heads, history
<1>2. n \in Nodes /\ r.to \in Nodes \cup Hubs
  BY <1>1, RecordTypes DEF OK
<1>3. /\ q \in Records /\ Alike(q, r) /\ q.cut = r.cut
      /\ q.st["a"] = "IDLE" /\ q.st["b"] = r.st["b"]
      /\ Alive(q) => QueuesOK(q) /\ StatesOK(q) /\ PartiesOK(q, running, vmac)
  BY <1>1, ShutStays DEF OK, QueuesOK
<1>4. Keep(c, q)
  BY <1>1
<1>. HIDE DEF q
<1>5. Prompt => ~Late(q)
  <2>1. r.in["a"] # <<>> => Head(r.in["a"]) \in Range(r.in["a"])
    BY <1>1, TailFact, RecordTypes DEF OK
  <2>2. Prompt => r.cut \/ ~Open(r, "b")
    BY <1>1, <2>1 DEF OK, QueuesOK, ToldOK
  <2>. QED  BY <1>3, <2>2 DEF Late, Open
<1>6. CASE r.to \in Hubs
  <2>1. k \in Connectors /\ k.at \in {"trying", "asleep"} /\ ~k.woken
    BY <1>2, ConnectorTypes DEF ConnInv, Types, NodeTypes
  <2>2. connector' = [connector EXCEPT ![n] = k]
    BY <1>1, <1>6
  <2>. HIDE DEF k
  <2>. QED  BY <1>1, <1>3, <1>4, <1>5, <1>6, <2>1, <2>2, ConnectorStep, ZenonT(30) DEF Open
<1>7. CASE r.to \notin Hubs
  <2>1. r.to \in Nodes /\ UNCHANGED <<running, vmac, hubVars, nodeVars, sent>>
    BY <1>1, <1>2, <1>7 DEF nodeVars
  <2>. QED  BY <1>1, <1>3, <1>4, <2>1, DirectGivenUp DEF Open
<1>. QED  BY <1>6, <1>7

LEMMA ConnectClosedStep ==
  ASSUME ConnInv, NEW c \in DOMAIN conns, connect_closed(c)
  PROVE  ConnInv'
<1>. DEFINE r == conns[c]
            n == r.from
            q == [r EXCEPT !.st["a"] = "IDLE", !.in["a"] = <<>>]
            k == Failed
<1>. USE EndNames
<1>1. /\ OK(r) /\ r.st.a = "AWAITING_ACCEPT" /\ Keep(c, q)
      /\ r.in["a"] # <<>> /\ Head(r.in["a"]).fn = "eof"
      /\ connector' = IF r.to \in Hubs THEN [connector EXCEPT ![n] = k] ELSE connector
      /\ UNCHANGED <<running, vmac, hubVars, direct, asked, sent>>
  BY AllOK DEF connect_closed, Heads, history
<1>2. n \in Nodes /\ r.to \in Nodes \cup Hubs
  BY <1>1, RecordTypes DEF OK
<1>3. /\ q \in Records /\ Alike(q, r) /\ q.cut = r.cut
      /\ q.st["a"] = "IDLE" /\ q.st["b"] = r.st["b"]
      /\ q.in["a"] = <<>> /\ q.in["b"] = r.in["b"]
  <2>1. r \in Records /\ "a" \in Ends
    BY <1>1 DEF OK
  <2>. QED  BY <2>1, DroppedFact, ZenonT(30)
<1>4. Keep(c, q)
  BY <1>1
<1>. HIDE DEF q
<1>5. r.cut \/ ~Open(r, "b")
  <2>1. Head(r.in["a"]) \in Range(r.in["a"])
    BY <1>1, TailFact, RecordTypes DEF OK
  <2>. QED  BY <1>1, <2>1 DEF OK, QueuesOK, ToldOK
<1>6. Prompt => ~Late(q)
  BY <1>3, <1>5 DEF Late, Open
<1>7. Alive(q) => QueuesOK(q) /\ StatesOK(q) /\ PartiesOK(q, running, vmac)
  <2>. SUFFICES ASSUME Alive(q) PROVE QueuesOK(q) /\ StatesOK(q) /\ PartiesOK(q, running, vmac)
    OBVIOUS
  <2>1. Open(r, "b") /\ r.cut
    BY <1>3, <1>5 DEF Alive, Open
  <2>2. Range(q.in["a"]) = {}
    BY <1>3 DEF Range
  <2>3. QueuesOK(q)
    BY <1>1, <1>3, <2>1, <2>2 DEF OK, QueuesOK, SilentOK, ToldOK, Open
  <2>4. StatesOK(q)
    BY <1>1, <1>3, <2>1 DEF OK, StatesOK, Alike, Open
  <2>5. PartiesOK(q, running, vmac)
    BY <1>1, <1>3, <2>2, PartiesStay DEF OK, Near, Alike, Open
  <2>. QED  BY <2>3, <2>4, <2>5
<1>8. CASE r.to \in Hubs
  <2>1. k \in Connectors /\ k.at = "failed" /\ ~k.woken
    BY ConnectorTypes
  <2>2. connector' = [connector EXCEPT ![n] = k]
    BY <1>1, <1>8
  <2>. HIDE DEF k
  <2>3. Open(r, "a") /\ ~Open(q, "a") /\ q.st.b = r.st.b
    BY <1>1, <1>3 DEF Open
  <2>4. UNCHANGED <<running, vmac, hubVars, direct, asked, sent>>
    BY <1>1
  <2>5. ~(k.at = "waiting" \/ (k.at = "connected" /\ ~k.woken)) /\ (k.woken => k.at = "connected")
    BY <2>1
  <2>6. q \in Records /\ Alike(q, r) /\ q.cut = r.cut
    BY <1>3
  <2>. QED  BY <1>4, <1>6, <1>7, <1>8, <2>1, <2>2, <2>3, <2>4, <2>5, <2>6, ConnectorStep
<1>9. CASE r.to \notin Hubs
  <2>1. r.to \in Nodes /\ UNCHANGED <<running, vmac, hubVars, nodeVars, sent>>
    BY <1>1, <1>2, <1>9 DEF nodeVars
  <2>. QED  BY <1>1, <1>3, <1>4, <1>7, <2>1, DirectGivenUp DEF Open
<1>. QED  BY <1>8, <1>9

\* _on_inbound_connected
LEMMA AcceptDirectStep ==
  ASSUME ConnInv, NEW c \in DOMAIN conns, accept_direct(c)
  PROVE  ConnInv'
<1>. DEFINE r == conns[c]
            t == Taken(r, "b")
            n == r.to
            v == r.vmac
            m == Msg("accept", vmac[n], NULL, 0)
            q == [Put(t, "b", m) EXCEPT !.st.b = "CONNECTED"]
            g == With(direct[n], v, c)
<1>. USE EndNames
<1>1. OK(r) /\ r.in["b"] # <<>> /\ Head(r.in["b"]).fn = "request"
  BY AllOK DEF accept_direct, Heads
<1>2. QuietRec(t, r)
  BY <1>1, QuietTaken DEF OK
<1>3. t.to = n /\ t.vmac = v /\ t.from = r.from /\ t.peer = r.peer /\ t.st = r.st /\ t.cut = r.cut
  BY <1>2 DEF QuietRec, Alike
<1>4. /\ n \in Nodes /\ r.st.b = "AWAITING_REQUEST" /\ Keep(c, q)
      /\ direct' = [direct EXCEPT ![n] = g]
      /\ UNCHANGED <<running, vmac, hubVars, connector, asked, sent>>
  BY <1>3 DEF accept_direct, history
<1>5. m \in Messages /\ m.fn = "accept" /\ m.orig = vmac[n] /\ EOF.fn = "eof"
  <2>1. vmac[n] \in VMACs
    BY <1>4, Known
  <2>2. m \in Messages /\ m.fn = "accept" /\ m.orig = vmac[n]
    BY <2>1 DEF Msg, Messages, Fns
  <2>. QED  BY <2>2, MessageTypes
<1>. HIDE DEF m
<1>6. /\ q \in Records /\ Alike(q, t) /\ q.cut = t.cut
      /\ q.st.b = "CONNECTED" /\ q.st.a = t.st.a
      /\ QueuesOK(q) /\ StatesOK(q)
      /\ Range(q.in.a) \subseteq Range(t.in.a) \cup {m, EOF}
  <2>1. t \in Records /\ SilentOK(t) /\ ToldOK(t) /\ t.st.b = "AWAITING_REQUEST"
    BY <1>2, <1>3, <1>4 DEF QuietRec, QueuesOK
  <2>2. t.from # t.to /\ t.st.a \in {"IDLE", "AWAITING_ACCEPT"}
    BY <1>1, <1>3, <1>4 DEF OK, StatesOK
  <2>. QED  BY <1>5, <2>1, <2>2, AcceptFact
<1>7. Keep(c, q)
  BY <1>4
<1>. HIDE DEF q, t
<1>8. Near(q, r) /\ q.peer = r.peer /\ q.cut = r.cut /\ q.st.a = r.st.a
  BY <1>3, <1>6 DEF Near, Alike
<1>9. PartiesOK(q, running, vmac)
  <2>1. PartiesOK(r, running, vmac) /\ Open(r, "b") /\ r.st.a # "CONNECTED"
    BY <1>1, <1>4 DEF OK, Open, StatesOK
  <2>2. \A x \in Range(q.in.a) : x.fn = "accept" => x \in Range(r.in.a) \/ x = m
    BY <1>2, <1>5, <1>6 DEF QuietRec
  <2>. QED  BY <1>5, <1>6, <1>8, <2>1, <2>2 DEF PartiesOK, Near, Open
<1>10. DOMAIN g = DOMAIN direct[n] \cup {v} /\ \A w \in DOMAIN g : g[w] = IF w = v THEN c ELSE direct[n][w]
  BY DEF With
<1>11. g = [w \in DOMAIN g |-> g[w]]
  BY DEF With
<1>. HIDE DEF g
<1>12. /\ DOMAIN direct' = Nodes /\ direct'[n] = g
       /\ \A o \in Nodes : o # n => direct'[o] = direct[o]
       /\ \A o \in Nodes : direct[o] = [w \in DOMAIN direct[o] |-> direct[o][w]]
  BY <1>4 DEF ConnInv, Types, NodeTypes
<1>13. \A o \in Nodes : direct'[o] = [w \in DOMAIN direct'[o] |-> direct'[o][w]]
  BY <1>11, <1>12
<1>14. ASSUME NEW o \in Nodes, NEW w \in DOMAIN direct[o] PROVE direct[o][w] # c
  <2>1. DirectOK(o, w)
    BY DEF ConnInv, NodesInv
  <2>2. r.st.a # "CONNECTED" /\ r.st.b # "CONNECTED"
    BY <1>1, <1>4 DEF OK, StatesOK
  <2>. QED  BY <2>1, <2>2 DEF DirectOK
<1>15. ASSUME NEW o \in Nodes, NEW w \in DOMAIN direct'[o]
       PROVE  \/ /\ direct'[o][w] = c
                 /\ \/ q.from = o /\ q.st.a = "CONNECTED" /\ q.peer = w
                    \/ q.to = o /\ q.st.b = "CONNECTED" /\ q.vmac = w
              \/ w \in DOMAIN direct[o] /\ direct'[o][w] = direct[o][w] /\ direct[o][w] # c
  BY <1>6, <1>8, <1>10, <1>12, <1>14 DEF Near
<1>16. Open(q, "a") => Open(r, "a")
  BY <1>8 DEF Open
<1>. QED  BY <1>4, <1>6, <1>7, <1>8, <1>9, <1>12, <1>13, <1>15, <1>16, DirectStep

\* The Connect-Accept of a node switch
LEMMA DirectAcceptedStep ==
  ASSUME ConnInv, NEW c \in DOMAIN conns, direct_accepted(c)
  PROVE  ConnInv'
<1>. DEFINE r == conns[c]
            t == Taken(r, "a")
            n == r.from
            v == Head(r.in.a).orig
            q == [t EXCEPT !.st.a = "CONNECTED", !.peer = v]
            s == Shut(t, "a")
            g == With(direct[n], r.dest, c)
<1>. USE EndNames
<1>1. /\ OK(r) /\ r.in["a"] # <<>> /\ Head(r.in["a"]).fn = "accept"
      /\ Head(r.in["a"]) \in Messages /\ Head(r.in["a"]) \in Range(r.in["a"])
  <2>1. OK(r) /\ r.in["a"] # <<>> /\ Head(r.in["a"]).fn = "accept"
    BY AllOK DEF direct_accepted, Heads
  <2>2. r.in["a"] \in Seq(Messages)
    BY <2>1, RecordTypes DEF OK
  <2>. QED  BY <2>1, <2>2, TailFact, HeadTailProperties
<1>2. QuietRec(t, r)
  BY <1>1, QuietTaken DEF OK
<1>3. /\ t.to = r.to /\ t.vmac = r.vmac /\ t.from = r.from /\ t.dest = r.dest /\ t.st = r.st
      /\ t.cut = r.cut /\ t \in Records /\ Alike(t, r)
  BY <1>2 DEF QuietRec, Alike
<1>4. /\ r.to \in Nodes /\ r.st.a = "AWAITING_ACCEPT"
      /\ UNCHANGED <<running, vmac, hubVars, connector, asked, sent>>
      /\ \/ Keep(c, q) /\ r.dest = v /\ direct' = [direct EXCEPT ![n] = g]
         \/ Keep(c, s) /\ UNCHANGED direct
  BY <1>3 DEF direct_accepted, ExpectedPeer, history
<1>5. CASE Keep(c, s) /\ UNCHANGED direct
  <2>1. /\ s \in Records /\ Alike(s, t) /\ s.cut = t.cut
        /\ s.st["a"] = "IDLE" /\ s.st["b"] = t.st["b"]
        /\ Alive(s) => QueuesOK(s) /\ StatesOK(s) /\ PartiesOK(s, running, vmac)
    <3>1. SilentOK(t) /\ StatesOK(t) /\ PartiesOK(t, running, vmac)
      BY <1>1, <1>2, QuietParties DEF OK, QuietRec, QueuesOK
    <3>. QED  BY <1>3, <3>1, ShutStays
  <2>2. Keep(c, s)
    BY <1>5
  <2>. HIDE DEF s, t
  <2>3. Alike(s, r) /\ s.cut = r.cut /\ s.st.b = r.st.b /\ ~Open(s, "a")
    BY <1>3, <2>1 DEF Alike, Open
  <2>4. UNCHANGED <<running, vmac, hubVars, nodeVars, sent>>
    BY <1>4, <1>5 DEF nodeVars
  <2>. QED  BY <1>4, <2>1, <2>2, <2>3, <2>4, DirectGivenUp
<1>6. CASE Keep(c, q) /\ r.dest = v /\ direct' = [direct EXCEPT ![n] = g]
  <2>1. v \in VMACs \cup {NULL} /\ Keep(c, q)
    BY <1>1, <1>6 DEF Messages
  <2>2. n \in Nodes
    BY <1>1, RecordTypes DEF OK
  <2>. HIDE DEF t, v
  <2>3. /\ q \in Records /\ Near(q, t) /\ q.peer = v /\ q.cut = t.cut /\ q.in = t.in
        /\ q.st["a"] = "CONNECTED" /\ q.st["b"] = t.st["b"]
    BY <1>3, <2>1 DEF Records, Near, States, Ends
  <2>. HIDE DEF q
  <2>4. r.st.b \notin {"AWAITING_REQUEST", "REPLYING"}
    BY <1>1 DEF OK, QueuesOK, ToldOK
  <2>5. StatesOK(q)
    BY <1>1, <1>3, <1>4, <2>3, <2>4 DEF OK, StatesOK, Near, Open, States
  <2>6. QueuesOK(q)
    BY <1>2, <1>3, <1>4, <2>3 DEF QuietRec, QueuesOK, SilentOK, ToldOK, Open
  <2>7. PartiesOK(q, running, vmac)
    <3>1. PartiesOK(r, running, vmac) /\ Open(r, "a")
      BY <1>1, <1>4 DEF OK, Open
    <3>2. Open(r, "b") => v = vmac[r.to]
      BY <1>1, <1>4, <3>1 DEF PartiesOK, v
    <3>3. \A m \in Range(q.in.a) : m.fn = "accept" => m \in Range(r.in.a)
      BY <1>2, <2>3 DEF QuietRec
    <3>. QED  BY <1>3, <2>3, <3>1, <3>2, <3>3 DEF PartiesOK, Near, Open
  <2>8. DOMAIN g = DOMAIN direct[n] \cup {v} /\ \A w \in DOMAIN g : g[w] = IF w = v THEN c ELSE direct[n][w]
    BY <1>6 DEF With
  <2>9. g = [w \in DOMAIN g |-> g[w]]
    BY DEF With
  <2>10. direct' = [direct EXCEPT ![n] = g]
    BY <1>6
  <2>. HIDE DEF g
  <2>11. /\ DOMAIN direct' = Nodes /\ direct'[n] = g
         /\ \A o \in Nodes : o # n => direct'[o] = direct[o]
         /\ \A o \in Nodes : direct[o] = [w \in DOMAIN direct[o] |-> direct[o][w]]
    BY <2>2, <2>10 DEF ConnInv, Types, NodeTypes
  <2>12. \A o \in Nodes : direct'[o] = [w \in DOMAIN direct'[o] |-> direct'[o][w]]
    BY <2>9, <2>11
  <2>13. ASSUME NEW o \in Nodes, NEW w \in DOMAIN direct[o], direct[o][w] = c
         PROVE  q.to = o /\ q.st.b = "CONNECTED" /\ q.vmac = w
    <3>1. DirectOK(o, w)
      BY DEF ConnInv, NodesInv
    <3>. QED  BY <1>3, <1>4, <2>3, <2>13, <3>1 DEF DirectOK, Near
  <2>14. ASSUME NEW o \in Nodes, NEW w \in DOMAIN direct'[o]
         PROVE  \/ /\ direct'[o][w] = c
                   /\ \/ q.from = o /\ q.st.a = "CONNECTED" /\ q.peer = w
                      \/ q.to = o /\ q.st.b = "CONNECTED" /\ q.vmac = w
                \/ w \in DOMAIN direct[o] /\ direct'[o][w] = direct[o][w] /\ direct[o][w] # c
    <3>1. CASE o = n /\ w = v
      BY <1>3, <2>3, <2>8, <2>11, <3>1 DEF Near
    <3>2. CASE ~(o = n /\ w = v)
      <4>1. w \in DOMAIN direct[o] /\ direct'[o][w] = direct[o][w]
        BY <2>8, <2>11, <3>2
      <4>. QED  BY <2>13, <4>1
    <3>. QED  BY <3>1, <3>2
  <2>15. Near(q, r) /\ q.cut = r.cut /\ Open(r, "a")
    BY <1>3, <1>4, <2>3 DEF Near, Open
  <2>. QED  BY <1>4, <2>1, <2>3, <2>5, <2>6, <2>7, <2>11, <2>12, <2>14, <2>15, DirectStep
<1>. QED  BY <1>4, <1>5, <1>6

\* _on_direct_disconnected
LEMMA DirectIdleStep ==
  ASSUME ConnInv, NEW c \in DOMAIN conns, NEW e \in Ends, NEW r,
         conns[c].to \in Nodes, conns[c].st[e] = "CONNECTED",
         \/ conns[c].in[e] # <<>> /\ r = Taken(conns[c], e)
         \/ /\ conns[c].in[e] # <<>> /\ Head(conns[c].in[e]).fn # "eof"
            /\ r = Put(Taken(conns[c], e), e, Plain("ack")),
         go_idle(c, e, r)
  PROVE  ConnInv'
<1>. DEFINE q == Shut(r, e)
            r0 == conns[c]
            o == Owner(r0, e)
            v == IF e = "a" THEN r0.peer ELSE r0.vmac
            f == direct[o]
            g == direct'[o]
<1>. USE EndNames
<1>1. OK(r0) /\ Open(r0, e) /\ r0.to \notin Hubs
  BY AllOK, NodesAssumption DEF Open
<1>2. /\ Alike(r, r0) /\ q \in Records /\ Alike(q, r0) /\ q.cut = r0.cut
      /\ q.st[e] = "IDLE" /\ q.st[Peer(e)] = r0.st[Peer(e)]
      /\ Alive(q) => QueuesOK(q) /\ StatesOK(q) /\ PartiesOK(q, running, vmac)
  BY <1>1, EndedFact
<1>3. o \in Nodes /\ Owner(r, e) = o /\ r.to = r0.to /\ v = IF e = "a" THEN r.peer ELSE r.vmac
  BY <1>1, <1>2, RecordTypes DEF OK, Owner, Alike
<1>4. /\ Keep(c, q) /\ direct' = [direct EXCEPT ![o] = direct_disconnected(o, v, c)]
      /\ UNCHANGED <<running, vmac, hubVars, connector, asked, sent>>
  <2>1. o \notin Hubs /\ r.to \in Nodes /\ r.to \notin Hubs
    BY <1>1, <1>3, NodesAssumption
  <2>2. Keep(c, q)
    BY DEF go_idle
  <2>3. direct' = [direct EXCEPT ![o] = direct_disconnected(o, v, c)]
    BY <1>3, <2>1 DEF go_idle
  <2>4. UNCHANGED <<running, vmac, hubVars, connector, asked, sent>>
    BY <1>3, <2>1 DEF go_idle
  <2>. QED  BY <2>2, <2>3, <2>4
<1>. HIDE DEF q
<1>5. /\ DOMAIN direct' = Nodes /\ g = direct_disconnected(o, v, c)
      /\ \A n \in Nodes : n # o => direct'[n] = direct[n]
      /\ \A n \in Nodes : direct[n] = [w \in DOMAIN direct[n] |-> direct[n][w]]
  BY <1>3, <1>4 DEF ConnInv, Types, NodeTypes
<1>6. /\ DOMAIN g = {w \in DOMAIN f : ~(w = v /\ f[w] = c)}
      /\ \A w \in DOMAIN g : g[w] = f[w]
      /\ g = [w \in DOMAIN g |-> g[w]]
  <2>1. f = [w \in DOMAIN f |-> f[w]]
    BY <1>3, <1>5
  <2>2. g = IF v \in DOMAIN f /\ f[v] = c THEN Without(f, {v}) ELSE f
    BY <1>5 DEF direct_disconnected
  <2>. HIDE DEF f, g, v
  <2>3. CASE v \in DOMAIN f /\ f[v] = c
    <3>1. g = [w \in DOMAIN f \ {v} |-> f[w]]
      BY <2>2, <2>3 DEF Without, Restrict
    <3>. QED  BY <2>3, <3>1
  <2>4. CASE ~(v \in DOMAIN f /\ f[v] = c)
    BY <2>1, <2>2, <2>4
  <2>. QED  BY <2>3, <2>4
<1>7. ASSUME NEW n \in Nodes, NEW w \in DOMAIN direct[n], direct[n][w] = c
      PROVE  \/ n = o /\ w = v
             \/ q.from = n /\ q.st.a = "CONNECTED" /\ q.peer = w
             \/ q.to = n /\ q.st.b = "CONNECTED" /\ q.vmac = w
  <2>1. DirectOK(n, w)
    BY DEF ConnInv, NodesInv
  <2>2. \/ r0.from = n /\ r0.st.a = "CONNECTED" /\ r0.peer = w
        \/ r0.to = n /\ r0.st.b = "CONNECTED" /\ r0.vmac = w
    BY <1>7, <2>1 DEF DirectOK
  <2>3. q.from = r0.from /\ q.to = r0.to /\ q.peer = r0.peer /\ q.vmac = r0.vmac
    BY <1>2 DEF Alike
  <2>4. CASE e = "a"
    BY <1>2, <2>2, <2>3, <2>4 DEF Owner
  <2>5. CASE e = "b"
    BY <1>2, <2>2, <2>3, <2>5 DEF Owner
  <2>. QED  BY <2>4, <2>5
<1>8. \A n \in Nodes : direct'[n] = [w \in DOMAIN direct'[n] |-> direct'[n][w]]
  BY <1>5, <1>6
<1>9. ASSUME NEW n \in Nodes, NEW w \in DOMAIN direct'[n]
      PROVE  \/ /\ direct'[n][w] = c
                /\ \/ q.from = n /\ q.st.a = "CONNECTED" /\ q.peer = w
                   \/ q.to = n /\ q.st.b = "CONNECTED" /\ q.vmac = w
             \/ w \in DOMAIN direct[n] /\ direct'[n][w] = direct[n][w] /\ direct[n][w] # c
  <2>1. /\ w \in DOMAIN direct[n] /\ direct'[n][w] = direct[n][w]
        /\ n = o => ~(w = v /\ direct[n][w] = c)
    BY <1>5, <1>6
  <2>. HIDE DEF o, v
  <2>. QED  BY <1>7, <2>1
<1>10. Near(q, r0) /\ (Open(q, "a") => Open(r0, "a"))
  BY <1>1, <1>2 DEF Near, Alike, Open
<1>. QED  BY <1>2, <1>4, <1>5, <1>8, <1>9, <1>10, DirectStep

LEMMA ReceiveEndStep ==
  ASSUME ConnInv, NEW c \in DOMAIN conns, NEW e \in Ends, receive_end(c, e)
  PROVE  ConnInv'
<1>. DEFINE r0 == conns[c]
<1>. USE EndNames
<1>1. r0.st[e] = "CONNECTED" /\ r0.in[e] # <<>> /\ OK(r0) /\ Open(r0, e)
  BY AllOK DEF receive_end, Heads, Open
<1>2. PICK r : /\ \/ r = Taken(r0, e)
                  \/ Head(r0.in[e]).fn # "eof" /\ r = Put(Taken(r0, e), e, Plain("ack"))
               /\ go_idle(c, e, r)
  BY DEF receive_end, Heads
<1>3. r0.to \in Nodes \cup Hubs /\ r0.from \in Nodes
  BY <1>1, RecordTypes DEF OK
<1>4. CASE r0.to \in Nodes
  BY <1>1, <1>2, <1>4, DirectIdleStep
<1>5. CASE r0.to \in Hubs /\ e = "b"
  BY <1>1, <1>2, <1>5, HubIdleStep
<1>6. CASE r0.to \in Hubs /\ e = "a"
  <2>. DEFINE q == Shut(r, "a")
              n == r0.from
              k == [connector[n] EXCEPT !.woken = TRUE]
  <2>1. /\ Alike(r, r0) /\ q \in Records /\ Alike(q, r0) /\ q.cut = r0.cut
        /\ q.st["a"] = "IDLE" /\ q.st["b"] = r0.st["b"]
        /\ Alive(q) => QueuesOK(q) /\ StatesOK(q) /\ PartiesOK(q, running, vmac)
    BY <1>1, <1>2, <1>6, EndedFact
  <2>2. connector[n] \in Connectors /\ connector[n].conn = c /\ connector[n].at = "connected"
    <3>1. connector[n] \in Connectors
      BY <1>3 DEF ConnInv, Types, NodeTypes
    <3>2. connector[n].conn = c /\ connector[n].at \in {"waiting", "connected"}
      BY <1>1, <1>6 DEF ConnInv, NodesInv, Followed
    <3>3. ConnectorOK(n)
      BY <1>3 DEF ConnInv, NodesInv
    <3>. QED  BY <1>1, <1>6, <3>1, <3>2, <3>3 DEF ConnectorOK
  <2>3. on_disc(n, c) = k
    BY <2>2 DEF on_disc
  <2>4. /\ Keep(c, q) /\ connector' = [connector EXCEPT ![n] = k]
        /\ UNCHANGED <<running, vmac, hubVars, direct, asked, sent>>
    <3>1. Owner(r, "a") = n /\ r.to = r0.to /\ n \notin Hubs /\ r0.to \notin Nodes
      BY <1>3, <1>6, <2>1, NodesAssumption DEF Owner, Alike
    <3>. QED  BY <1>2, <1>6, <2>3, <3>1 DEF go_idle
  <2>5. k \in Connectors /\ k.at = "connected" /\ k.woken
    BY <2>2 DEF Connectors
  <2>. HIDE DEF q, k
  <2>6. Prompt => ~Late(q)
    BY <1>1, <1>6, <2>1 DEF Late, OK, StatesOK
  <2>. QED  BY <1>1, <1>6, <2>1, <2>4, <2>5, <2>6, ConnectorStep DEF Open
<1>. QED  BY <1>3, <1>4, <1>5, <1>6

-----------------------------------------------------------------------------
(* The connect loop, and connections that are dialled.                     *)

\* The connect loop goes on, and no connection is concerned.
LEMMA LoopStep ==
  ASSUME ConnInv, NEW n \in Nodes, NEW k \in Connectors,
         connector' = [connector EXCEPT ![n] = k],
         UNCHANGED <<running, vmac, conns, hubVars, direct, asked, sent>>,
         k.at \notin {"waiting", "connected"}, ~k.woken,
         connector[n].at \in {"trying", "asleep"} \/ (connector[n].at = "connected" /\ connector[n].woken)
  PROVE  ConnInv'
<1>1. /\ connector' \in [Nodes -> Connectors] /\ connector'[n] = k
      /\ \A m \in Nodes : m # n => connector'[m] = connector[m]
  BY DEF ConnInv, Types, NodeTypes
<1>2. Types'
  BY <1>1 DEF ConnInv, Types, ConnTypes, HubTypes, NodeTypes, hubVars
<1>3. ConnectionsInv'
  BY DEF ConnInv, ConnectionsInv
<1>4. HubsInv'
  <2>. USE DEF ConnInv, HubsInv, hubVars
  <2>1. \A h \in Hubs : \A v \in DOMAIN table[h] : Entry(h, v)'
    BY DEF Entry
  <2>2. ReservationsOwned' /\ UuidsCurrent'
    BY DEF ReservationsOwned, UuidsCurrent, Connected
  <2>3. \A c \in DOMAIN conns : Reservation(c)' /\ Entered(c)'
    BY DEF Reservation, Entered
  <2>. QED  BY <2>1, <2>2, <2>3
<1>5. n \in running /\ connector[n].at # "down"
  BY DEF ConnInv, NodesInv, ConnectorOK
<1>6. ASSUME NEW d \in DOMAIN conns'
      PROVE  Followed(d)' /\ (Prompt /\ Late(conns'[d]) => connector'[conns'[d].from].at = "down")
  <2>1. /\ conns'[d] = conns[d] /\ d \in DOMAIN conns /\ Followed(d)
        /\ (Prompt /\ Late(conns[d]) => connector[conns[d].from].at = "down")
    BY DEF ConnInv, NodesInv
  <2>2. conns[d].from \in Nodes
    BY <2>1, AllOK, RecordTypes DEF OK
  <2>. QED  BY <1>1, <1>5, <2>1, <2>2 DEF Followed
<1>7. ASSUME NEW m \in Nodes PROVE ConnectorOK(m)'
  BY <1>1, <1>5 DEF ConnInv, NodesInv, ConnectorOK
<1>8. \A m \in Nodes : \A v \in DOMAIN direct'[m] : DirectOK(m, v)'
  BY DEF ConnInv, NodesInv, DirectOK
<1>. QED  BY <1>2, <1>3, <1>4, <1>6, <1>7, <1>8 DEF ConnInv, NodesInv

LEMMA PauseStep ==
  ASSUME ConnInv, NEW n \in Nodes, run_until_disconnected(n) \/ increase_backoff(n)
  PROVE  ConnInv'
<1>1. connector[n] \in Connectors /\ DOMAIN connector = Nodes
  BY DEF ConnInv, Types, NodeTypes
<1>2. MinDelay \in Nat /\ MaxDelay \in Nat /\ MinDelay <= MaxDelay
  BY NodesAssumption
<1>3. connector[n].delay \in MinDelay .. MaxDelay
  BY <1>1 DEF Connectors
<1>4. Longer(connector[n].delay) \in MinDelay .. MaxDelay
  BY <1>2, <1>3 DEF Longer
<1>5. PICK d \in MinDelay .. MaxDelay : connector' = [connector EXCEPT ![n] = Trying(1, d)]
  BY <1>3, <1>4 DEF run_until_disconnected, increase_backoff
<1>. DEFINE k == Trying(1, d)
<1>6. k \in Connectors /\ k.at = "trying" /\ ~k.woken
  BY ConnectorTypes
<1>7. connector' = [connector EXCEPT ![n] = k]
  BY <1>5
<1>. HIDE DEF k
<1>8. /\ UNCHANGED <<running, vmac, conns, hubVars, direct, asked, sent>>
      /\ connector[n].at = "asleep" \/ (connector[n].at = "connected" /\ connector[n].woken)
  BY DEF run_until_disconnected, increase_backoff, history
<1>. QED  BY <1>6, <1>7, <1>8, LoopStep

\* A new connection, with the request on its way
LEMMA DialFact ==
  ASSUME ConnInv, NEW c \in Ids, c \notin DOMAIN conns, NEW n \in Nodes, n \in running,
         NEW to \in Nodes \cup Hubs, to \in running, n # to, NEW dest \in VMACs \cup {NULL},
         Dial(c, n, to, dest), UNCHANGED <<running, vmac, hubVars>>
  PROVE  /\ ConnectionsInv' /\ HubsInv'
         /\ DOMAIN conns' = DOMAIN conns \cup {c} /\ DOMAIN conns' \subseteq Ids
         /\ conns' \in [DOMAIN conns' -> Records]
         /\ \A d \in DOMAIN conns : conns'[d] = conns[d]
         /\ conns'[c].from = n /\ conns'[c].to = to
         /\ conns'[c].st.a = "AWAITING_ACCEPT" /\ conns'[c].st.b = "AWAITING_REQUEST"
<1>. DEFINE m == Plain("request")
            q == [from |-> n, to |-> to, vmac |-> vmac[n], dest |-> dest, peer |-> NULL,
                  cut |-> FALSE,
                  st |-> [a |-> "AWAITING_ACCEPT", b |-> "AWAITING_REQUEST"],
                  in |-> [a |-> <<>>, b |-> <<m>>]]
<1>1. conns' = With(conns, c, q)
  BY DEF Dial
<1>2. m \in Messages /\ vmac[n] \in VMACs
  BY MessageTypes, Known DEF Fns
<1>. HIDE DEF m
<1>3. /\ q.from = n /\ q.to = to /\ q.vmac = vmac[n] /\ ~q.cut
      /\ q.st.a = "AWAITING_ACCEPT" /\ q.st.b = "AWAITING_REQUEST"
      /\ q.in["a"] = <<>> /\ q.in["b"] = <<m>>
  OBVIOUS
<1>4. q \in Records
  <2>1. [a |-> "AWAITING_ACCEPT", b |-> "AWAITING_REQUEST"] \in [Ends -> States]
    BY DEF Ends, States
  <2>2. [a |-> <<>>, b |-> <<m>>] \in [Ends -> Seq(Messages)]
    <3>. DEFINE x == <<>>
                y == <<m>>
    <3>1. x \in Seq(Messages) /\ y \in Seq(Messages)
      BY <1>2
    <3>. HIDE DEF x, y
    <3>2. [a |-> x, b |-> y] \in [Ends -> Seq(Messages)]
      BY <3>1 DEF Ends
    <3>. QED  BY <3>2 DEF x, y
  <2>. QED  BY <1>2, <2>1, <2>2 DEF Records
<1>. HIDE DEF q
<1>5. Range(q.in["a"]) = {}
  BY <1>3 DEF Range
<1>6. StatesOK(q) /\ QueuesOK(q) /\ PartiesOK(q, running, vmac)
  <2>1. StatesOK(q)
    BY <1>3 DEF StatesOK, Open, States
  <2>2. QueuesOK(q)
    BY <1>3, <1>5 DEF QueuesOK, SilentOK, ToldOK, Open, Ends
  <2>3. PartiesOK(q, running, vmac)
    BY <1>3, <1>5 DEF PartiesOK, Open
  <2>. QED  BY <2>1, <2>2, <2>3
<1>7. /\ DOMAIN conns' = DOMAIN conns \cup {c} /\ conns'[c] = q
      /\ \A d \in DOMAIN conns : conns'[d] = conns[d]
      /\ conns' = [d \in DOMAIN conns' |-> conns'[d]]
  BY <1>1 DEF With
<1>8. /\ DOMAIN conns' \subseteq Ids /\ conns' \in [DOMAIN conns' -> Records]
  <2>1. DOMAIN conns \subseteq Ids /\ \A d \in DOMAIN conns : conns[d] \in Records
    BY DEF ConnInv, Types, ConnTypes
  <2>. QED  BY <1>4, <1>7, <2>1
<1>9. ConnectionsInv'
  BY <1>6, <1>7 DEF ConnInv, ConnectionsInv
<1>10. HubsInv'
  <2>. USE DEF ConnInv, HubsInv, hubVars
  <2>0. \A h \in Hubs : \A v \in DOMAIN table[h] :
          table[h][v] \in DOMAIN conns /\ conns'[table[h][v]] = conns[table[h][v]]
    BY <1>7 DEF Entry
  <2>1. \A h \in Hubs : \A v \in DOMAIN table[h] : Entry(h, v)'
    BY <1>7, <2>0 DEF Entry
  <2>2. ReservationsOwned' /\ UuidsCurrent'
    BY <1>7, <2>0 DEF ReservationsOwned, UuidsCurrent, Connected
  <2>3. \A d \in DOMAIN conns' : Reservation(d)'
    BY <1>3, <1>7, <2>0, SMTT(30) DEF Reservation
  <2>4. \A d \in DOMAIN conns' : Entered(d)'
    BY <1>3, <1>7 DEF Entered
  <2>. QED  BY <2>1, <2>2, <2>3, <2>4
<1>. QED  BY <1>3, <1>7, <1>8, <1>9, <1>10

LEMMA TryStep ==
  ASSUME ConnInv, NEW n \in Nodes, try_connect(n)
  PROVE  ConnInv'
<1>. DEFINE k == connector[n]
            h == URIs[k.uri]
<1>1. /\ k.at = "trying" /\ UNCHANGED <<running, vmac, hubVars, direct, asked, sent>>
      /\ \/ /\ h \in running
            /\ \E c \in Free : /\ Dial(c, n, h, NULL)
                               /\ connector' = [connector EXCEPT ![n] = [k EXCEPT !.at = "waiting", !.conn = c]]
         \/ /\ connector' = [connector EXCEPT ![n] = next_uri(k)] /\ UNCHANGED conns
  BY DEF try_connect, history
<1>2. k \in Connectors /\ n \in running /\ ~k.woken
  BY <1>1 DEF ConnInv, Types, NodeTypes, NodesInv, ConnectorOK
<1>3. h \in Hubs /\ h \notin Nodes
  <2>1. k.uri \in DOMAIN URIs
    BY <1>2 DEF Connectors
  <2>. QED  BY <2>1, NodesAssumption
<1>. HIDE DEF h
<1>4. CASE connector' = [connector EXCEPT ![n] = next_uri(k)] /\ UNCHANGED conns
  <2>. DEFINE x == next_uri(k)
  <2>1. x \in Connectors /\ x.at \in {"trying", "asleep"} /\ ~x.woken
    BY <1>2, ConnectorTypes
  <2>2. connector' = [connector EXCEPT ![n] = x]
    BY <1>4
  <2>. HIDE DEF x
  <2>. QED  BY <1>1, <1>4, <2>1, <2>2, LoopStep
<1>5. ASSUME h \in running, NEW c \in Free, Dial(c, n, h, NULL),
             connector' = [connector EXCEPT ![n] = [k EXCEPT !.at = "waiting", !.conn = c]]
      PROVE  ConnInv'
  <2>. DEFINE x == [k EXCEPT !.at = "waiting", !.conn = c]
  <2>0. k.at = "trying" /\ UNCHANGED <<running, vmac, hubVars, direct, asked, sent>>
    BY <1>1
  <2>1. c \in Ids /\ c \notin DOMAIN conns
    BY <1>5 DEF Free
  <2>2. /\ ConnectionsInv' /\ HubsInv'
        /\ DOMAIN conns' = DOMAIN conns \cup {c} /\ DOMAIN conns' \subseteq Ids
        /\ conns' \in [DOMAIN conns' -> Records]
        /\ \A d \in DOMAIN conns : conns'[d] = conns[d]
        /\ conns'[c].from = n /\ conns'[c].to = h
        /\ conns'[c].st.a = "AWAITING_ACCEPT" /\ conns'[c].st.b = "AWAITING_REQUEST"
    BY <1>1, <1>2, <1>3, <1>5, <2>1, DialFact
  <2>3. x \in Connectors /\ x.at = "waiting" /\ x.conn = c /\ ~x.woken
    BY <1>2, <2>1 DEF Connectors, Ats
  <2>4. connector' = [connector EXCEPT ![n] = x]
    BY <1>5
  <2>. HIDE DEF x
  <2>5. /\ connector' \in [Nodes -> Connectors] /\ connector'[n] = x
        /\ \A m \in Nodes : m # n => connector'[m] = connector[m]
    BY <2>3, <2>4 DEF ConnInv, Types, NodeTypes
  <2>6. Types'
    BY <2>0, <2>2, <2>5 DEF ConnInv, Types, ConnTypes, HubTypes, NodeTypes, hubVars
  <2>7. ASSUME NEW d \in DOMAIN conns'
        PROVE  Followed(d)' /\ (Prompt /\ Late(conns'[d]) => connector'[conns'[d].from].at = "down")
    <3>1. CASE d = c
      BY <2>2, <2>3, <2>5, <3>1 DEF Followed, Late, Open
    <3>2. CASE d # c
      <4>1. /\ conns'[d] = conns[d] /\ d \in DOMAIN conns /\ Followed(d)
            /\ (Prompt /\ Late(conns[d]) => connector[conns[d].from].at = "down")
        BY <2>2, <3>2 DEF ConnInv, NodesInv
      <4>2. conns[d].from \in Nodes
        BY <4>1, AllOK, RecordTypes DEF OK
      <4>. QED  BY <2>0, <2>5, <4>1, <4>2 DEF Followed
    <3>. QED  BY <3>1, <3>2
  <2>8. ASSUME NEW m \in Nodes PROVE ConnectorOK(m)'
    <3>1. ConnectorOK(m)
      BY DEF ConnInv, NodesInv
    <3>2. CASE m = n
      BY <1>2, <1>3, <2>0, <2>2, <2>3, <2>5, <3>2 DEF ConnectorOK
    <3>3. CASE m # n
      BY <2>0, <2>2, <2>5, <3>1, <3>3 DEF ConnectorOK
    <3>. QED  BY <3>2, <3>3
  <2>9. \A m \in Nodes : \A v \in DOMAIN direct'[m] : DirectOK(m, v)'
    BY <2>0, <2>2 DEF ConnInv, NodesInv, DirectOK
  <2>. QED  BY <2>2, <2>6, <2>7, <2>8, <2>9 DEF ConnInv, NodesInv
<1>. QED  BY <1>1, <1>4, <1>5

LEMMA EstablishStep ==
  ASSUME ConnInv, NEW n \in Nodes, NEW m \in Nodes, NEW v \in VMACs, establish_direct(n, m, v)
  PROVE  ConnInv'
<1>1. PICK c \in Free : Dial(c, n, m, v)
  BY DEF establish_direct
<1>2. /\ n \in running /\ m \in running /\ n # m
      /\ UNCHANGED <<running, vmac, hubVars, connector, direct, asked, sent>>
  BY DEF establish_direct
<1>3. c \in Ids /\ c \notin DOMAIN conns
  BY DEF Free
<1>4. /\ ConnectionsInv' /\ HubsInv'
      /\ DOMAIN conns' = DOMAIN conns \cup {c} /\ DOMAIN conns' \subseteq Ids
      /\ conns' \in [DOMAIN conns' -> Records]
      /\ \A d \in DOMAIN conns : conns'[d] = conns[d]
      /\ conns'[c].from = n /\ conns'[c].to = m
      /\ conns'[c].st.a = "AWAITING_ACCEPT" /\ conns'[c].st.b = "AWAITING_REQUEST"
  BY <1>1, <1>2, <1>3, DialFact
<1>5. Types'
  BY <1>2, <1>4 DEF ConnInv, Types, ConnTypes, HubTypes, NodeTypes, hubVars
<1>6. m \notin Hubs
  BY NodesAssumption
<1>7. NodesInv'
  <2>. USE <1>2, <1>4, <1>6 DEF ConnInv, NodesInv
  <2>1. \A d \in DOMAIN conns' :
          Followed(d)' /\ (Prompt /\ Late(conns'[d]) => connector'[conns'[d].from].at = "down")
    BY DEF Followed, Late
  <2>2. \A o \in Nodes : ConnectorOK(o)'
    BY DEF ConnectorOK
  <2>3. \A o \in Nodes : \A w \in DOMAIN direct'[o] : DirectOK(o, w)'
    BY DEF DirectOK
  <2>. QED  BY <2>1, <2>2, <2>3
<1>. QED  BY <1>4, <1>5, <1>7 DEF ConnInv

-----------------------------------------------------------------------------
(* Stops and starts.                                                       *)

\* The records after all connections of a device are closed
LEMMA AllShutFact ==
  ASSUME ConnInv, NEW o
  PROVE  LET f == AllShut(o) IN
         /\ DOMAIN f = DOMAIN conns
         /\ \A c \in DOMAIN conns :
              LET r == conns[c]
                  q == f[c]
              IN
              /\ q \in Records /\ Alike(q, r) /\ q.cut = r.cut
              /\ Alive(q) => QueuesOK(q) /\ StatesOK(q) /\ PartiesOK(q, running, vmac)
              /\ q.st.a = IF r.from = o THEN "IDLE" ELSE r.st.a
              /\ q.st.b = IF r.to = o THEN "IDLE" ELSE r.st.b
<1>. DEFINE f == AllShut(o)
<1>. USE EndNames
<1>1. DOMAIN f = DOMAIN conns
  BY DEF AllShut
<1>2. ASSUME NEW c \in DOMAIN conns
      PROVE  LET r == conns[c]
                 q == f[c]
             IN
             /\ q \in Records /\ Alike(q, r) /\ q.cut = r.cut
             /\ Alive(q) => QueuesOK(q) /\ StatesOK(q) /\ PartiesOK(q, running, vmac)
             /\ q.st.a = IF r.from = o THEN "IDLE" ELSE r.st.a
             /\ q.st.b = IF r.to = o THEN "IDLE" ELSE r.st.b
  <2>. DEFINE r == conns[c]
  <2>1. OK(r) /\ r.from # r.to
    BY AllOK DEF OK, StatesOK
  <2>2. f[c] = IF r.from = o THEN Shut(r, "a") ELSE IF r.to = o THEN Shut(r, "b") ELSE r
    BY DEF AllShut
  <2>. HIDE DEF f
  <2>3. ASSUME NEW e \in Ends
        PROVE  LET q == Shut(r, e) IN
               /\ q \in Records /\ Alike(q, r) /\ q.cut = r.cut
               /\ q.st[e] = "IDLE" /\ q.st[Peer(e)] = r.st[Peer(e)]
               /\ Alive(q) => QueuesOK(q) /\ StatesOK(q) /\ PartiesOK(q, running, vmac)
    BY <2>1, ShutStays DEF OK, QueuesOK
  <2>4. CASE r.from = o
    BY <2>1, <2>2, <2>3, <2>4
  <2>5. CASE r.from # o /\ r.to = o
    BY <2>1, <2>2, <2>3, <2>5
  <2>6. CASE r.from # o /\ r.to # o
    BY <2>1, <2>2, <2>6 DEF OK, Alike
  <2>. QED  BY <2>4, <2>5, <2>6
<1>. QED  BY <1>1, <1>2

LEMMA StopNodeStep ==
  ASSUME ConnInv, NEW n \in Nodes, stop_node(n)
  PROVE  ConnInv'
<1>. DEFINE f == AllShut(n)
<1>1. /\ running' = running \ {n} /\ Store(f)
      /\ connector' = [connector EXCEPT ![n] = Down]
      /\ direct' = [direct EXCEPT ![n] = Nothing]
      /\ asked' = [asked EXCEPT ![n] = Nothing]
      /\ UNCHANGED <<vmac, hubVars, sent>>
  BY DEF stop_node
<1>2. /\ DOMAIN f = DOMAIN conns
      /\ \A c \in DOMAIN conns :
              /\ f[c] \in Records /\ Alike(f[c], conns[c]) /\ f[c].cut = conns[c].cut
              /\ Alive(f[c]) => QueuesOK(f[c]) /\ StatesOK(f[c]) /\ PartiesOK(f[c], running, vmac)
              /\ f[c].st.a = IF conns[c].from = n THEN "IDLE" ELSE conns[c].st.a
              /\ f[c].st.b = IF conns[c].to = n THEN "IDLE" ELSE conns[c].st.b
  BY AllShutFact
<1>3. Became(f)
  BY <1>1, <1>2, StoreFact
<1>. HIDE DEF f
<1>4. n \notin Hubs /\ \A c \in DOMAIN conns : OK(conns[c])
  BY AllOK, NodesAssumption
<1>5. \A c \in DOMAIN conns : Alive(f[c]) => PartiesOK(f[c], running', vmac')
  <2>. TAKE c \in DOMAIN conns
  <2>. HAVE Alive(f[c])
  <2>1. PartiesOK(f[c], running, vmac)
    BY <1>2
  <2>2. Open(f[c], "a") => f[c].from # n
    BY <1>2 DEF Open, Alike
  <2>3. Open(f[c], "b") => f[c].to # n
    BY <1>2 DEF Open, Alike
  <2>. QED  BY <1>1, <2>1, <2>2, <2>3 DEF PartiesOK
<1>6. /\ ConnectionsInv' /\ DOMAIN conns' \subseteq Ids /\ conns' \in [DOMAIN conns' -> Records]
  BY <1>2, <1>3, <1>5, ConnectionsStep DEF ConnInv
<1>7. HubsInv'
  <2>1. \A c \in DOMAIN conns : HubSame(f[c], conns[c])
    <3>. TAKE c \in DOMAIN conns
    <3>1. f[c].cut \in BOOLEAN
      BY <1>2, RecordTypes
    <3>. QED  BY <1>2, <1>4, <3>1 DEF HubSame, Near, Alike, Open
  <2>. QED  BY <1>1, <1>3, <2>1, HubsStep
<1>8. /\ connector' \in [Nodes -> Connectors] /\ connector'[n] = Down
      /\ \A m \in Nodes : m # n => connector'[m] = connector[m] /\ direct'[m] = direct[m] /\ asked'[m] = asked[m]
      /\ DOMAIN direct' = Nodes /\ DOMAIN asked' = Nodes
      /\ direct'[n] = Nothing /\ asked'[n] = Nothing
  <2>1. Down \in Connectors
    BY ConnectorTypes
  <2>. QED  BY <1>1, <2>1 DEF ConnInv, Types, NodeTypes
<1>9. /\ Down.at = "down" /\ ~Down.woken
      /\ DOMAIN Nothing = {} /\ Nothing = [v \in DOMAIN Nothing |-> Nothing[v]]
      /\ Nothing \in [DOMAIN Nothing -> {"open", "set", "cancelled"}]
  BY ConnectorTypes DEF Nothing
<1>10. Types'
  <2>1. ConnTypes'
    BY <1>1, <1>6 DEF ConnInv, Types, ConnTypes
  <2>2. HubTypes'
    BY <1>1 DEF ConnInv, Types, HubTypes, hubVars
  <2>3. NodeTypes'
    <3>1. \A m \in Nodes : direct'[m] = [v \in DOMAIN direct'[m] |-> direct'[m][v]]
      BY <1>8, <1>9, ZenonT(30) DEF ConnInv, Types, NodeTypes
    <3>2. \A m \in Nodes : asked'[m] \in [DOMAIN asked'[m] -> {"open", "set", "cancelled"}]
      BY <1>8, <1>9 DEF ConnInv, Types, NodeTypes
    <3>. QED  BY <1>1, <1>8, <3>1, <3>2 DEF ConnInv, Types, NodeTypes
  <2>. QED  BY <2>1, <2>2, <2>3 DEF Types
<1>11. \A c \in DOMAIN conns' : c \in DOMAIN conns /\ conns'[c] = f[c]
  BY <1>3 DEF Became
<1>12. ASSUME NEW c \in DOMAIN conns'
       PROVE  Followed(c)' /\ (Prompt /\ Late(conns'[c]) => connector'[conns'[c].from].at = "down")
  <2>1. /\ c \in DOMAIN conns /\ conns'[c] = f[c] /\ Followed(c)
        /\ (Prompt /\ Late(conns[c]) => connector[conns[c].from].at = "down")
    BY <1>11 DEF ConnInv, NodesInv
  <2>2. conns[c].from \in Nodes
    BY <1>4, <2>1, RecordTypes DEF OK
  <2>3. /\ f[c].from = conns[c].from /\ f[c].to = conns[c].to /\ f[c].cut = conns[c].cut
        /\ f[c].st.a = IF conns[c].from = n THEN "IDLE" ELSE conns[c].st.a
        /\ f[c].to \in Hubs => f[c].st.b = conns[c].st.b
    BY <1>2, <1>4, <2>1 DEF Alike
  <2>. HIDE DEF Nothing
  <2>4. CASE conns[c].from = n
    BY <1>8, <1>9, <2>1, <2>3, <2>4 DEF Followed, Open
  <2>5. CASE conns[c].from # n
    BY <1>8, <2>1, <2>2, <2>3, <2>5 DEF Followed, Open, Late
  <2>. QED  BY <2>4, <2>5
<1>13. ASSUME NEW m \in Nodes PROVE ConnectorOK(m)'
  <2>1. CASE m = n
    BY <1>8, <1>9, <2>1 DEF ConnectorOK
  <2>2. CASE m # n
    <3>1. ConnectorOK(m) /\ connector'[m] = connector[m] /\ (m \notin running' => m \notin running)
      BY <1>1, <1>8, <2>2 DEF ConnInv, NodesInv
    <3>2. ASSUME NEW c \in DOMAIN conns, conns[c].from = m, conns[c].to \in Hubs, Open(conns[c], "a")
          PROVE  c \in DOMAIN conns' /\ conns'[c].from = m /\ conns'[c].to = conns[c].to /\ conns'[c].st.a = conns[c].st.a
      <4>1. f[c].st.a = conns[c].st.a /\ f[c].from = m /\ f[c].to = conns[c].to
        BY <1>2, <2>2, <3>2 DEF Alike
      <4>2. c \in DOMAIN conns'
        BY <1>3, <3>2, <4>1 DEF Became, Alive, Open
      <4>. QED  BY <1>11, <4>1, <4>2
    <3>. QED  BY <3>1, <3>2 DEF ConnectorOK, Open
  <2>. QED  BY <2>1, <2>2
<1>14. ASSUME NEW m \in Nodes, NEW v \in DOMAIN direct'[m] PROVE DirectOK(m, v)'
  <2>1. m # n /\ v \in DOMAIN direct[m] /\ direct'[m] = direct[m] /\ DirectOK(m, v)
    BY <1>8, <1>9 DEF ConnInv, NodesInv
  <2>. DEFINE c == direct[m][v]
  <2>2. /\ c \in DOMAIN conns
        /\ \/ conns[c].from = m /\ conns[c].to \in Nodes /\ conns[c].st.a = "CONNECTED" /\ conns[c].peer = v
           \/ conns[c].to = m /\ conns[c].st.b = "CONNECTED" /\ conns[c].vmac = v
    BY <2>1 DEF DirectOK
  <2>. HIDE DEF c
  <2>3. \/ f[c].from = m /\ f[c].to \in Nodes /\ f[c].st.a = "CONNECTED" /\ f[c].peer = v
        \/ f[c].to = m /\ f[c].st.b = "CONNECTED" /\ f[c].vmac = v
    BY <1>2, <2>1, <2>2 DEF Alike
  <2>4. c \in DOMAIN conns' /\ conns'[c] = f[c]
    BY <1>3, <1>11, <2>2, <2>3 DEF Became, Alive, Open
  <2>5. direct'[m][v] = c
    BY <2>1 DEF c
  <2>. QED  BY <2>3, <2>4, <2>5 DEF DirectOK
<1>15. NodesInv'
  BY <1>12, <1>13, <1>14 DEF NodesInv
<1>. QED  BY <1>6, <1>7, <1>10, <1>15 DEF ConnInv

LEMMA StartNodeStep ==
  ASSUME ConnInv, NEW n \in Nodes, NEW v \in VMACs, start_node(n, v)
  PROVE  ConnInv'
<1>. DEFINE k == Trying(1, MinDelay)
<1>1. /\ n \notin running /\ running' = running \cup {n} /\ vmac' = [vmac EXCEPT ![n] = v]
      /\ connector' = [connector EXCEPT ![n] = k]
      /\ UNCHANGED <<conns, hubVars, direct, asked, sent>>
  BY DEF start_node, history
<1>2. k \in Connectors /\ k.at = "trying" /\ ~k.woken
  BY ConnectorTypes
<1>. HIDE DEF k
<1>3. /\ connector' \in [Nodes -> Connectors] /\ connector'[n] = k
      /\ \A m \in Nodes : m # n => connector'[m] = connector[m] /\ vmac'[m] = vmac[m]
      /\ vmac' \in [Nodes -> VMACs]
  BY <1>1, <1>2 DEF ConnInv, Types, ConnTypes, NodeTypes
<1>4. Types'
  BY <1>1, <1>3 DEF ConnInv, Types, ConnTypes, HubTypes, NodeTypes, hubVars
<1>5. \A c \in DOMAIN conns : /\ OK(conns[c]) /\ conns[c].from \in Nodes
                              /\ Open(conns[c], "a") => conns[c].from # n
                              /\ Open(conns[c], "b") => conns[c].to # n
  <2>. TAKE c \in DOMAIN conns
  <2>1. OK(conns[c])
    BY AllOK
  <2>. QED  BY <1>1, <2>1, RecordTypes DEF OK, PartiesOK
<1>6. ConnectionsInv'
  <2>. SUFFICES ASSUME NEW c \in DOMAIN conns PROVE PartiesOK(conns[c], running', vmac')
    BY <1>1, <1>5 DEF ConnectionsInv, OK
  <2>. QED  BY <1>1, <1>3, <1>5 DEF OK, PartiesOK
<1>7. HubsInv'
  <2>. USE <1>1 DEF ConnInv, HubsInv, hubVars
  <2>1. \A h \in Hubs : \A w \in DOMAIN table[h] : Entry(h, w)'
    BY DEF Entry
  <2>2. ReservationsOwned' /\ UuidsCurrent'
    BY DEF ReservationsOwned, UuidsCurrent, Connected
  <2>3. \A c \in DOMAIN conns : Reservation(c)' /\ Entered(c)'
    BY DEF Reservation, Entered
  <2>. QED  BY <2>1, <2>2, <2>3
<1>8. ASSUME NEW c \in DOMAIN conns'
      PROVE  Followed(c)' /\ (Prompt /\ Late(conns'[c]) => connector'[conns'[c].from].at = "down")
  <2>1. /\ c \in DOMAIN conns /\ conns'[c] = conns[c] /\ Followed(c)
        /\ (Prompt /\ Late(conns[c]) => connector[conns[c].from].at = "down")
    BY <1>1 DEF ConnInv, NodesInv
  <2>2. CASE conns[c].from # n
    BY <1>3, <1>5, <2>1, <2>2 DEF Followed
  <2>3. CASE conns[c].from = n
    <3>1. ~(Prompt /\ Late(conns[c]))
      <4>1. Prompt => ~(conns[c].in.b # <<>> /\ conns[c].st.b \in {"AWAITING_REQUEST", "REPLYING"})
        BY <2>1, <2>3 DEF start_node
      <4>2. Late(conns[c]) => conns[c].in.b # <<>>
        BY <1>5, <2>1 DEF OK, QueuesOK, SilentOK, Late, Open
      <4>. QED  BY <4>1, <4>2 DEF Late
    <3>. QED  BY <1>5, <2>1, <2>3, <3>1 DEF Followed
  <2>. QED  BY <2>2, <2>3
<1>9. ASSUME NEW m \in Nodes PROVE ConnectorOK(m)'
  BY <1>1, <1>2, <1>3 DEF ConnInv, NodesInv, ConnectorOK
<1>10. \A m \in Nodes : \A w \in DOMAIN direct'[m] : DirectOK(m, w)'
  BY <1>1 DEF ConnInv, NodesInv, DirectOK
<1>. QED  BY <1>4, <1>6, <1>7, <1>8, <1>9, <1>10 DEF ConnInv, NodesInv

LEMMA StopHubStep ==
  ASSUME ConnInv, NEW h \in Hubs, stop_hub(h)
  PROVE  ConnInv'
<1>. DEFINE f == AllShut(h)
<1>1. /\ running' = running \ {h} /\ Store(f)
      /\ table' = [table EXCEPT ![h] = Nothing] /\ uuids' = [uuids EXCEPT ![h] = Nothing]
      /\ pending' = [pending EXCEPT ![h] = {}] /\ lapsed' = lapsed \ {h}
      /\ UNCHANGED <<vmac, nodeVars, sent>>
  BY DEF stop_hub
<1>2. /\ DOMAIN f = DOMAIN conns
      /\ \A c \in DOMAIN conns :
              /\ f[c] \in Records /\ Alike(f[c], conns[c]) /\ f[c].cut = conns[c].cut
              /\ Alive(f[c]) => QueuesOK(f[c]) /\ StatesOK(f[c]) /\ PartiesOK(f[c], running, vmac)
              /\ f[c].st.a = IF conns[c].from = h THEN "IDLE" ELSE conns[c].st.a
              /\ f[c].st.b = IF conns[c].to = h THEN "IDLE" ELSE conns[c].st.b
  BY AllShutFact
<1>3. Became(f)
  BY <1>1, <1>2, StoreFact
<1>. HIDE DEF f
<1>4. h \notin Nodes /\ \A c \in DOMAIN conns : OK(conns[c]) /\ conns[c].from \in Nodes
  BY AllOK, NodesAssumption, RecordTypes DEF OK
<1>5. \A c \in DOMAIN conns : Alive(f[c]) => PartiesOK(f[c], running', vmac')
  <2>. TAKE c \in DOMAIN conns
  <2>. HAVE Alive(f[c])
  <2>1. PartiesOK(f[c], running, vmac) /\ f[c].from # h
    BY <1>2, <1>4 DEF Alike
  <2>2. Open(f[c], "b") => f[c].to # h
    BY <1>2 DEF Open, Alike
  <2>. QED  BY <1>1, <2>1, <2>2 DEF PartiesOK
<1>6. /\ ConnectionsInv' /\ DOMAIN conns' \subseteq Ids /\ conns' \in [DOMAIN conns' -> Records]
  BY <1>2, <1>3, <1>5, ConnectionsStep DEF ConnInv
<1>7. NodesInv'
  <2>1. \A c \in DOMAIN conns : NodeSame(f[c], conns[c])
    BY <1>2, <1>4 DEF NodeSame, Near, Alike, Late
  <2>2. \A n \in Nodes : n \in running => n \in running'
    BY <1>1, <1>4
  <2>. QED  BY <1>1, <1>3, <2>1, <2>2, NodesStep DEF nodeVars
<1>8. /\ DOMAIN table' = Hubs /\ DOMAIN uuids' = Hubs /\ pending' \in [Hubs -> SUBSET VMACs]
      /\ table'[h] = Nothing /\ uuids'[h] = Nothing /\ pending'[h] = {}
      /\ \A g \in Hubs \ {h} : table'[g] = table[g] /\ uuids'[g] = uuids[g] /\ pending'[g] = pending[g]
  BY <1>1 DEF ConnInv, Types, HubTypes
<1>9. DOMAIN Nothing = {} /\ Nothing = [v \in DOMAIN Nothing |-> Nothing[v]]
  BY DEF Nothing
<1>10. Types'
  <2>1. ConnTypes'
    BY <1>1, <1>6 DEF ConnInv, Types, ConnTypes
  <2>2. HubTypes'
    <3>1. \A g \in Hubs :
            /\ DOMAIN table'[g] \subseteq VMACs /\ table'[g] = [v \in DOMAIN table'[g] |-> table'[g][v]]
            /\ DOMAIN uuids'[g] \subseteq Nodes /\ uuids'[g] = [u \in DOMAIN uuids'[g] |-> uuids'[g][u]]
      BY <1>8, <1>9, ZenonT(30) DEF ConnInv, Types, HubTypes
    <3>. QED  BY <1>1, <1>8, <3>1 DEF ConnInv, Types, HubTypes
  <2>3. NodeTypes'
    BY <1>1 DEF ConnInv, Types, NodeTypes, nodeVars
  <2>. QED  BY <2>1, <2>2, <2>3 DEF Types
<1>11. \A c \in DOMAIN conns' : c \in DOMAIN conns /\ conns'[c] = f[c]
  BY <1>3 DEF Became
<1>12. \A c \in DOMAIN conns :
         /\ f[c].from = conns[c].from /\ f[c].to = conns[c].to /\ f[c].vmac = conns[c].vmac
         /\ f[c].st.a = conns[c].st.a /\ f[c].cut = conns[c].cut
         /\ f[c].st.b = IF conns[c].to = h THEN "IDLE" ELSE conns[c].st.b
  BY <1>2, <1>4 DEF Alike
<1>13. \A c \in DOMAIN conns : conns[c].to # h /\ Open(conns[c], "b") => c \in DOMAIN conns' /\ conns'[c] = f[c]
  BY <1>3, <1>11, <1>12 DEF Became, Alive, Open
<1>14. HubsInv'
  <2>0. \A g \in Hubs : \A v \in DOMAIN table'[g] :
          /\ g # h /\ v \in DOMAIN table[g] /\ table'[g][v] = table[g][v]
          /\ table[g][v] \in DOMAIN conns /\ conns[table[g][v]].to = g
          /\ conns[table[g][v]].vmac = v /\ conns[table[g][v]].st.b = "CONNECTED"
          /\ table[g][v] \in DOMAIN conns' /\ conns'[table[g][v]] = f[table[g][v]]
    <3>. TAKE g \in Hubs
    <3>. TAKE v \in DOMAIN table'[g]
    <3>1. g # h /\ v \in DOMAIN table[g] /\ table'[g][v] = table[g][v]
      BY <1>8, <1>9
    <3>2. Entry(g, v)
      BY <3>1 DEF ConnInv, HubsInv
    <3>. QED  BY <1>13, <3>1, <3>2 DEF Entry, Open
  <2>1. \A g \in Hubs : \A v \in DOMAIN table'[g] : Entry(g, v)'
    BY <1>12, <2>0 DEF Entry
  <2>2. ReservationsOwned'
    <3>1. ASSUME NEW g \in Hubs, NEW v \in pending'[g]
          PROVE  \E c \in DOMAIN conns' : conns'[c].to = g /\ conns'[c].st.b = "REPLYING"
                                          /\ conns'[c].vmac = v
      <4>1. g # h /\ v \in pending[g]
        BY <1>8
      <4>2. PICK c \in DOMAIN conns : conns[c].to = g /\ conns[c].st.b = "REPLYING" /\ conns[c].vmac = v
        BY <4>1 DEF ConnInv, HubsInv, ReservationsOwned
      <4>3. c \in DOMAIN conns' /\ conns'[c] = f[c]
        BY <1>13, <4>1, <4>2 DEF Open
      <4>. QED  BY <1>12, <4>1, <4>2, <4>3
    <3>. QED  BY <3>1 DEF ReservationsOwned
  <2>3. UuidsCurrent'
    <3>1. ASSUME NEW g \in Hubs \ lapsed', NEW x \in DOMAIN uuids'[g]
          PROVE  /\ uuids'[g][x] \in DOMAIN table'[g]
                 /\ table'[g][uuids'[g][x]] \in DOMAIN conns'
                 /\ conns'[table'[g][uuids'[g][x]]].st["b"] = "CONNECTED"
                 /\ conns'[table'[g][uuids'[g][x]]].from = x
      <4>1. g # h /\ x \in DOMAIN uuids[g] /\ uuids'[g] = uuids[g] /\ table'[g] = table[g] /\ g \notin lapsed
        BY <1>1, <1>8, <1>9
      <4>. DEFINE v == uuids[g][x]
      <4>2. v \in DOMAIN table[g] /\ conns[table[g][v]].st.b = "CONNECTED" /\ conns[table[g][v]].from = x
        BY <4>1 DEF ConnInv, HubsInv, UuidsCurrent, Connected
      <4>3. uuids'[g][x] = v /\ v \in DOMAIN table'[g]
        BY <4>1, <4>2
      <4>. HIDE DEF v
      <4>. QED  BY <1>12, <2>0, <4>1, <4>2, <4>3
    <3>. QED  BY ONLY <3>1 DEF UuidsCurrent, Connected
  <2>4. ASSUME NEW c \in DOMAIN conns' PROVE Reservation(c)'
    <3>. SUFFICES ASSUME conns'[c].to \in Hubs \ lapsed', conns'[c].st.b = "REPLYING"
                  PROVE  Reservation(c)'
      BY DEF Reservation
    <3>. DEFINE g == conns[c].to
                v == conns[c].vmac
    <3>1. /\ c \in DOMAIN conns /\ conns'[c] = f[c] /\ g # h /\ conns[c].st.b = "REPLYING"
          /\ g \in Hubs \ lapsed /\ Reservation(c)
      BY <1>1, <1>11, <1>12 DEF ConnInv, HubsInv
    <3>2. /\ v \in pending'[g] /\ table'[g] = table[g]
          /\ \A d \in DOMAIN conns :
               conns[d].st.b = "REPLYING" /\ conns[d].to = g /\ conns[d].vmac = v => d = c
          /\ v \in DOMAIN table[g] =>
               conns[table[g][v]].from = conns[c].from /\ (Prompt => conns[table[g][v]].st.a = "IDLE")
      BY <1>8, <3>1 DEF Reservation
    <3>3. v \in DOMAIN table'[g] =>
            table[g][v] \in DOMAIN conns /\ conns'[table[g][v]] = f[table[g][v]]
      BY <2>0, <3>1
    <3>4. conns'[c].to = g /\ conns'[c].vmac = v /\ conns'[c].from = conns[c].from
      BY <1>12, <3>1
    <3>5. \A d \in DOMAIN conns' :
            conns'[d].st.b = "REPLYING" /\ conns'[d].to = g /\ conns'[d].vmac = v => d = c
      BY <1>11, <1>12, <3>1, <3>2
    <3>. HIDE DEF g, v
    <3>. QED  BY <1>12, <3>2, <3>3, <3>4, <3>5 DEF Reservation
  <2>5. ASSUME NEW c \in DOMAIN conns' PROVE Entered(c)'
    <3>. SUFFICES ASSUME Prompt, conns'[c].to \in Hubs \ lapsed', ~conns'[c].cut,
                         Open(conns'[c], "a"), conns'[c].st.b = "CONNECTED"
                  PROVE  /\ conns'[c].vmac \in DOMAIN table'[conns'[c].to]
                         /\ table'[conns'[c].to][conns'[c].vmac] = c
      BY DEF Entered
    <3>. DEFINE g == conns[c].to
    <3>1. c \in DOMAIN conns /\ conns'[c] = f[c] /\ Entered(c) /\ conns'[c].to = g /\ conns'[c].vmac = conns[c].vmac
      BY <1>11, <1>12 DEF ConnInv, HubsInv
    <3>2. g # h /\ conns[c].st.b = "CONNECTED" /\ g \in Hubs \ lapsed /\ Open(conns[c], "a") /\ ~conns[c].cut
      BY <1>1, <1>12, <3>1 DEF Open
    <3>3. conns[c].vmac \in DOMAIN table[g] /\ table[g][conns[c].vmac] = c
      BY <3>1, <3>2 DEF Entered
    <3>. QED  BY <1>8, <3>1, <3>2, <3>3
  <2>. QED  BY <2>1, <2>2, <2>3, <2>4, <2>5 DEF HubsInv
<1>. QED  BY <1>6, <1>7, <1>10, <1>14 DEF ConnInv

LEMMA StartHubStep ==
  ASSUME ConnInv, NEW h \in Hubs, start_hub(h)
  PROVE  ConnInv'
<1>1. running' = running \cup {h} /\ UNCHANGED <<vmac, conns, hubVars, nodeVars, sent>>
  BY DEF start_hub, history
<1>2. \A c \in DOMAIN conns : OK(conns[c]) /\ Alive(conns[c])
  BY AllOK
<1>3. ConnectionsInv'
  <2>. SUFFICES ASSUME NEW c \in DOMAIN conns PROVE PartiesOK(conns[c], running', vmac')
    BY <1>1, <1>2 DEF ConnectionsInv, OK
  <2>. QED  BY <1>1, <1>2 DEF OK, PartiesOK
<1>4. Types'
  BY <1>1 DEF ConnInv, Types, ConnTypes, HubTypes, NodeTypes, hubVars, nodeVars
<1>5. Became(conns)
  BY <1>1, <1>2 DEF Became, ConnInv, Types, ConnTypes
<1>6. \A c \in DOMAIN conns : HubSame(conns[c], conns[c]) /\ NodeSame(conns[c], conns[c])
  BY <1>2, RecordTypes DEF OK, HubSame, NodeSame, Near
<1>7. HubsInv'
  BY <1>1, <1>5, <1>6, HubsStep
<1>8. NodesInv'
  BY <1>1, <1>5, <1>6, NodesStep DEF nodeVars
<1>. QED  BY <1>3, <1>4, <1>7, <1>8 DEF ConnInv

-----------------------------------------------------------------------------
(* The invariant, and what the runs check of it.                           *)

LEMMA InitInv ==
  ASSUME Init
  PROVE  ConnInv
<1>1. DOMAIN Nothing = {} /\ Nothing = [x \in DOMAIN Nothing |-> Nothing[x]]
  BY DEF Nothing
<1>2. /\ running = Nodes \cup Hubs /\ vmac = FirstVMAC /\ conns = Nothing
      /\ table = [h \in Hubs |-> Nothing] /\ uuids = [h \in Hubs |-> Nothing]
      /\ pending = [h \in Hubs |-> {}] /\ lapsed = {}
      /\ connector = [n \in Nodes |-> Trying(1, MinDelay)]
      /\ direct = [n \in Nodes |-> Nothing] /\ asked = [n \in Nodes |-> Nothing]
      /\ sent = <<>>
  BY DEF Init
<1>3. Trying(1, MinDelay) \in Connectors /\ Trying(1, MinDelay).at = "trying" /\ ~Trying(1, MinDelay).woken
  BY ConnectorTypes
<1>. DEFINE k == Trying(1, MinDelay)
            z == Nothing
<1>. HIDE DEF k, z
<1>4. ConnTypes
  BY <1>1, <1>2, NodesAssumption DEF ConnTypes
<1>5. HubTypes
  BY <1>1, <1>2 DEF HubTypes
<1>6. NodeTypes
  <2>1. sent \in Seq(Sendings)
    BY <1>2, EmptySeq
  <2>2. \A n \in Nodes : asked[n] \in [DOMAIN asked[n] -> {"open", "set", "cancelled"}]
    BY <1>1, <1>2
  <2>. QED  BY <1>1, <1>2, <1>3, <2>1, <2>2 DEF NodeTypes
<1>7. ConnectionsInv
  BY <1>1, <1>2 DEF ConnectionsInv
<1>8. NodesInv
  <2>1. \A n \in Nodes : DOMAIN direct[n] = {}
    BY <1>1, <1>2
  <2>2. \A n \in Nodes : connector[n] = k /\ n \in running
    BY <1>2 DEF k
  <2>3. \A n \in Nodes : ConnectorOK(n)
    BY <1>3, <2>2 DEF ConnectorOK, k
  <2>. QED  BY <1>1, <1>2, <2>1, <2>3 DEF NodesInv
<1>9. HubsInv
  <2>1. \A h \in Hubs : DOMAIN table[h] = {} /\ DOMAIN uuids[h] = {} /\ pending[h] = {}
    BY <1>1, <1>2
  <2>. QED  BY <1>1, <1>2, <2>1 DEF HubsInv, ReservationsOwned, UuidsCurrent
<1>. QED  BY <1>4, <1>5, <1>6, <1>7, <1>8, <1>9 DEF ConnInv, Types

LEMMA TaskStep ==
  ASSUME ConnInv, NEW c \in DOMAIN conns, connection_task(c)
  PROVE  ConnInv'
<1>1. CASE \/ accept_request(c) \/ accept_replied(c) \/ accept_failed(c)
           \/ accept_direct(c) \/ accept_abandoned(c)
  BY <1>1, AcceptRequestStep, AcceptRepliedStep, AcceptFailedStep, AcceptDirectStep, AbandonedStep
<1>2. CASE \/ connect_accepted(c) \/ connect_refused(c) \/ connect_closed(c) \/ direct_accepted(c)
  BY <1>2, ConnectAcceptedStep, ConnectRefusedStep, ConnectClosedStep, DirectAcceptedStep
<1>3. CASE node_message(c) \/ hub_npdu(c) \/ hub_resolve(c) \/ hub_resolved(c)
  BY <1>3, NodeMessageStep, NpduStep, HubResolveStep, HubResolvedStep
<1>4. CASE heartbeat(c) \/ disconnected(c)
  BY <1>4, HeartbeatStep, DisconnectedStep
<1>5. CASE \E e \in Ends : receive_end(c, e) \/ receive_heartbeat(c, e) \/ direct_npdu(c, e)
  BY <1>5, ReceiveEndStep, ReceiveHeartbeatStep, NpduStep
<1>. QED  BY <1>1, <1>2, <1>3, <1>4, <1>5 DEF connection_task

LEMMA NextStep ==
  ConnInv /\ [Next]_vars => ConnInv'
<1>. SUFFICES ASSUME ConnInv, [Next]_vars PROVE ConnInv'
  OBVIOUS
<1>1. ASSUME NEW c \in DOMAIN conns, connection_task(c) \/ Cut(c) PROVE ConnInv'
  BY <1>1, TaskStep, CutStep
<1>2. ASSUME NEW n \in Nodes, connect_loop(n) \/ send_broadcast(n) \/ stop_node(n) PROVE ConnInv'
  BY <1>2, TryStep, PauseStep, SendStep, StopNodeStep DEF connect_loop
<1>3. ASSUME NEW n \in Nodes, NEW v \in VMACs,
             \/ send_unicast(n, v) \/ resolve_address(n, v) \/ start_node(n, v)
             \/ resolution_timeout(n, v) \/ resolution_ends(n, v)
      PROVE  ConnInv'
  BY <1>3, SendStep, ResolveStep, StartNodeStep
<1>4. ASSUME NEW n \in Nodes, NEW m \in Nodes, NEW v \in VMACs, establish_direct(n, m, v)
      PROVE  ConnInv'
  BY <1>4, EstablishStep
<1>5. ASSUME NEW h \in Hubs, stop_hub(h) \/ start_hub(h) PROVE ConnInv'
  BY <1>5, StopHubStep, StartHubStep
<1>6. CASE UNCHANGED vars
  <2>1. /\ conns' = conns /\ UNCHANGED <<running, vmac, hubVars, connector, direct>>
        /\ asked' = asked /\ sent' = sent
    BY <1>6 DEF vars, nodeVars, history
  <2>2. \A c \in DOMAIN conns : QuietRec(conns[c], conns[c]) /\ Alive(conns[c])
    BY AllOK, QuietSame DEF OK
  <2>3. Became(conns)
    BY <2>1, <2>2 DEF Became, ConnInv, Types, ConnTypes
  <2>4. /\ sent' \in Seq(Sendings) /\ DOMAIN asked' = Nodes
        /\ \A n \in Nodes : asked'[n] \in [DOMAIN asked'[n] -> {"open", "set", "cancelled"}]
    BY <2>1, Known
  <2>. QED  BY <2>1, <2>2, <2>3, <2>4, QuietStep
<1>. QED  BY <1>1, <1>2, <1>3, <1>4, <1>5, <1>6 DEF Next

LEMMA InvHubTables ==
  ConnInv => HubTablesCurrent
<1>. SUFFICES ASSUME ConnInv PROVE HubTablesCurrent
  OBVIOUS
<1>1. \A c \in DOMAIN conns : OK(conns[c])
  BY AllOK
<1>2. TypeOK
  <2>1. \A c \in DOMAIN conns : /\ conns[c].from \in Nodes /\ conns[c].to \in Nodes \cup Hubs
                                /\ conns[c].st \in [Ends -> States]
    BY <1>1 DEF OK, Records
  <2>2. ASSUME NEW h \in Hubs
        PROVE  /\ table[h] \in [DOMAIN table[h] -> DOMAIN conns]
               /\ DOMAIN table[h] \subseteq VMACs
               /\ DOMAIN uuids[h] \subseteq Nodes /\ pending[h] \subseteq VMACs
    <3>1. \A v \in DOMAIN table[h] : table[h][v] \in DOMAIN conns
      BY DEF ConnInv, HubsInv, Entry
    <3>. QED  BY <3>1 DEF ConnInv, Types, HubTypes
  <2>3. ASSUME NEW n \in Nodes
        PROVE  /\ connector[n].at \in Ats /\ connector[n].delay \in MinDelay .. MaxDelay
               /\ connector[n].uri \in DOMAIN URIs
               /\ direct[n] \in [DOMAIN direct[n] -> DOMAIN conns]
               /\ asked[n] \in [DOMAIN asked[n] -> {"open", "set", "cancelled"}]
    <3>1. \A v \in DOMAIN direct[n] : direct[n][v] \in DOMAIN conns
      BY DEF ConnInv, NodesInv, DirectOK
    <3>2. connector[n] \in Connectors /\ direct[n] = [v \in DOMAIN direct[n] |-> direct[n][v]]
      BY DEF ConnInv, Types, NodeTypes
    <3>3. asked[n] \in [DOMAIN asked[n] -> {"open", "set", "cancelled"}]
      BY Known
    <3>4. connector[n].at \in Ats /\ connector[n].delay \in MinDelay .. MaxDelay /\ connector[n].uri \in DOMAIN URIs
      BY <3>2 DEF Connectors
    <3>5. direct[n] \in [DOMAIN direct[n] -> DOMAIN conns]
      BY <3>1, <3>2
    <3>. QED  BY <3>3, <3>4, <3>5
  <2>. QED  BY <2>1, <2>2, <2>3 DEF TypeOK, ConnInv, Types, ConnTypes
<1>3. Reachable
  BY DEF ConnInv, HubsInv, Entered, Reachable, Connected, Open
<1>. QED  BY <1>2, <1>3 DEF ConnInv, HubsInv, HubTablesCurrent

LEMMA InvNodes ==
  ConnInv => NodesCurrent
<1>. SUFFICES ASSUME ConnInv PROVE NodesCurrent
  OBVIOUS
<1>. USE EndNames
<1>1. \A c \in DOMAIN conns : OK(conns[c])
  BY AllOK
<1>2. WaitsForLive
  BY DEF ConnInv, NodesInv, ConnectorOK, WaitsForLive, is_connected, Connected
<1>3. DirectCurrent
  <2>. SUFFICES ASSUME NEW n \in Nodes, NEW v \in DOMAIN direct[n]
       PROVE  LET r == conns[direct[n][v]] IN
              /\ has_direct(n, v)
              /\ IF DirectEnd(n, v) = "a" THEN r.peer = v ELSE r.vmac = v
              /\ r.st[Peer(DirectEnd(n, v))] # "IDLE" =>
                   vmac[IF DirectEnd(n, v) = "a" THEN r.to ELSE r.from] = v
    BY DEF DirectCurrent
  <2>. DEFINE c == direct[n][v]
              r == conns[c]
  <2>1. c \in DOMAIN conns /\ DirectOK(n, v)
    BY DEF ConnInv, NodesInv, DirectOK
  <2>2. r.from # r.to /\ PartiesOK(r, running, vmac)
    BY <1>1, <2>1 DEF OK, StatesOK
  <2>3. CASE r.from = n
    <3>1. DirectEnd(n, v) = "a" /\ Peer("a") = "b"
      BY <2>3 DEF DirectEnd, Peer
    <3>2. r.to \in Nodes /\ r.st.a = "CONNECTED" /\ r.peer = v
      BY <2>1, <2>2, <2>3 DEF DirectOK
    <3>3. r.st.b # "IDLE" => vmac[r.to] = v
      BY <2>2, <3>2 DEF PartiesOK, Open
    <3>. QED  BY <2>1, <3>1, <3>2, <3>3 DEF has_direct, Connected
  <2>4. CASE r.from # n
    <3>1. DirectEnd(n, v) = "b" /\ Peer("b") = "a"
      BY <2>4 DEF DirectEnd, Peer
    <3>2. r.to = n /\ r.st.b = "CONNECTED" /\ r.vmac = v
      BY <2>1, <2>4 DEF DirectOK
    <3>3. r.st.a # "IDLE" => vmac[r.from] = v
      BY <2>2, <3>2 DEF PartiesOK, Open
    <3>. QED  BY <2>1, <3>1, <3>2, <3>3 DEF has_direct, Connected
  <2>. QED  BY <2>3, <2>4
<1>. QED  BY <1>2, <1>3 DEF NodesCurrent

-----------------------------------------------------------------------------
(* The tables of a hub follow its connections, whatever is cut, evicted,   *)
(* stopped and started again (SCHubFunction._on_node_connected and         *)
(* _on_node_disconnected).  At every hub a VMAC stays reserved only as long*)
(* as the handshake it is reserved for.  At a hub that has not given a     *)
(* reservation back before that (lapsed), a UUID leads to a live connection*)
(* of that device, and, where what is sent arrives before any timeout      *)
(* (Prompt), a node that is connected is in the table of its hub.          *)
THEOREM HubTablesCurrentTheorem == Spec => []HubTablesCurrent
<1>1. Init => ConnInv
  BY InitInv
<1>2. ConnInv /\ [Next]_vars => ConnInv'
  BY NextStep
<1>3. ConnInv => HubTablesCurrent
  BY InvHubTables
<1>. QED  BY <1>1, <1>2, <1>3, PTL DEF Spec

(* A connect loop never sleeps on a connection that is dead without its end*)
(* being on the way to it (SCHubConnector._run_until_disconnected), and a  *)
(* direct connection leads to the node that has the VMAC it is entered     *)
(* under (SCNodeSwitch.establish_direct and _on_inbound_connected).        *)
THEOREM NodesCurrentTheorem == Spec => []NodesCurrent
<1>1. Init => ConnInv
  BY InitInv
<1>2. ConnInv /\ [Next]_vars => ConnInv'
  BY NextStep
<1>3. ConnInv => NodesCurrent
  BY InvNodes
<1>. QED  BY <1>1, <1>2, <1>3, PTL DEF Spec

-----------------------------------------------------------------------------
(* What is said of the NPDUs underway, and of those delivered.             *)
\* End e of the connection r has the NPDU i still to read.
Has(r, e, i) == \E m \in Range(r.in[e]) : m.fn = "npdu" /\ m.npdu = i

\* No NPDU is in the queue q twice.
NoTwice(q) ==
  \A j, k \in 1 .. Len(q) :
    q[j].fn = "npdu" /\ q[k].fn = "npdu" /\ q[j].npdu = q[k].npdu => j = k

\* What the end e of the connection r may be given of the NPDU s: it is on its
\* way to where it was sent to, in the name of its sender.
BoundFor(r, e, m, s) ==
  /\ r.to \in Hubs => m.orig = s.vmac
  /\ r.to \in Hubs /\ e = "b" => s.vmac = r.vmac /\ m.dest = s.dest
  /\ r.to \in Hubs /\ e = "a" => IF s.dest = ALL THEN r.vmac # s.vmac ELSE r.vmac = s.dest
  /\ r.to \in Nodes => m.orig = NULL /\ s.dest = IF e = "a" THEN r.vmac ELSE vmac[r.to]

Bound ==
  \A c \in DOMAIN conns, e \in Ends :
    /\ NoTwice(conns[c].in[e])
    /\ \A m \in Range(conns[c].in[e]) : m.fn = "npdu" =>
         m.npdu \in 1 .. Len(sent) /\ BoundFor(conns[c], e, m, sent[m.npdu])

\* An NPDU is underway twice only from a hub to two nodes, and to none that
\* has it already.
Once ==
  \A c \in DOMAIN conns, e \in Ends, i \in 1 .. Len(sent) : Has(conns[c], e, i) =>
    LET o == Owner(conns[c], e) IN
    /\ \A d \in DOMAIN conns, f \in Ends : Has(conns[d], f, i) /\ <<d, f>> # <<c, e>> =>
         o \in Nodes /\ Owner(conns[d], f) \in Nodes \ {o}
    /\ \A g \in DOMAIN got : g.npdu = i => o \in Nodes \ {g.to}

\* What was delivered
Delivered ==
  \A g \in DOMAIN got :
    LET s == sent[g.npdu] IN
    /\ g.npdu \in 1 .. Len(sent) /\ got[g] = 1
    /\ \A f \in DOMAIN got : f.to = g.to /\ f.npdu = g.npdu => f = g
    /\ IF s.dest = ALL THEN g.at # s.vmac ELSE g.at = s.dest
    /\ g.src \in {NULL, s.vmac}

\* A connect loop that was woken was so by the end of its connection.
WokenByEnd ==
  \A n \in Nodes :
    LET k == connector[n] IN
    k.woken /\ k.conn \in DOMAIN conns => conns[k.conn].st.a = "IDLE"

DeliveryInv == Bound /\ Once /\ Delivered /\ WokenByEnd

-----------------------------------------------------------------------------
(* What sends and delivers no NPDU leaves them as they are.                *)
LEMMA DeliverFact ==
  ASSUME NEW n, NEW m, NEW src, Deliver(n, m, src), NEW x,
         x = [to |-> n, at |-> vmac[n], npdu |-> m.npdu, src |-> src], x \notin DOMAIN got
  PROVE  /\ DOMAIN got' = DOMAIN got \cup {x} /\ got'[x] = 1
         /\ \A g \in DOMAIN got : got[g] = 1 => got'[g] = 1
<1>1. got' = [g \in DOMAIN got \cup DOMAIN SetToBag({x}) |->
                (IF g \in DOMAIN got THEN got[g] ELSE 0)
                + (IF g \in DOMAIN SetToBag({x}) THEN SetToBag({x})[g] ELSE 0)]
  BY DEF Deliver, (+)
<1>2. DOMAIN SetToBag({x}) = {x} /\ SetToBag({x})[x] = 1
  BY DEF SetToBag
<1>. QED  BY <1>1, <1>2

\* The NPDUs of the queue p are left over from those of q.
LeftOver(p, q) ==
  /\ \A m \in Range(p) : m.fn = "npdu" => m \in Range(q)
  /\ NoTwice(q) => NoTwice(p)

\* What became of a connection r on which no NPDU was sent
Passed(q, r) ==
  /\ q \in Records /\ q.from = r.from /\ q.to = r.to /\ q.vmac = r.vmac
  /\ r.st.a = "IDLE" => q.st.a = "IDLE"
  /\ \A e \in Ends : LeftOver(q.in[e], r.in[e])

LEMMA LeftOverSame ==
  /\ \A q : LeftOver(q, q)
  /\ \A q : LeftOver(<<>>, q)
  /\ \A q : LeftOver(<<EOF>>, q)
<1>1. Range(<<>>) = {} /\ Range(<<EOF>>) = {EOF}
  BY DEF Range
<1>2. NoTwice(<<>>) /\ NoTwice(<<EOF>>)
  BY DEF NoTwice
<1>3. EOF.fn # "npdu"
  BY MessageTypes
<1>. QED  BY <1>1, <1>2, <1>3 DEF LeftOver

LEMMA LeftOverTail ==
  ASSUME NEW q \in Seq(Messages), q # <<>>
  PROVE  LeftOver(Tail(q), q)
<1>1. /\ Len(Tail(q)) = Len(q) - 1 /\ Len(q) \in Nat
      /\ \A i \in 1 .. Len(Tail(q)) : Tail(q)[i] = q[i + 1]
  BY HeadTailProperties
<1>2. ASSUME NoTwice(q) PROVE NoTwice(Tail(q))
  <2>. SUFFICES ASSUME NEW j \in 1 .. Len(Tail(q)), NEW k \in 1 .. Len(Tail(q)),
                       Tail(q)[j].fn = "npdu", Tail(q)[k].fn = "npdu",
                       Tail(q)[j].npdu = Tail(q)[k].npdu
       PROVE  j = k
    BY DEF NoTwice
  <2>1. j + 1 \in 1 .. Len(q) /\ k + 1 \in 1 .. Len(q)
    BY <1>1
  <2>2. j + 1 = k + 1
    BY <1>1, <1>2, <2>1 DEF NoTwice
  <2>. QED  BY <2>2
<1>. QED  BY <1>2, TailFact DEF LeftOver

\* What was read is not there any more.
LEMMA HeadGone ==
  ASSUME NEW q \in Seq(Messages), q # <<>>, NoTwice(q), Head(q).fn = "npdu"
  PROVE  \A m \in Range(Tail(q)) : m.fn = "npdu" => m.npdu # Head(q).npdu
<1>1. /\ Len(Tail(q)) = Len(q) - 1 /\ Len(q) \in Nat /\ Len(q) # 0
      /\ \A i \in 1 .. Len(Tail(q)) : Tail(q)[i] = q[i + 1]
      /\ Tail(q) \in Seq(Messages) /\ Head(q) = q[1]
  BY HeadTailProperties, EmptySeq
<1>. SUFFICES ASSUME NEW m \in Range(Tail(q)), m.fn = "npdu", m.npdu = Head(q).npdu
     PROVE  FALSE
  OBVIOUS
<1>2. PICK i \in 1 .. Len(Tail(q)) : m = Tail(q)[i]
  BY <1>1 DEF Range
<1>3. m = q[i + 1] /\ i + 1 \in 1 .. Len(q) /\ 1 \in 1 .. Len(q)
  BY <1>1, <1>2
<1>4. i + 1 = 1
  BY <1>1, <1>3 DEF NoTwice
<1>. QED  BY <1>4

LEMMA LeftOverAppend ==
  ASSUME NEW q \in Seq(Messages), NEW m \in Messages
  PROVE  /\ m.fn # "npdu" => LeftOver(Append(q, m), q)
         /\ Range(Append(q, m)) = Range(q) \cup {m}
         /\ (\A x \in Range(q) : x.fn = "npdu" => x.npdu # m.npdu) /\ NoTwice(q) => NoTwice(Append(q, m))
<1>. DEFINE t == Append(q, m)
<1>1. /\ Len(t) = Len(q) + 1 /\ Len(q) \in Nat /\ t[Len(q) + 1] = m
      /\ \A i \in 1 .. Len(q) : t[i] = q[i]
  BY AppendProperties
<1>2. \A i \in 1 .. Len(q) : q[i] \in Range(q)
  <2>1. DOMAIN q = 1 .. Len(q)
    BY LenProperties
  <2>. QED  BY <2>1 DEF Range
<1>. HIDE DEF t
<1>3. ASSUME NoTwice(q), m.fn = "npdu" => \A x \in Range(q) : x.fn = "npdu" => x.npdu # m.npdu
      PROVE  NoTwice(t)
  <2>. SUFFICES ASSUME NEW j \in 1 .. Len(t), NEW k \in 1 .. Len(t),
                       t[j].fn = "npdu", t[k].fn = "npdu", t[j].npdu = t[k].npdu
       PROVE  j = k
    BY DEF NoTwice
  <2>1. CASE j \in 1 .. Len(q) /\ k \in 1 .. Len(q)
    BY <1>1, <1>3, <2>1 DEF NoTwice
  <2>2. CASE j = Len(q) + 1 \/ k = Len(q) + 1
    BY <1>1, <1>2, <1>3, <2>2
  <2>. QED  BY <1>1, <2>1, <2>2
<1>4. Range(t) = Range(q) \cup {m}
  BY AppendFact DEF t
<1>. QED  BY <1>3, <1>4 DEF LeftOver, t

LEMMA PassedSame ==
  ASSUME NEW r \in Records
  PROVE  Passed(r, r)
<1>. QED  BY LeftOverSame DEF Passed

LEMMA PassedTrans ==
  ASSUME NEW p, NEW q, NEW r, Passed(p, q), Passed(q, r)
  PROVE  Passed(p, r)
<1>1. \A e \in Ends : LeftOver(p.in[e], r.in[e])
  BY DEF Passed, LeftOver
<1>. QED  BY <1>1 DEF Passed

LEMMA PassedTaken ==
  ASSUME NEW r \in Records, NEW e \in Ends, r.in[e] # <<>>
  PROVE  Passed(Taken(r, e), r)
<1>. DEFINE q == Taken(r, e)
<1>1. /\ q \in Records /\ Alike(q, r) /\ q.st = r.st
      /\ q.in[Peer(e)] = r.in[Peer(e)] /\ q.in[e] = Tail(r.in[e])
  BY TakenFact
<1>. HIDE DEF q
<1>2. LeftOver(q.in[e], r.in[e]) /\ LeftOver(q.in[Peer(e)], r.in[Peer(e)])
  BY <1>1, QueueType, LeftOverTail, LeftOverSame
<1>3. \A f \in Ends : LeftOver(q.in[f], r.in[f])
  BY <1>2, EndsFact
<1>. QED  BY <1>1, <1>3 DEF Passed, Alike, q

LEMMA PassedPut ==
  ASSUME NEW r \in Records, NEW e \in Ends, NEW m \in Messages, m.fn # "npdu"
  PROVE  Passed(Put(r, e, m), r)
<1>. DEFINE q == Put(r, e, m)
<1>1. /\ q \in Records /\ Alike(q, r) /\ q.st = r.st
      /\ r.cut => q.in[e] = <<EOF>> /\ q.in[Peer(e)] = r.in[Peer(e)]
      /\ ~r.cut => /\ q.in[e] = r.in[e]
                   /\ \/ q.in[Peer(e)] = Append(r.in[Peer(e)], m)
                      \/ q.in[Peer(e)] = r.in[Peer(e)]
  BY PutFact
<1>. HIDE DEF q
<1>2. Peer(e) \in Ends
  BY EndsFact
<1>3. LeftOver(q.in[e], r.in[e])
  BY <1>1, LeftOverSame
<1>4. LeftOver(q.in[Peer(e)], r.in[Peer(e)])
  BY <1>1, <1>2, QueueType, LeftOverAppend, LeftOverSame
<1>5. \A f \in Ends : LeftOver(q.in[f], r.in[f])
  BY <1>3, <1>4, EndsFact
<1>. QED  BY <1>1, <1>5 DEF Passed, Alike, q

LEMMA PassedState ==
  ASSUME NEW r \in Records, NEW e \in Ends, NEW s \in States,
         e = "b" \/ s = "IDLE" \/ r.st.a # "IDLE"
  PROVE  Passed([r EXCEPT !.st[e] = s], r)
<1>. DEFINE q == [r EXCEPT !.st[e] = s]
<1>1. /\ q \in Records /\ Alike(q, r) /\ q.in = r.in
      /\ q.st[e] = s /\ q.st[Peer(e)] = r.st[Peer(e)]
  BY StateFact
<1>. HIDE DEF q
<1>2. r.st.a = "IDLE" => q.st.a = "IDLE"
  <2>1. CASE e = "a"
    BY <1>1, <2>1
  <2>2. CASE e = "b"
    BY <1>1, <2>2 DEF Peer
  <2>. QED  BY <2>1, <2>2 DEF Ends
<1>3. \A f \in Ends : LeftOver(q.in[f], r.in[f])
  BY <1>1, LeftOverSame
<1>. QED  BY <1>1, <1>2, <1>3 DEF Passed, Alike, q

LEMMA PassedDropped ==
  ASSUME NEW r \in Records, NEW e \in Ends
  PROVE  Passed([r EXCEPT !.st[e] = "IDLE", !.in[e] = <<>>], r)
<1>. DEFINE q == [r EXCEPT !.st[e] = "IDLE", !.in[e] = <<>>]
<1>1. /\ q \in Records /\ Alike(q, r)
      /\ q.st[e] = "IDLE" /\ q.st[Peer(e)] = r.st[Peer(e)]
      /\ q.in[e] = <<>> /\ q.in[Peer(e)] = r.in[Peer(e)]
  BY DroppedFact
<1>. HIDE DEF q
<1>2. r.st.a = "IDLE" => q.st.a = "IDLE"
  BY <1>1 DEF Ends, Peer
<1>3. \A f \in Ends : LeftOver(q.in[f], r.in[f])
  BY <1>1, LeftOverSame, EndsFact
<1>. QED  BY <1>1, <1>2, <1>3 DEF Passed, Alike, q

LEMMA PassedShut ==
  ASSUME NEW r \in Records, NEW e \in Ends
  PROVE  Passed(Shut(r, e), r) /\ Shut(r, e).st[e] = "IDLE"
<1>1. [r EXCEPT !.st[e] = "IDLE", !.in[e] = <<>>] \in Records
  BY DroppedFact
<1>2. Passed([r EXCEPT !.st[e] = "IDLE", !.in[e] = <<>>], r)
  BY PassedDropped
<1>3. EOF \in Messages /\ EOF.fn # "npdu"
  BY MessageTypes
<1>4. Passed(Put([r EXCEPT !.st[e] = "IDLE", !.in[e] = <<>>], e, EOF), [r EXCEPT !.st[e] = "IDLE", !.in[e] = <<>>])
  BY <1>1, <1>3, PassedPut
<1>5. Passed(Put([r EXCEPT !.st[e] = "IDLE", !.in[e] = <<>>], e, EOF), r)
  BY <1>2, <1>4, PassedTrans
<1>6. Passed(Shut(r, e), r)
  BY <1>2, <1>5 DEF Shut
<1>. QED  BY <1>6, ShutFact

\* No NPDU was sent or delivered.
Quiet ==
  /\ UNCHANGED <<sent, got>>
  /\ \A c \in DOMAIN conns' :
       IF c \in DOMAIN conns THEN Passed(conns'[c], conns[c])
       ELSE c \in Free /\ \A e \in Ends : NoTwice(conns'[c].in[e])
                                         /\ \A m \in Range(conns'[c].in[e]) : m.fn # "npdu"

\* The connect loop of n was woken, if now, by the end of its connection.
RightlyWoken(n) ==
  connector'[n].woken =>
    \/ connector[n].woken /\ connector'[n].conn = connector[n].conn
    \/ connector'[n].conn \in DOMAIN conns' => conns'[connector'[n].conn].st.a = "IDLE"

LEMMA NothingSent ==
  ASSUME ConnInv, DeliveryInv, Quiet, \A n \in Nodes : RightlyWoken(n),
         \A n \in Nodes \cap running : vmac'[n] = vmac[n]
  PROVE  DeliveryInv'
<1>1. sent' = sent /\ got' = got
  BY DEF Quiet
<1>2. ASSUME NEW c \in DOMAIN conns', NEW e \in Ends
      PROVE  /\ NoTwice(conns'[c].in[e])
             /\ \A m \in Range(conns'[c].in[e]) : m.fn = "npdu" =>
                  /\ c \in DOMAIN conns /\ Passed(conns'[c], conns[c]) /\ m \in Range(conns[c].in[e])
  <2>1. CASE c \in DOMAIN conns
    <3>1. NoTwice(conns[c].in[e])
      BY <2>1 DEF DeliveryInv, Bound
    <3>. QED  BY <2>1, <3>1 DEF Quiet, Passed, LeftOver
  <2>2. CASE c \notin DOMAIN conns
    BY <2>2 DEF Quiet
  <2>. QED  BY <2>1, <2>2
<1>3. Bound'
  <2>. SUFFICES ASSUME NEW c \in DOMAIN conns', NEW e \in Ends,
                       NEW m \in Range(conns'[c].in[e]), m.fn = "npdu"
       PROVE  m.npdu \in 1 .. Len(sent') /\ BoundFor(conns[c], e, m, sent[m.npdu])'
    BY <1>2 DEF Bound
  <2>1. /\ c \in DOMAIN conns /\ Passed(conns'[c], conns[c]) /\ m \in Range(conns[c].in[e])
        /\ m.npdu \in 1 .. Len(sent) /\ BoundFor(conns[c], e, m, sent[m.npdu])
    BY <1>2 DEF DeliveryInv, Bound
  <2>2. conns[c].to \in Nodes /\ e = "b" => vmac'[conns[c].to] = vmac[conns[c].to]
    <3>. SUFFICES ASSUME conns[c].to \in Nodes, e = "b" PROVE conns[c].to \in running
      OBVIOUS
    <3>1. conns[c].in.b # <<>>
      BY <2>1 DEF Range
    <3>2. OK(conns[c])
      BY <2>1, AllOK
    <3>3. Open(conns[c], "b")
      BY <3>1, <3>2, EndNames DEF OK, QueuesOK, SilentOK
    <3>. QED  BY <3>2, <3>3 DEF OK, PartiesOK
  <2>. QED  BY <1>1, <2>1, <2>2 DEF BoundFor, Passed, Ends
<1>4. Once'
  <2>1. \A c \in DOMAIN conns', e \in Ends, i \in 1 .. Len(sent) : Has(conns'[c], e, i) =>
          c \in DOMAIN conns /\ Has(conns[c], e, i) /\ Owner(conns'[c], e) = Owner(conns[c], e)
    BY <1>2 DEF Has, Owner, Passed
  <2>. QED  BY <1>1, <2>1 DEF Once, DeliveryInv
<1>5. Delivered'
  BY <1>1 DEF DeliveryInv, Delivered
<1>6. WokenByEnd'
  <2>. SUFFICES ASSUME NEW n \in Nodes, connector'[n].woken, connector'[n].conn \in DOMAIN conns'
       PROVE  conns'[connector'[n].conn].st.a = "IDLE"
    BY DEF WokenByEnd
  <2>. DEFINE c == connector'[n].conn
  <2>1. CASE connector[n].woken /\ c = connector[n].conn
    <3>1. c \in DOMAIN conns
      BY <2>1 DEF Quiet, Free
    <3>2. conns[c].st.a = "IDLE"
      BY <2>1, <3>1 DEF DeliveryInv, WokenByEnd
    <3>. QED  BY <3>1, <3>2 DEF Quiet, Passed
  <2>. QED  BY <2>1 DEF RightlyWoken
<1>. QED  BY <1>3, <1>4, <1>5, <1>6 DEF DeliveryInv

Unheard ==
  /\ Quiet /\ \A n \in Nodes : RightlyWoken(n)
  /\ \A n \in Nodes \cap running : vmac'[n] = vmac[n]

LEMMA StoredUnheard ==
  ASSUME ConnInv, NEW f, DOMAIN f = DOMAIN conns, Store(f),
         \A c \in DOMAIN conns : Passed(f[c], conns[c]), UNCHANGED <<sent, got>>
  PROVE  Quiet
<1>1. Became(f)
  BY StoreFact
<1>. QED  BY <1>1 DEF Became, Quiet

LEMMA KeptUnheard ==
  ASSUME ConnInv, NEW c \in DOMAIN conns, NEW q, Keep(c, q), Passed(q, conns[c]),
         UNCHANGED <<sent, got>>
  PROVE  Quiet /\ (c \in DOMAIN conns' => conns'[c] = q)
<1>. DEFINE f == [conns EXCEPT ![c] = q]
<1>1. Became(f) /\ \A d \in DOMAIN conns : f[d] = IF d = c THEN q ELSE conns[d]
  BY KeepFact DEF ConnInv
<1>. HIDE DEF f
<1>2. \A d \in DOMAIN conns : Passed(f[d], conns[d])
  BY <1>1, PassedSame, Known
<1>. QED  BY <1>1, <1>2 DEF Became, Quiet

LEMMA KeptUnchanged ==
  ASSUME ConnInv, NEW c \in DOMAIN conns, NEW q, Keep(c, q), Passed(q, conns[c]),
         UNCHANGED <<vmac, connector, sent, got>>
  PROVE  Unheard
<1>1. Quiet
  BY KeptUnheard
<1>. QED  BY <1>1 DEF Unheard, RightlyWoken

\* Where no connection changes
LEMMA NoneUnheard ==
  ASSUME ConnInv, UNCHANGED <<conns, sent, got>>
  PROVE  Quiet
<1>. QED  BY PassedSame, Known DEF Quiet

LEMMA WordsFact ==
  \A fn \in Fns \ {"npdu"} : Plain(fn) \in Messages /\ Plain(fn).fn # "npdu"
<1>. QED  BY MessageTypes

LEMMA IdleUnheard ==
  ASSUME ConnInv, NEW c \in DOMAIN conns, NEW e \in Ends, NEW r \in Records,
         Passed(r, conns[c]), go_idle(c, e, r)
  PROVE  Unheard
<1>. DEFINE o == Owner(r, e)
            q == Shut(r, e)
<1>1. /\ Keep(c, q) /\ UNCHANGED <<vmac, sent, got>>
      /\ \/ UNCHANGED connector
         \/ e = "a" /\ connector' = [connector EXCEPT ![o] = on_disc(o, c)]
  BY DEF go_idle
<1>2. Passed(q, conns[c]) /\ q.st[e] = "IDLE"
  BY PassedShut, PassedTrans
<1>. HIDE DEF q
<1>3. Quiet /\ (c \in DOMAIN conns' => conns'[c] = q)
  BY <1>1, <1>2, KeptUnheard
<1>4. ASSUME NEW n \in Nodes PROVE RightlyWoken(n)
  <2>1. CASE UNCHANGED connector
    BY <2>1 DEF RightlyWoken
  <2>2. CASE e = "a" /\ connector' = [connector EXCEPT ![o] = on_disc(o, c)]
    <3>1. DOMAIN connector = Nodes /\ connector[n] \in Connectors
      BY DEF ConnInv, Types, NodeTypes
    <3>2. CASE n # o
      BY <2>2, <3>1, <3>2 DEF RightlyWoken
    <3>3. CASE n = o /\ connector'[n] = connector[n]
      BY <3>3 DEF RightlyWoken
    <3>4. CASE n = o /\ connector[n].conn = c /\ connector'[n] = [connector[n] EXCEPT !.woken = TRUE]
      <4>1. connector'[n].conn = c
        BY <3>1, <3>4 DEF Connectors
      <4>. QED  BY <1>2, <1>3, <2>2, <4>1 DEF RightlyWoken
    <3>. QED  BY <2>2, <3>1, <3>2, <3>3, <3>4 DEF on_disc
  <2>. QED  BY <1>1, <2>1, <2>2
<1>. QED  BY <1>1, <1>3, <1>4 DEF Unheard

LEMMA PassedAccepted ==
  ASSUME NEW r \in Records, NEW m \in Messages, m.fn # "npdu"
  PROVE  /\ Passed([Put(r, "b", m) EXCEPT !.st.b = "CONNECTED"], r)
         /\ Passed(Leaving(r), r)
<1>. USE EndNames
<1>1. Plain("disconnect") \in Messages /\ Plain("disconnect").fn # "npdu"
  BY WordsFact DEF Fns
<1>2. ASSUME NEW x \in Messages, x.fn # "npdu", NEW s \in States
      PROVE  Passed([Put(r, "b", x) EXCEPT !.st["b"] = s], r)
  <2>. DEFINE p == Put(r, "b", x)
  <2>1. p \in Records /\ Passed(p, r)
    BY <1>2, PassedPut DEF Passed
  <2>. HIDE DEF p
  <2>2. Passed([p EXCEPT !.st["b"] = s], p)
    BY <2>1, PassedState
  <2>3. Passed([p EXCEPT !.st["b"] = s], r)
    BY <2>1, <2>2, PassedTrans
  <2>. QED  BY <2>3 DEF p
<1>3. "CONNECTED" \in States /\ "DISCONNECTING" \in States
  BY DEF States
<1>. QED  BY <1>1, <1>2, <1>3 DEF Leaving

LEMMA ConnectedUnheard ==
  ASSUME ConnInv, NEW c \in DOMAIN conns, NEW r \in Records, NEW h, Passed(r, conns[c]),
         node_connected(h, c, r)
  PROVE  Unheard
<1>. DEFINE q == [Put(r, "b", Plain("accept")) EXCEPT !.st.b = "CONNECTED"]
            cs == [conns EXCEPT ![c] = q]
            gone == {table[h][v] : v \in Evicts(h, r.from, r.vmac)}
            f == [d \in DOMAIN cs |-> IF d \in gone THEN Leaving(cs[d]) ELSE cs[d]]
<1>1. Store(f) /\ UNCHANGED <<vmac, connector, sent, got>>
  BY DEF node_connected, nodeVars, history
<1>2. Passed(q, conns[c])
  <2>1. Plain("accept") \in Messages /\ Plain("accept").fn # "npdu"
    BY WordsFact DEF Fns
  <2>2. Passed(q, r)
    BY <2>1, PassedAccepted
  <2>. HIDE DEF q
  <2>. QED  BY <2>2, PassedTrans
<1>. HIDE DEF q, gone
<1>3. DOMAIN f = DOMAIN conns /\ \A d \in DOMAIN conns : cs[d] = IF d = c THEN q ELSE conns[d]
  BY DEF ConnInv, Types, ConnTypes
<1>. HIDE DEF cs
<1>4. \A d \in DOMAIN conns : Passed(cs[d], conns[d])
  BY <1>2, <1>3, PassedSame, Known
<1>5. \A d \in DOMAIN conns : Passed(Leaving(cs[d]), conns[d])
  <2>. TAKE d \in DOMAIN conns
  <2>1. cs[d] \in Records /\ Passed(cs[d], conns[d])
    BY <1>4 DEF Passed
  <2>2. Plain("accept") \in Messages /\ Plain("accept").fn # "npdu"
    BY WordsFact DEF Fns
  <2>3. Passed(Leaving(cs[d]), cs[d])
    BY <2>1, <2>2, PassedAccepted
  <2>. QED  BY <2>1, <2>3, PassedTrans
<1>6. \A d \in DOMAIN conns : f[d] = Leaving(cs[d]) \/ f[d] = cs[d]
  BY <1>3
<1>. HIDE DEF f
<1>7. \A d \in DOMAIN conns : Passed(f[d], conns[d])
  BY <1>4, <1>5, <1>6
<1>8. Quiet
  BY <1>1, <1>3, <1>7, StoredUnheard
<1>. QED  BY <1>1, <1>8 DEF Unheard, RightlyWoken

LEMMA AcceptUnheard ==
  ASSUME ConnInv, NEW c \in DOMAIN conns,
         \/ accept_request(c) \/ accept_replied(c) \/ accept_failed(c)
         \/ accept_direct(c) \/ accept_abandoned(c)
  PROVE  Unheard
<1>. DEFINE r == conns[c]
            t == Taken(r, "b")
<1>. USE EndNames
<1>1. r \in Records /\ Passed(r, r)
  BY Known, PassedSame
<1>2. r.in["b"] # <<>> => t \in Records /\ Passed(t, r)
  BY <1>1, PassedTaken DEF Passed
<1>3. Plain("nak") \in Messages /\ Plain("nak").fn # "npdu"
  BY WordsFact DEF Fns
<1>4. "REPLYING" \in States /\ "IDLE" \in States /\ "CONNECTED" \in States
  BY DEF States
<1>5. CASE accept_request(c)
  <2>1. t \in Records /\ Passed(t, r)
    BY <1>2, <1>5 DEF accept_request, Heads
  <2>2. CASE node_connected(t.to, c, t)
    BY <2>1, <2>2, ConnectedUnheard
  <2>3. CASE /\ UNCHANGED <<vmac, connector, sent, got>>
             /\ \/ Keep(c, [t EXCEPT !.st.b = "REPLYING"])
                \/ Keep(c, Shut(Put(t, "b", Plain("nak")), "b"))
    <3>1. Passed([t EXCEPT !.st["b"] = "REPLYING"], t)
      BY <1>4, <2>1, PassedState
    <3>2. Passed([t EXCEPT !.st["b"] = "REPLYING"], r)
      BY <2>1, <3>1, PassedTrans
    <3>3. Passed(Put(t, "b", Plain("nak")), t) /\ Put(t, "b", Plain("nak")) \in Records
      BY <1>3, <2>1, PassedPut DEF Passed
    <3>4. Passed(Shut(Put(t, "b", Plain("nak")), "b"), Put(t, "b", Plain("nak")))
      BY <3>3, PassedShut
    <3>5. Passed(Shut(Put(t, "b", Plain("nak")), "b"), r)
      BY <2>1, <3>3, <3>4, PassedTrans
    <3>. QED  BY <2>3, <3>2, <3>5, KeptUnchanged
  <2>. QED  BY <1>5, <2>2, <2>3 DEF accept_request, nodeVars, history
<1>6. CASE accept_replied(c)
  BY <1>1, <1>6, ConnectedUnheard DEF accept_replied
<1>7. CASE accept_failed(c)
  <2>1. Passed([r EXCEPT !.st["b"] = "IDLE"], r)
    BY <1>1, <1>4, PassedState
  <2>. QED  BY <1>7, <2>1, KeptUnchanged DEF accept_failed, nodeVars, history
<1>8. CASE accept_direct(c)
  <2>1. t \in Records /\ Passed(t, r)
    BY <1>2, <1>8 DEF accept_direct, Heads
  <2>. DEFINE m == Msg("accept", vmac[t.to], NULL, 0)
  <2>2. m \in Messages /\ m.fn # "npdu"
    <3>1. vmac[t.to] \in VMACs
      BY <1>8, Known DEF accept_direct
    <3>. QED  BY <3>1 DEF Msg, Messages, Fns
  <2>3. Keep(c, [Put(t, "b", m) EXCEPT !.st.b = "CONNECTED"]) /\ UNCHANGED <<vmac, connector, sent, got>>
    BY <1>8 DEF accept_direct, nodeVars, history
  <2>. HIDE DEF m
  <2>4. Passed([Put(t, "b", m) EXCEPT !.st.b = "CONNECTED"], t)
    BY <2>1, <2>2, PassedAccepted
  <2>5. Passed([Put(t, "b", m) EXCEPT !.st.b = "CONNECTED"], r)
    BY <2>1, <2>4, PassedTrans
  <2>. QED  BY <2>3, <2>5, KeptUnchanged
<1>9. CASE accept_abandoned(c)
  <2>1. Passed(Shut(r, "b"), r)
    BY <1>1, PassedShut
  <2>. QED  BY <1>9, <2>1, KeptUnchanged DEF accept_abandoned, nodeVars, history
<1>. QED  BY <1>5, <1>6, <1>7, <1>8, <1>9

LEMMA ConnectUnheard ==
  ASSUME ConnInv, NEW c \in DOMAIN conns,
         connect_accepted(c) \/ connect_refused(c) \/ connect_closed(c) \/ direct_accepted(c)
  PROVE  Unheard
<1>. DEFINE r == conns[c]
            t == Taken(r, "a")
            n == r.from
<1>. USE EndNames
<1>1. r \in Records /\ Passed(r, r)
  BY Known, PassedSame
<1>2. r.in["a"] # <<>> => t \in Records /\ Passed(t, r) /\ t.st = r.st
  BY <1>1, PassedTaken, TakenFact DEF Passed
<1>3. /\ UNCHANGED <<vmac, sent, got>> /\ r.st.a = "AWAITING_ACCEPT"
      /\ DOMAIN connector = Nodes /\ \A o \in Nodes : connector[o] \in Connectors
  BY <1>2 DEF connect_accepted, connect_refused, connect_closed, direct_accepted, history, Heads,
              ConnInv, Types, NodeTypes
<1>4. PICK q : Keep(c, q) /\ Passed(q, r)
  <2>1. CASE connect_accepted(c)
    <3>1. Keep(c, [t EXCEPT !.st["a"] = "CONNECTED"]) /\ r.in["a"] # <<>> /\ "CONNECTED" \in States
      BY <2>1 DEF connect_accepted, Heads, States
    <3>2. Passed([t EXCEPT !.st["a"] = "CONNECTED"], t)
      BY <1>2, <1>3, <3>1, PassedState
    <3>. QED  BY <1>2, <3>1, <3>2, PassedTrans
  <2>2. CASE connect_refused(c)
    <3>1. Passed(Shut(r, "a"), r)
      BY <1>1, PassedShut
    <3>. QED  BY <2>2, <3>1 DEF connect_refused
  <2>3. CASE connect_closed(c)
    <3>1. Passed([r EXCEPT !.st["a"] = "IDLE", !.in["a"] = <<>>], r)
      BY <1>1, PassedDropped
    <3>. QED  BY <2>3, <3>1 DEF connect_closed
  <2>4. CASE direct_accepted(c)
    <3>. DEFINE v == Head(r.in.a).orig
    <3>1. t \in Records /\ Passed(t, r) /\ t.st.a # "IDLE" /\ "CONNECTED" \in States
      BY <1>2, <1>3, <2>4 DEF direct_accepted, Heads, States
    <3>2. CASE Keep(c, [t EXCEPT !.st["a"] = "CONNECTED", !.peer = v])
      <4>1. v \in VMACs \cup {NULL}
        <5>1. Head(r.in["a"]) \in Messages
          BY <1>1, <2>4, QueueType DEF direct_accepted, Heads
        <5>. QED  BY <5>1 DEF Messages
      <4>. HIDE DEF v
      <4>. DEFINE p == [t EXCEPT !.st["a"] = "CONNECTED"]
      <4>2. Passed(p, t) /\ p \in Records
        BY <3>1, PassedState DEF Passed
      <4>3. [t EXCEPT !.st["a"] = "CONNECTED", !.peer = v] = [p EXCEPT !.peer = v]
        OBVIOUS
      <4>. HIDE DEF p
      <4>4. Passed([p EXCEPT !.peer = v], p)
        <5>. DEFINE q == [p EXCEPT !.peer = v]
        <5>1. /\ q \in Records /\ q.from = p.from /\ q.to = p.to /\ q.vmac = p.vmac
              /\ q.st = p.st /\ q.in = p.in
          BY <4>1, <4>2 DEF Records
        <5>. HIDE DEF q
        <5>2. Passed(q, p)
          BY <5>1, LeftOverSame DEF Passed
        <5>. QED  BY <5>2 DEF q
      <4>5. Passed([p EXCEPT !.peer = v], r)
        BY <3>1, <4>2, <4>4, PassedTrans
      <4>. QED  BY <3>2, <4>3, <4>5
    <3>3. CASE Keep(c, Shut(t, "a"))
      <4>1. Passed(Shut(t, "a"), r)
        BY <3>1, PassedShut, PassedTrans
      <4>. QED  BY <3>3, <4>1
    <3>. QED  BY <2>4, <3>2, <3>3 DEF direct_accepted
  <2>. QED  BY <2>1, <2>2, <2>3, <2>4
<1>5. Quiet
  BY <1>3, <1>4, KeptUnheard
<1>6. \A o \in Nodes : RightlyWoken(o)
  <2>1. CASE UNCHANGED connector
    BY <2>1 DEF RightlyWoken
  <2>2. CASE connector' = [connector EXCEPT ![n] = [@ EXCEPT !.at = "connected", !.delay = MinDelay]]
    <3>1. \A o \in Nodes : connector'[o].woken = connector[o].woken /\ connector'[o].conn = connector[o].conn
      BY <1>3, <2>2 DEF Connectors
    <3>. QED  BY <3>1 DEF RightlyWoken
  <2>3. CASE connector' = [connector EXCEPT ![n] = next_uri(@)] \/ connector' = [connector EXCEPT ![n] = Failed]
    <3>1. \A o \in Nodes : connector'[o] = connector[o] \/ ~connector'[o].woken
      BY <1>3, <2>3, ConnectorTypes
    <3>. QED  BY <3>1 DEF RightlyWoken
  <2>. QED  BY <1>2, <2>1, <2>2, <2>3 DEF connect_accepted, connect_refused, connect_closed, direct_accepted
<1>. QED  BY <1>3, <1>5, <1>6 DEF Unheard

LEMMA EndUnheard ==
  ASSUME ConnInv, NEW c \in DOMAIN conns, disconnected(c) \/ \E e \in Ends : receive_end(c, e)
  PROVE  Unheard
<1>. USE EndNames
<1>1. conns[c] \in Records /\ Passed(conns[c], conns[c])
  BY Known, PassedSame
<1>2. ASSUME NEW e \in Ends, conns[c].in[e] # <<>>
      PROVE  LET t == Taken(conns[c], e) IN
             /\ t \in Records /\ Passed(t, conns[c])
             /\ Put(t, e, Plain("ack")) \in Records /\ Passed(Put(t, e, Plain("ack")), conns[c])
  <2>. DEFINE t == Taken(conns[c], e)
  <2>1. t \in Records /\ Passed(t, conns[c])
    BY <1>1, <1>2, PassedTaken DEF Passed
  <2>2. Plain("ack") \in Messages /\ Plain("ack").fn # "npdu"
    BY WordsFact DEF Fns
  <2>. HIDE DEF t
  <2>3. Passed(Put(t, e, Plain("ack")), t)
    BY <2>1, <2>2, PassedPut
  <2>4. Passed(Put(t, e, Plain("ack")), conns[c]) /\ Put(t, e, Plain("ack")) \in Records
    BY <2>1, <2>3, PassedTrans DEF Passed
  <2>. QED  BY <2>1, <2>4 DEF t
<1>3. ASSUME NEW e \in Ends, receive_end(c, e) PROVE Unheard
  <2>1. conns[c].in[e] # <<>>
    BY <1>3 DEF receive_end, Heads
  <2>2. \/ go_idle(c, e, Put(Taken(conns[c], e), e, Plain("ack")))
        \/ go_idle(c, e, Taken(conns[c], e))
    BY <1>3 DEF receive_end
  <2>. QED  BY <1>2, <2>1, <2>2, IdleUnheard
<1>4. CASE disconnected(c)
  <2>1. CASE conns[c].in["b"] # <<>> /\ go_idle(c, "b", Taken(conns[c], "b"))
    BY <1>2, <2>1, IdleUnheard
  <2>2. CASE go_idle(c, "b", conns[c])
    BY <1>1, <2>2, IdleUnheard
  <2>3. CASE /\ Keep(c, [conns[c] EXCEPT !.st.b = "IDLE", !.in.b = <<>>])
             /\ UNCHANGED <<vmac, connector, sent, got>>
    <3>1. Passed([conns[c] EXCEPT !.st["b"] = "IDLE", !.in["b"] = <<>>], conns[c])
      BY <1>1, PassedDropped
    <3>. QED  BY <2>3, <3>1, KeptUnchanged
  <2>. QED  BY <1>4, <2>1, <2>2, <2>3 DEF disconnected, nodeVars, history
<1>. QED  BY <1>3, <1>4

LEMMA WordsUnheard ==
  ASSUME ConnInv, NEW c \in DOMAIN conns,
         \/ heartbeat(c) \/ hub_resolve(c) \/ hub_resolved(c) \/ Cut(c)
         \/ \E e \in Ends : receive_heartbeat(c, e)
  PROVE  Unheard
<1>. DEFINE r == conns[c]
<1>. USE EndNames
<1>1. r \in Records /\ Passed(r, r)
  BY Known, PassedSame
<1>2. \A e \in Ends : r.in[e] # <<>> => Taken(r, e) \in Records /\ Passed(Taken(r, e), r)
  BY <1>1, PassedTaken DEF Passed
<1>3. CASE heartbeat(c)
  <2>1. Plain("heartbeat") \in Messages /\ Plain("heartbeat").fn # "npdu"
    BY WordsFact DEF Fns
  <2>2. Passed(Put(r, "a", Plain("heartbeat")), r)
    BY <1>1, <2>1, PassedPut
  <2>. QED  BY <1>3, <2>2, KeptUnchanged DEF heartbeat, HeartbeatEnd, nodeVars, history
<1>4. ASSUME NEW e \in Ends, receive_heartbeat(c, e) PROVE Unheard
  <2>1. r.in[e] # <<>> /\ UNCHANGED <<vmac, connector, sent, got>>
    BY <1>4 DEF receive_heartbeat, Heads, nodeVars, history
  <2>2. Plain("hback") \in Messages /\ Plain("hback").fn # "npdu"
    BY WordsFact DEF Fns
  <2>3. Taken(r, e) \in Records /\ Passed(Taken(r, e), r)
    BY <1>2, <2>1
  <2>4. Passed(Put(Taken(r, e), e, Plain("hback")), Taken(r, e))
    BY <2>2, <2>3, PassedPut
  <2>5. Passed(Put(Taken(r, e), e, Plain("hback")), r)
    BY <2>3, <2>4, PassedTrans
  <2>. QED  BY <1>4, <2>1, <2>3, <2>5, KeptUnchanged DEF receive_heartbeat
<1>5. CASE hub_resolve(c)
  <2>. DEFINE t == Taken(r, "a")
              fn == IF r.from \in Switches THEN "resolved" ELSE "result"
              m == Msg(fn, vmac[r.from], Head(r.in.a).orig, 0)
  <2>1. r.in["a"] # <<>> /\ Keep(c, Put(t, "a", m)) /\ UNCHANGED <<vmac, connector, sent, got>>
    BY <1>5 DEF hub_resolve, Heads, nodeVars, history
  <2>2. m \in Messages /\ m.fn # "npdu"
    <3>1. Head(r.in["a"]) \in Messages /\ r.from \in Nodes
      BY <1>1, <2>1, QueueType, RecordTypes
    <3>2. vmac[r.from] \in VMACs /\ Head(r.in["a"]).orig \in VMACs \cup {NULL}
      BY <3>1, Known DEF Messages
    <3>3. fn \in Fns /\ fn # "npdu"
      BY DEF Fns
    <3>. HIDE DEF fn
    <3>. QED  BY <3>2, <3>3 DEF Msg, Messages
  <2>3. t \in Records /\ Passed(t, r)
    BY <1>2, <2>1
  <2>. HIDE DEF m, t
  <2>4. Passed(Put(t, "a", m), t)
    BY <2>2, <2>3, PassedPut
  <2>5. Passed(Put(t, "a", m), r)
    BY <2>3, <2>4, PassedTrans
  <2>. QED  BY <2>1, <2>5, KeptUnchanged
<1>6. CASE hub_resolved(c)
  <2>1. r.in["a"] # <<>> /\ Keep(c, Taken(r, "a")) /\ UNCHANGED <<vmac, connector, sent, got>>
    BY <1>6 DEF hub_resolved, Heads, history
  <2>. QED  BY <1>2, <2>1, KeptUnchanged
<1>7. CASE Cut(c)
  <2>. DEFINE i == [e \in Ends |-> <<>>]
              q == [r EXCEPT !.cut = TRUE, !.in = i]
  <2>1. i \in [Ends -> Seq(Messages)] /\ \A e \in Ends : i[e] = <<>>
    OBVIOUS
  <2>2. Keep(c, q) /\ UNCHANGED <<vmac, connector, sent, got>>
    BY <1>7 DEF Cut, nodeVars
  <2>. HIDE DEF i
  <2>3. /\ q \in Records /\ q.in = i /\ q.st = r.st
        /\ q.from = r.from /\ q.to = r.to /\ q.vmac = r.vmac
    BY <1>1, <2>1 DEF Records
  <2>. HIDE DEF q
  <2>4. Passed(q, r)
    BY <2>1, <2>3, LeftOverSame DEF Passed
  <2>. QED  BY <2>2, <2>4, KeptUnchanged
<1>. QED  BY <1>3, <1>4, <1>5, <1>6, <1>7

LEMMA DialUnheard ==
  ASSUME ConnInv, NEW c \in Free, NEW n \in Nodes, NEW to, NEW dest, Dial(c, n, to, dest),
         UNCHANGED <<sent, got>>
  PROVE  Quiet /\ c \notin DOMAIN conns
<1>. DEFINE q == [from |-> n, to |-> to, vmac |-> vmac[n], dest |-> dest, peer |-> NULL,
                  cut |-> FALSE,
                  st |-> [a |-> "AWAITING_ACCEPT", b |-> "AWAITING_REQUEST"],
                  in |-> [a |-> <<>>, b |-> <<Plain("request")>>]]
<1>1. conns' = With(conns, c, q) /\ c \notin DOMAIN conns
  BY DEF Dial, Free
<1>2. \A e \in Ends : q.in[e] = <<>> \/ q.in[e] = <<Plain("request")>>
  BY DEF Ends
<1>. HIDE DEF q
<1>3. Range(<<>>) = {} /\ Range(<<Plain("request")>>) = {Plain("request")}
  BY DEF Range
<1>4. NoTwice(<<>>) /\ NoTwice(<<Plain("request")>>)
  BY DEF NoTwice
<1>5. Plain("request").fn # "npdu"
  BY WordsFact DEF Fns
<1>6. \A e \in Ends : NoTwice(q.in[e]) /\ \A m \in Range(q.in[e]) : m.fn # "npdu"
  BY <1>2, <1>3, <1>4, <1>5
<1>7. DOMAIN conns' = DOMAIN conns \cup {c} /\ conns'[c] = q /\ \A d \in DOMAIN conns : conns'[d] = conns[d]
  BY <1>1 DEF With
<1>. QED  BY <1>1, <1>6, <1>7, PassedSame, Known DEF Quiet

LEMMA LoopUnheard ==
  ASSUME ConnInv, NEW n \in Nodes, connect_loop(n)
  PROVE  Unheard
<1>1. DOMAIN connector = Nodes /\ \A o \in Nodes : connector[o] \in Connectors
  BY DEF ConnInv, Types, NodeTypes
<1>2. UNCHANGED <<vmac, sent, got>>
  BY DEF connect_loop, try_connect, run_until_disconnected, increase_backoff, history
<1>3. Quiet
  <2>1. CASE UNCHANGED conns
    BY <1>2, <2>1, NoneUnheard
  <2>2. ASSUME NEW c \in Free, NEW h, Dial(c, n, h, NULL) PROVE Quiet
    BY <1>2, <2>2, DialUnheard
  <2>. QED  BY <2>1, <2>2 DEF connect_loop, try_connect, run_until_disconnected, increase_backoff
<1>4. \A o \in Nodes : connector'[o] = connector[o] \/ ~connector'[o].woken
  <2>1. ASSUME NEW i, NEW d PROVE ~Trying(i, d).woken
    BY DEF Trying
  <2>2. ~next_uri(connector[n]).woken
    BY <1>1, ConnectorTypes
  <2>3. CASE try_connect(n)
    <3>1. ~connector[n].woken
      BY <2>3 DEF try_connect, ConnInv, NodesInv, ConnectorOK
    <3>2. ASSUME NEW c PROVE ~[connector[n] EXCEPT !.at = "waiting", !.conn = c].woken
      BY <1>1, <3>1 DEF Connectors
    <3>. QED  BY <1>1, <2>2, <2>3, <3>2 DEF try_connect
  <2>4. CASE run_until_disconnected(n) \/ increase_backoff(n)
    BY <1>1, <2>1, <2>4 DEF run_until_disconnected, increase_backoff
  <2>. QED  BY <2>3, <2>4 DEF connect_loop
<1>. QED  BY <1>2, <1>3, <1>4 DEF Unheard, RightlyWoken

LEMMA StopsUnheard ==
  ASSUME ConnInv, NEW o,
         \/ o \in Nodes /\ (stop_node(o) \/ \E v \in VMACs : start_node(o, v))
         \/ o \in Hubs /\ (stop_hub(o) \/ start_hub(o))
  PROVE  Unheard
<1>. DEFINE f == AllShut(o)
<1>. USE EndNames
<1>1. DOMAIN f = DOMAIN conns /\ \A c \in DOMAIN conns : Passed(f[c], conns[c])
  <2>1. ASSUME NEW c \in DOMAIN conns PROVE Passed(f[c], conns[c])
    <3>1. conns[c] \in Records
      BY Known
    <3>2. Passed(conns[c], conns[c]) /\ Passed(Shut(conns[c], "a"), conns[c]) /\ Passed(Shut(conns[c], "b"), conns[c])
      BY <3>1, PassedSame, PassedShut
    <3>. QED  BY <3>2 DEF AllShut
  <2>. QED  BY <2>1 DEF AllShut
<1>. HIDE DEF f
<1>2. DOMAIN connector = Nodes /\ \A n \in Nodes : connector[n] \in Connectors
  BY DEF ConnInv, Types, NodeTypes
<1>3. UNCHANGED <<sent, got>>
  BY DEF stop_node, start_node, stop_hub, start_hub, history
<1>4. Quiet
  <2>1. CASE Store(f)
    BY <1>1, <1>3, <2>1, StoredUnheard
  <2>2. CASE UNCHANGED conns
    BY <1>3, <2>2, NoneUnheard
  <2>. QED  BY <2>1, <2>2 DEF stop_node, start_node, stop_hub, start_hub, f
<1>5. \A n \in Nodes : connector'[n] = connector[n] \/ ~connector'[n].woken
  <2>1. ~Trying(1, MinDelay).woken /\ ~Down.woken
    BY ConnectorTypes
  <2>. QED  BY <1>2, <2>1 DEF stop_node, start_node, stop_hub, start_hub, nodeVars
<1>6. \A n \in Nodes \cap running : vmac'[n] = vmac[n]
  BY Known DEF stop_node, start_node, stop_hub, start_hub
<1>. QED  BY <1>4, <1>5, <1>6 DEF Unheard, RightlyWoken

LEMMA SwitchUnheard ==
  ASSUME ConnInv, NEW n \in Nodes, NEW v \in VMACs,
         \/ resolve_address(n, v) \/ resolution_timeout(n, v) \/ resolution_ends(n, v)
         \/ \E m \in Nodes : establish_direct(n, m, v)
  PROVE  Unheard
<1>1. UNCHANGED <<vmac, connector, sent, got>>
  BY DEF resolve_address, resolution_timeout, resolution_ends, establish_direct, history
<1>2. CASE resolve_address(n, v)
  <2>. DEFINE c == connector[n].conn
              m == Msg("resolve", vmac[n], v, 0)
  <2>1. c \in DOMAIN conns /\ Keep(c, Put(conns[c], "a", m))
    BY <1>2 DEF resolve_address, is_connected, Connected
  <2>2. m \in Messages /\ m.fn # "npdu"
    <3>1. vmac[n] \in VMACs
      BY Known
    <3>. QED  BY <3>1 DEF Msg, Messages, Fns
  <2>. HIDE DEF m
  <2>3. Passed(Put(conns[c], "a", m), conns[c])
    BY <2>1, <2>2, PassedPut, Known, EndNames
  <2>. QED  BY <1>1, <2>1, <2>3, KeptUnchanged
<1>3. CASE UNCHANGED conns
  BY <1>1, <1>3, NoneUnheard DEF Unheard, RightlyWoken
<1>4. ASSUME NEW m \in Nodes, establish_direct(n, m, v) PROVE Unheard
  <2>1. PICK c \in Free : Dial(c, n, m, v)
    BY <1>4 DEF establish_direct
  <2>2. Quiet
    BY <1>1, <2>1, DialUnheard
  <2>. QED  BY <1>1, <2>2 DEF Unheard, RightlyWoken
<1>. QED  BY <1>2, <1>3, <1>4 DEF resolution_timeout, resolution_ends

\* What the hub forwards of a message that is no NPDU
LEMMA ForwardedUnheard ==
  ASSUME ConnInv, NEW c \in DOMAIN conns, node_message(c), Head(conns[c].in.b).fn # "npdu"
  PROVE  Unheard
<1>. DEFINE r == Taken(conns[c], "b")
            m == Head(conns[c].in.b)
            out == rewrite_for_hub(m, r.vmac)
            cs == [conns EXCEPT ![c] = r]
            to == forwarded_to(r.to, r.vmac, m.dest)
            f == [d \in DOMAIN cs |-> IF d \in to THEN Put(cs[d], "b", out) ELSE cs[d]]
<1>. USE EndNames
<1>1. /\ conns[c].in["b"] # <<>> /\ conns[c] \in Records
      /\ Store(f) \/ Store(cs)
      /\ UNCHANGED <<vmac, connector, sent, got>>
  BY Known DEF node_message, Heads, nodeVars, history
<1>2. r \in Records /\ Passed(r, conns[c])
  BY <1>1, PassedTaken, Known DEF Passed
<1>3. m \in Messages /\ r.vmac \in VMACs
  BY <1>1, <1>2, QueueType, RecordTypes, Known
<1>4. out \in Messages /\ out.fn # "npdu"
  <2>1. out \in Messages
    BY <1>3 DEF rewrite_for_hub, Messages
  <2>2. out.fn = m.fn
    BY <1>3 DEF rewrite_for_hub, Messages
  <2>. QED  BY <2>1, <2>2
<1>. HIDE DEF r, m, out
<1>5. DOMAIN cs = DOMAIN conns /\ DOMAIN f = DOMAIN conns
  OBVIOUS
<1>6. \A d \in DOMAIN conns : cs[d] = IF d = c THEN r ELSE conns[d]
  BY DEF ConnInv, Types, ConnTypes
<1>. HIDE DEF cs
<1>7. \A d \in DOMAIN conns : f[d] = IF d \in to THEN Put(cs[d], "b", out) ELSE cs[d]
  BY <1>5
<1>. HIDE DEF f, to
<1>8. \A d \in DOMAIN conns : Passed(cs[d], conns[d]) /\ cs[d] \in Records
  BY <1>2, <1>6, PassedSame, Known
<1>9. \A d \in DOMAIN conns : Passed(f[d], conns[d])
  BY <1>4, <1>7, <1>8, PassedPut, PassedTrans
<1>10. Quiet
  BY <1>1, <1>5, <1>8, <1>9, StoredUnheard
<1>. QED  BY <1>1, <1>10 DEF Unheard, RightlyWoken

-----------------------------------------------------------------------------
(* What sends an NPDU, forwards and delivers it.                           *)

LEMMA HasFact ==
  ASSUME ConnInv, DeliveryInv, NEW c \in DOMAIN conns, NEW e \in Ends
  PROVE  /\ conns[c].in[e] \in Seq(Messages) /\ NoTwice(conns[c].in[e])
         /\ \A m \in Range(conns[c].in[e]) : m.fn = "npdu" =>
              /\ BoundFor(conns[c], e, m, sent[m.npdu]) /\ Has(conns[c], e, m.npdu)
              /\ m.npdu \in 1 .. Len(sent)
<1>1. conns[c].in[e] \in Seq(Messages)
  BY Known, QueueType
<1>. QED  BY <1>1 DEF DeliveryInv, Bound, Has

\* A message in the queue of end p of c that was sent just now
LEMMA SentStep ==
  ASSUME ConnInv, DeliveryInv, NEW c \in DOMAIN conns, NEW p \in Ends, NEW q, NEW m \in Messages, NEW x \in Sendings,
         Keep(c, q), sent' = Append(sent, x), UNCHANGED <<vmac, connector, got>>,
         q \in Records, q.from = conns[c].from, q.to = conns[c].to, q.vmac = conns[c].vmac,
         q.st = conns[c].st, LeftOver(q.in[Peer(p)], conns[c].in[Peer(p)]),
         m.fn = "npdu", m.npdu = Len(sent) + 1,
         \/ LeftOver(q.in[p], conns[c].in[p])
         \/ q.in[p] = Append(conns[c].in[p], m) /\ BoundFor(q, p, m, x)
  PROVE  DeliveryInv'
<1>. DEFINE i == Len(sent) + 1
            f == [conns EXCEPT ![c] = q]
<1>1. Became(f) /\ \A d \in DOMAIN conns : f[d] = IF d = c THEN q ELSE conns[d]
  BY KeepFact DEF ConnInv
<1>. HIDE DEF f
<1>2. \A d \in DOMAIN conns' : d \in DOMAIN conns /\ conns'[d] = IF d = c THEN q ELSE conns[d]
  BY <1>1 DEF Became
<1>3. /\ Len(sent) \in Nat /\ Len(sent') = i /\ i \in 1 .. i /\ sent'[i] = x
      /\ \A j \in 1 .. Len(sent) : sent'[j] = sent[j] /\ j # i /\ j \in 1 .. Len(sent')
  BY Known, AppendProperties
<1>4. /\ \A k \in Range(q.in[Peer(p)]) : k.fn = "npdu" => k \in Range(conns[c].in[Peer(p)])
      /\ NoTwice(q.in[Peer(p)])
  BY HasFact, EndsFact DEF LeftOver
<1>5. /\ \A k \in Range(q.in[p]) : k.fn = "npdu" =>
           k \in Range(conns[c].in[p]) \/ (k = m /\ BoundFor(q, p, m, x))
      /\ NoTwice(q.in[p])
  <2>1. CASE LeftOver(q.in[p], conns[c].in[p])
    BY <2>1, HasFact DEF LeftOver
  <2>2. CASE q.in[p] = Append(conns[c].in[p], m) /\ BoundFor(q, p, m, x)
    <3>1. \A k \in Range(conns[c].in[p]) : k.fn = "npdu" => k.npdu # m.npdu
      BY <1>3, HasFact
    <3>. QED  BY <2>2, <3>1, HasFact, LeftOverAppend
  <2>. QED  BY <2>1, <2>2
<1>6. \A d \in DOMAIN conns', e \in Ends :
        /\ NoTwice(conns'[d].in[e])
        /\ conns'[d].from = conns[d].from /\ conns'[d].to = conns[d].to /\ conns'[d].vmac = conns[d].vmac
        /\ conns'[d].st = conns[d].st
        /\ \A k \in Range(conns'[d].in[e]) : k.fn = "npdu" =>
             \/ k \in Range(conns[d].in[e])
             \/ d = c /\ e = p /\ k = m /\ BoundFor(q, p, m, x)
  <2>. TAKE d \in DOMAIN conns', e \in Ends
  <2>1. e = p \/ e = Peer(p)
    BY EndsFact
  <2>. QED  BY <1>2, <1>4, <1>5, <2>1, HasFact
<1>7. Bound'
  <2>. SUFFICES ASSUME NEW d \in DOMAIN conns', NEW e \in Ends,
                       NEW k \in Range(conns'[d].in[e]), k.fn = "npdu"
       PROVE  k.npdu \in 1 .. Len(sent') /\ BoundFor(conns[d], e, k, sent[k.npdu])'
    BY <1>6 DEF Bound
  <2>1. CASE k \in Range(conns[d].in[e])
    <3>1. BoundFor(conns[d], e, k, sent[k.npdu]) /\ k.npdu \in 1 .. Len(sent)
      BY <1>2, <2>1, HasFact
    <3>2. k.npdu \in 1 .. Len(sent') /\ sent'[k.npdu] = sent[k.npdu]
      BY <1>3, <3>1
    <3>. QED  BY <1>6, <3>1, <3>2 DEF BoundFor
  <2>2. CASE d = c /\ e = p /\ k = m /\ BoundFor(q, p, m, x)
    <3>1. k.npdu = i /\ i \in 1 .. Len(sent') /\ sent'[i] = x
      BY <1>3, <2>2
    <3>. QED  BY <1>2, <2>2, <3>1 DEF BoundFor
  <2>. QED  BY <1>6, <2>1, <2>2
<1>8. /\ \A d \in DOMAIN conns', e \in Ends, j \in 1 .. Len(sent) : Has(conns'[d], e, j) => Has(conns[d], e, j)
      /\ \A d \in DOMAIN conns', e \in Ends : Has(conns'[d], e, i) => d = c /\ e = p
  <2>1. \A d \in DOMAIN conns', e \in Ends, j \in 1 .. Len(sent) : Has(conns'[d], e, j) => Has(conns[d], e, j)
    BY <1>3, <1>6 DEF Has
  <2>2. ASSUME NEW d \in DOMAIN conns', NEW e \in Ends, Has(conns'[d], e, i) PROVE d = c /\ e = p
    <3>1. PICK k \in Range(conns'[d].in[e]) : k.fn = "npdu" /\ k.npdu = i
      BY <2>2 DEF Has
    <3>2. k \notin Range(conns[d].in[e])
      BY <1>2, <1>3, <3>1, HasFact
    <3>. QED  BY <1>6, <3>1, <3>2
  <2>. QED  BY <2>1, <2>2
<1>9. Once'
  <2>. SUFFICES ASSUME NEW d \in DOMAIN conns', NEW e \in Ends, NEW j \in 1 .. Len(sent'), Has(conns'[d], e, j)
       PROVE  LET o == Owner(conns'[d], e) IN
              /\ \A b \in DOMAIN conns', g \in Ends : Has(conns'[b], g, j) /\ <<b, g>> # <<d, e>> =>
                   o \in Nodes /\ Owner(conns'[b], g) \in Nodes \ {o}
              /\ \A g \in DOMAIN got' : g.npdu = j => o \in Nodes \ {g.to}
    BY DEF Once
  <2>1. CASE j \in 1 .. Len(sent)
    <3>1. \A b \in DOMAIN conns', g \in Ends : Owner(conns'[b], g) = Owner(conns[b], g) /\ b \in DOMAIN conns
      BY <1>2, <1>6 DEF Owner
    <3>2. Has(conns[d], e, j) /\ \A b \in DOMAIN conns', g \in Ends : Has(conns'[b], g, j) => Has(conns[b], g, j)
      BY <1>8, <2>1
    <3>. QED  BY <2>1, <3>1, <3>2 DEF DeliveryInv, Once
  <2>2. CASE j = i
    <3>1. \A g \in DOMAIN got : g.npdu # i
      BY <1>3 DEF DeliveryInv, Delivered
    <3>. QED  BY <1>8, <2>2, <3>1
  <2>. QED  BY <1>3, <2>1, <2>2
<1>10. Delivered'
  <2>1. \A g \in DOMAIN got : g.npdu \in 1 .. Len(sent') /\ sent'[g.npdu] = sent[g.npdu]
    BY <1>3 DEF DeliveryInv, Delivered
  <2>. QED  BY <2>1 DEF DeliveryInv, Delivered
<1>11. WokenByEnd'
  BY <1>2, <1>6, EndNames DEF DeliveryInv, WokenByEnd
<1>. QED  BY <1>7, <1>9, <1>10, <1>11 DEF DeliveryInv

LEMMA SendDelivery ==
  ASSUME ConnInv, DeliveryInv, NEW n \in Nodes,
         send_broadcast(n) \/ \E v \in VMACs : send_unicast(n, v)
  PROVE  DeliveryInv'
<1>. USE EndNames
<1>1. PICK v \in VMACs \cup {ALL} :
        /\ ViaHub(n, v) \/ (ViaDirect(n, v) /\ has_direct(n, v) /\ v \in VMACs)
        /\ Sending(n, v)
  BY DEF send_broadcast, send_unicast
<1>. DEFINE x == [from |-> n, vmac |-> vmac[n], dest |-> v]
            i == Len(sent) + 1
<1>2. /\ sent' = Append(sent, x) /\ UNCHANGED <<vmac, connector, got>>
      /\ sent \in Seq(Sendings) /\ vmac[n] \in VMACs
  BY <1>1, Known DEF Sending, nodeVars
<1>3. /\ i \in Nat /\ Len(sent') = i /\ i \in 1 .. Len(sent') /\ sent'[i] = x
      /\ x.vmac = vmac[n] /\ x.dest = v /\ x \in Sendings
  <2>1. x \in Sendings
    BY <1>2 DEF Sendings
  <2>. HIDE DEF x
  <2>2. i \in Nat /\ Len(sent') = i /\ i \in 1 .. Len(sent') /\ sent'[i] = x
    BY <1>2, <2>1, AppendProperties, LenProperties
  <2>. QED  BY <2>1, <2>2 DEF x
<1>. HIDE DEF x
<1>4. CASE ViaHub(n, v)
  <2>. DEFINE c == connector[n].conn
              r == conns[c]
              m == Msg("npdu", vmac[n], v, i)
              q == Put(r, "a", m)
  <2>1. c \in DOMAIN conns /\ r.st.a = "CONNECTED" /\ Keep(c, q) /\ connector[n].at = "connected"
    BY <1>4 DEF ViaHub, is_connected, Connected
  <2>2. r.from = n /\ r.to \in Hubs
    <3>1. ~connector[n].woken
      BY <2>1 DEF DeliveryInv, WokenByEnd
    <3>. QED  BY <2>1, <3>1 DEF ConnInv, NodesInv, ConnectorOK
  <2>3. r.vmac = vmac[n] /\ r \in Records /\ r.to \notin Nodes
    BY <2>1, <2>2, Known, NodesAssumption DEF PartiesOK, Open
  <2>4. m \in Messages /\ m.fn = "npdu" /\ m.npdu = i /\ m.orig = vmac[n] /\ m.dest = v
    BY <1>2, <1>3 DEF Msg, Messages, Fns
  <2>. HIDE DEF m
  <2>5. /\ q \in Records /\ Alike(q, r) /\ q.st = r.st /\ Peer("b") = "a" /\ Peer("a") = "b"
        /\ r.cut => q.in["a"] = <<EOF>> /\ q.in["b"] = r.in["b"]
        /\ ~r.cut => q.in["a"] = r.in["a"] /\ q.in["b"] \in {Append(r.in["b"], m), r.in["b"]}
    BY <2>3, <2>4, PutFact, ZenonT(30) DEF Peer
  <2>. HIDE DEF q, i
  <2>6. BoundFor(q, "b", m, x)
    BY <1>2, <1>3, <2>2, <2>3, <2>4, <2>5 DEF BoundFor, Alike
  <2>7. LeftOver(q.in["a"], r.in["a"]) /\ (LeftOver(q.in["b"], r.in["b"]) \/ q.in["b"] = Append(r.in["b"], m))
    BY <2>5, LeftOverSame
  <2>8. q.from = r.from /\ q.to = r.to /\ q.vmac = r.vmac
    BY <2>5 DEF Alike
  <2>. QED  BY <1>2, <1>3, <2>1, <2>4, <2>5, <2>6, <2>7, <2>8, SentStep DEF i
<1>5. CASE ViaDirect(n, v) /\ has_direct(n, v) /\ v \in VMACs
  <2>. DEFINE c == direct[n][v]
              r == conns[c]
              e == DirectEnd(n, v)
              p == Peer(e)
              m == Msg("npdu", NULL, NULL, i)
              q == Put(r, e, m)
  <2>1. /\ c \in DOMAIN conns /\ Keep(c, q) /\ v \in DOMAIN direct[n]
        /\ e \in Ends /\ p \in Ends /\ Peer(p) = e
    <3>1. e \in Ends
      BY DEF DirectEnd
    <3>. QED  BY <1>5, <3>1, EndsFact DEF ViaDirect, has_direct, Connected
  <2>2. /\ IF e = "a" THEN r.peer = v ELSE r.vmac = v
        /\ Open(r, p) => vmac[IF e = "a" THEN r.to ELSE r.from] = v
    BY <2>1, InvNodes DEF NodesCurrent, DirectCurrent, Open
  <2>3. r \in Records /\ r.to \in Nodes /\ r.to \notin Hubs
    BY <2>1, Known, NodesAssumption DEF ConnInv, NodesInv, DirectOK
  <2>4. m \in Messages /\ m.fn = "npdu" /\ m.npdu = i /\ m.orig = NULL
    BY <1>3 DEF Msg, Messages, Fns
  <2>5. (e = "a" /\ p = "b") \/ (e = "b" /\ p = "a")
    BY <2>1 DEF Peer, Ends
  <2>. HIDE DEF m
  <2>6. /\ q \in Records /\ Alike(q, r) /\ q.st = r.st
        /\ r.cut => q.in[e] = <<EOF>> /\ q.in[p] = r.in[p]
        /\ ~r.cut => /\ q.in[e] = r.in[e]
                     /\ q.in[p] = IF Open(r, p) THEN Append(r.in[p], m) ELSE r.in[p]
    BY <2>1, <2>3, <2>4, PutFact
  <2>. HIDE DEF q, i, e, p
  <2>7. ASSUME Open(r, p) PROVE BoundFor(q, p, m, x)
    BY <1>2, <1>3, <2>2, <2>3, <2>4, <2>5, <2>6, <2>7 DEF BoundFor, Alike
  <2>8. LeftOver(q.in[e], r.in[e]) /\ (LeftOver(q.in[p], r.in[p]) \/ (q.in[p] = Append(r.in[p], m) /\ Open(r, p)))
    BY <2>6, LeftOverSame
  <2>9. q.from = r.from /\ q.to = r.to /\ q.vmac = r.vmac
    BY <2>6 DEF Alike
  <2>. QED  BY <1>2, <1>3, <2>1, <2>4, <2>6, <2>7, <2>8, <2>9, SentStep DEF i
<1>. QED  BY <1>1, <1>4, <1>5

\* The hub at end b of c has read the NPDU i and put out in the inboxes of to: f
\* are the connections then.
Forwards(c, f, to, i, out) ==
  /\ DOMAIN f = DOMAIN conns /\ Became(f)
  /\ Has(conns[c], "b", i) /\ out.fn = "npdu" /\ out.npdu = i
  /\ UNCHANGED <<vmac, connector, sent, got>>
  /\ \A d \in DOMAIN conns :
       /\ f[d].from = conns[d].from /\ f[d].to = conns[d].to /\ f[d].vmac = conns[d].vmac
       /\ f[d].st = conns[d].st
       /\ LeftOver(f[d].in["b"], conns[d].in["b"])
       /\ \/ LeftOver(f[d].in["a"], conns[d].in["a"])
          \/ /\ d \in to /\ Open(conns[d], "a")
             /\ f[d].in["a"] = Append(conns[d].in["a"], out)
       /\ d \in to => conns[d].to \in Hubs /\ BoundFor(conns[d], "a", out, sent[i])
  /\ \A k \in Range(f[c].in["b"]) : k.fn = "npdu" => k.npdu # i

\* What the hub forwards of an NPDU: a copy in the inbox of each node it is for
LEMMA ForwardedFact ==
  ASSUME ConnInv, DeliveryInv, NEW c \in DOMAIN conns, node_message(c), Head(conns[c].in.b).fn = "npdu"
  PROVE  \E f, to : \E i \in 1 .. Len(sent), out \in Messages : Forwards(c, f, to, i, out)
<1>. DEFINE r == Taken(conns[c], "b")
            m == Head(conns[c].in.b)
            h == r.to
            i == m.npdu
            s == sent[i]
            out == rewrite_for_hub(m, r.vmac)
            cs == [conns EXCEPT ![c] = r]
            to == forwarded_to(h, r.vmac, m.dest)
            f == [d \in DOMAIN cs |-> IF d \in to THEN Put(cs[d], "b", out) ELSE cs[d]]
<1>. USE EndNames
<1>1. /\ conns[c].in["b"] # <<>> /\ conns[c] \in Records /\ m.fn = "npdu" /\ h \in Hubs
      /\ Store(IF m.orig \in {NULL, r.vmac} THEN f ELSE cs)
      /\ UNCHANGED <<vmac, connector, sent, got>>
  BY Known DEF node_message, Heads, nodeVars, history
<1>2. /\ r \in Records /\ r.to = conns[c].to /\ r.from = conns[c].from /\ r.vmac = conns[c].vmac
      /\ r.st = conns[c].st /\ r.in["a"] = conns[c].in["a"] /\ r.in["b"] = Tail(conns[c].in["b"])
  BY <1>1, TakenFact DEF Alike
<1>3. m \in Messages /\ r.vmac \in VMACs /\ m \in Range(conns[c].in["b"])
  <2>1. conns[c].in["b"] \in Seq(Messages)
    BY <1>1, QueueType
  <2>. QED  BY <1>1, <1>2, <2>1, QueueType, RecordTypes, TailFact
<1>4. /\ i \in 1 .. Len(sent) /\ Has(conns[c], "b", i)
      /\ m.orig = s.vmac /\ s.vmac = r.vmac /\ m.dest = s.dest
  <2>1. BoundFor(conns[c], "b", m, s) /\ Has(conns[c], "b", i) /\ i \in 1 .. Len(sent)
    BY <1>1, <1>3, HasFact
  <2>. QED  BY <1>1, <1>2, <2>1 DEF BoundFor
<1>5. out \in Messages /\ out.fn = "npdu" /\ out.npdu = i /\ out.orig = r.vmac
  <2>1. out \in Messages
    BY <1>3 DEF rewrite_for_hub, Messages
  <2>2. out.fn = m.fn /\ out.npdu = m.npdu /\ out.orig = r.vmac
    BY <1>3 DEF rewrite_for_hub, Messages
  <2>. QED  BY <1>1, <2>1, <2>2
<1>6. \A d \in to :
        /\ d \in DOMAIN conns /\ conns[d].to = h
        /\ IF s.dest = ALL THEN conns[d].vmac # s.vmac ELSE conns[d].vmac = s.dest
  <2>1. \A v \in DOMAIN table[h] : Entry(h, v)
    BY <1>1 DEF ConnInv, HubsInv
  <2>. QED  BY <1>4, <2>1, SMTT(30) DEF forwarded_to, Entry
<1>7. Store(f) /\ DOMAIN f = DOMAIN conns
  BY <1>1, <1>4
<1>8. \A d \in DOMAIN conns : cs[d] = IF d = c THEN r ELSE conns[d]
  BY DEF ConnInv, Types, ConnTypes
<1>9. \A d \in DOMAIN conns : f[d] = IF d \in to THEN Put(cs[d], "b", out) ELSE cs[d]
  OBVIOUS
<1>10. \A k \in Range(r.in["b"]) : k.fn = "npdu" => k.npdu # i
  <2>1. NoTwice(conns[c].in["b"]) /\ conns[c].in["b"] \in Seq(Messages)
    BY HasFact
  <2>. QED  BY <1>1, <1>2, <2>1, HeadGone
<1>. HIDE DEF r, m, out, cs, f, to, i
<1>11. \A d \in DOMAIN conns :
         /\ cs[d] \in Records /\ cs[d].st = conns[d].st /\ cs[d].in["a"] = conns[d].in["a"]
         /\ cs[d].from = conns[d].from /\ cs[d].to = conns[d].to /\ cs[d].vmac = conns[d].vmac
         /\ LeftOver(cs[d].in["b"], conns[d].in["b"])
  <2>1. LeftOver(r.in["b"], conns[c].in["b"])
    BY <1>1, <1>2, QueueType, LeftOverTail
  <2>. QED  BY <1>2, <1>8, <2>1, LeftOverSame, Known
<1>12. \A d \in DOMAIN conns :
         /\ f[d].from = conns[d].from /\ f[d].to = conns[d].to /\ f[d].vmac = conns[d].vmac
         /\ f[d].st = conns[d].st
         /\ f[d].in["b"] = cs[d].in["b"] \/ f[d].in["b"] = <<EOF>>
         /\ \/ f[d].in["a"] = conns[d].in["a"]
            \/ d \in to /\ Open(conns[d], "a") /\ f[d].in["a"] = Append(conns[d].in["a"], out)
  <2>. TAKE d \in DOMAIN conns
  <2>1. CASE d \notin to
    BY <1>9, <1>11, <2>1
  <2>2. CASE d \in to
    <3>. DEFINE q == Put(cs[d], "b", out)
    <3>1. /\ Alike(q, cs[d]) /\ q.st = cs[d].st
          /\ cs[d].cut => q.in["b"] = <<EOF>> /\ q.in["a"] = cs[d].in["a"]
          /\ ~cs[d].cut => /\ q.in["b"] = cs[d].in["b"]
                           /\ q.in["a"] = IF Open(cs[d], "a") THEN Append(cs[d].in["a"], out)
                                          ELSE cs[d].in["a"]
      BY <1>5, <1>11, PutFact
    <3>2. f[d] = q
      BY <1>9, <2>2
    <3>. HIDE DEF q
    <3>. QED  BY <1>11, <2>2, <3>1, <3>2 DEF Alike, Open
  <2>. QED  BY <2>1, <2>2
<1>13. \A d \in DOMAIN conns : LeftOver(f[d].in["b"], conns[d].in["b"])
  <2>1. \A d \in DOMAIN conns : LeftOver(<<EOF>>, conns[d].in["b"])
    BY LeftOverSame
  <2>. QED  BY <1>11, <1>12, <2>1
<1>14. \A k \in Range(f[c].in["b"]) : k.fn = "npdu" => k.npdu # i
  <2>1. Range(<<EOF>>) = {EOF} /\ EOF.fn # "npdu"
    BY MessageTypes DEF Range
  <2>2. cs[c] = r
    BY <1>8
  <2>. QED  BY <1>10, <1>12, <2>1, <2>2
<1>15. \A d \in to : BoundFor(conns[d], "a", out, s)
  <2>1. h \notin Nodes
    BY <1>1, NodesAssumption
  <2>. QED  BY <1>1, <1>4, <1>5, <1>6, <2>1 DEF BoundFor
<1>16. \A d \in DOMAIN conns : LeftOver(f[d].in["a"], conns[d].in["a"])
                               \/ (d \in to /\ Open(conns[d], "a") /\ f[d].in["a"] = Append(conns[d].in["a"], out))
  BY <1>12, LeftOverSame
<1>17. Became(f)
  BY <1>7, StoreFact
<1>18. Forwards(c, f, to, i, out)
  BY <1>1, <1>4, <1>5, <1>6, <1>7, <1>12, <1>13, <1>14, <1>15, <1>16, <1>17 DEF Forwards, s
<1>. QED  BY <1>4, <1>5, <1>18

LEMMA ForwardDelivery ==
  ASSUME ConnInv, DeliveryInv, NEW c \in DOMAIN conns, node_message(c), Head(conns[c].in.b).fn = "npdu"
  PROVE  DeliveryInv'
<1>. USE EndNames
<1>0. PICK f, to : \E i \in 1 .. Len(sent), out \in Messages : Forwards(c, f, to, i, out)
  BY ForwardedFact
<1>1. PICK i \in 1 .. Len(sent), out \in Messages : Forwards(c, f, to, i, out)
  BY <1>0
<1>. USE DEF Forwards
<1>2. conns[c].to \notin Nodes
  <2>1. PICK k \in Range(conns[c].in["b"]) : k.fn = "npdu" /\ k.npdu = i
    BY <1>1 DEF Has
  <2>2. Head(conns[c].in["b"]).fn = "npdu" /\ conns[c].to \in Hubs
    BY Known, TakenFact DEF node_message, Heads, Alike
  <2>. QED  BY <2>2, NodesAssumption
\* Before: the only one underway is the one that was read.
<1>3. /\ \A d \in DOMAIN conns, e \in Ends : Has(conns[d], e, i) => d = c /\ e = "b"
      /\ \A g \in DOMAIN got : g.npdu # i
  <2>1. Owner(conns[c], "b") \notin Nodes
    BY <1>2 DEF Owner
  <2>. QED  BY <1>1, <2>1 DEF DeliveryInv, Once
<1>4. \A d \in DOMAIN conns' : d \in DOMAIN conns /\ conns'[d] = f[d]
  BY <1>1 DEF Became
<1>5. \A d \in DOMAIN conns, e \in Ends :
        /\ NoTwice(f[d].in[e])
        /\ \A k \in Range(f[d].in[e]) : k.fn = "npdu" =>
             \/ k \in Range(conns[d].in[e]) /\ k.npdu # i
             \/ e = "a" /\ k = out /\ d \in to /\ Open(conns[d], "a")
  <2>1. ASSUME NEW d \in DOMAIN conns
        PROVE  /\ NoTwice(f[d].in["b"])
               /\ \A k \in Range(f[d].in["b"]) : k.fn = "npdu" => k \in Range(conns[d].in["b"]) /\ k.npdu # i
    <3>1. NoTwice(f[d].in["b"]) /\ \A k \in Range(f[d].in["b"]) : k.fn = "npdu" => k \in Range(conns[d].in["b"])
      BY <1>1, HasFact DEF LeftOver
    <3>2. CASE d = c
      BY <1>1, <3>1, <3>2
    <3>3. CASE d # c
      BY <1>3, <3>1, <3>3, HasFact
    <3>. QED  BY <3>2, <3>3
  <2>2. ASSUME NEW d \in DOMAIN conns
        PROVE  /\ NoTwice(f[d].in["a"])
               /\ \A k \in Range(f[d].in["a"]) : k.fn = "npdu" =>
                    \/ k \in Range(conns[d].in["a"]) /\ k.npdu # i
                    \/ k = out /\ d \in to /\ Open(conns[d], "a")
    <3>1. /\ NoTwice(conns[d].in["a"]) /\ conns[d].in["a"] \in Seq(Messages)
          /\ \A k \in Range(conns[d].in["a"]) : k.fn = "npdu" => k.npdu # i
      BY <1>3, HasFact
    <3>2. CASE LeftOver(f[d].in["a"], conns[d].in["a"])
      BY <3>1, <3>2 DEF LeftOver
    <3>3. CASE d \in to /\ Open(conns[d], "a") /\ f[d].in["a"] = Append(conns[d].in["a"], out)
      BY <1>1, <3>1, <3>3, LeftOverAppend
    <3>. QED  BY <1>1, <3>2, <3>3
  <2>. QED  BY <2>1, <2>2
<1>6. Bound'
  <2>. SUFFICES ASSUME NEW d \in DOMAIN conns', NEW e \in Ends,
                       NEW k \in Range(conns'[d].in[e]), k.fn = "npdu"
       PROVE  k.npdu \in 1 .. Len(sent') /\ BoundFor(conns[d], e, k, sent[k.npdu])'
    BY <1>4, <1>5 DEF Bound
  <2>1. k.npdu \in 1 .. Len(sent) /\ BoundFor(conns[d], e, k, sent[k.npdu])
    <3>1. CASE k \in Range(conns[d].in[e])
      BY <1>4, <3>1, HasFact
    <3>2. CASE e = "a" /\ k = out /\ d \in to
      BY <1>1, <1>4, <3>2
    <3>. QED  BY <1>4, <1>5, <3>1, <3>2
  <2>. QED  BY <1>1, <1>4, <2>1 DEF BoundFor
<1>7. \A d \in DOMAIN conns', e \in Ends, j \in 1 .. Len(sent) : Has(conns'[d], e, j) =>
        IF j = i THEN e = "a" /\ d \in to /\ Open(conns[d], "a") ELSE Has(conns[d], e, j)
  <2>. SUFFICES ASSUME NEW d \in DOMAIN conns', NEW e \in Ends, NEW j \in 1 .. Len(sent), Has(conns'[d], e, j)
       PROVE  IF j = i THEN e = "a" /\ d \in to /\ Open(conns[d], "a") ELSE Has(conns[d], e, j)
    OBVIOUS
  <2>1. PICK k \in Range(f[d].in[e]) : k.fn = "npdu" /\ k.npdu = j
    BY <1>4 DEF Has
  <2>. QED  BY <1>1, <1>4, <1>5, <2>1 DEF Has
\* A node has one connection to a hub.
<1>8. ASSUME NEW b \in DOMAIN conns, NEW d \in DOMAIN conns, b # d, b \in to, d \in to,
             Open(conns[b], "a"), Open(conns[d], "a")
      PROVE  conns[b].from # conns[d].from
  BY <1>1, <1>8 DEF ConnInv, NodesInv, Followed
<1>9. Once'
  <2>. SUFFICES ASSUME NEW d \in DOMAIN conns', NEW e \in Ends, NEW j \in 1 .. Len(sent), Has(conns'[d], e, j)
       PROVE  LET o == Owner(conns'[d], e) IN
              /\ \A b \in DOMAIN conns', g \in Ends : Has(conns'[b], g, j) /\ <<b, g>> # <<d, e>> =>
                   o \in Nodes /\ Owner(conns'[b], g) \in Nodes \ {o}
              /\ \A g \in DOMAIN got' : g.npdu = j => o \in Nodes \ {g.to}
    BY <1>1 DEF Once
  <2>1. \A b \in DOMAIN conns', g \in Ends : Owner(conns'[b], g) = Owner(conns[b], g) /\ b \in DOMAIN conns
    BY <1>1, <1>4 DEF Owner
  <2>2. CASE j # i
    <3>1. Has(conns[d], e, j) /\ \A b \in DOMAIN conns', g \in Ends : Has(conns'[b], g, j) => Has(conns[b], g, j)
      BY <1>7, <2>2
    <3>. QED  BY <1>1, <2>1, <3>1 DEF DeliveryInv, Once
  <2>3. CASE j = i
    <3>1. /\ e = "a" /\ d \in to /\ Open(conns[d], "a")
          /\ \A b \in DOMAIN conns', g \in Ends : Has(conns'[b], g, j) => g = "a" /\ b \in to /\ Open(conns[b], "a")
      BY <1>7, <2>3
    <3>2. \A b \in DOMAIN conns : Owner(conns[b], "a") = conns[b].from /\ conns[b].from \in Nodes
      BY Known, RecordTypes DEF Owner
    <3>3. \A g \in DOMAIN got' : g.npdu # j
      BY <1>1, <1>3, <2>3
    <3>4. ASSUME NEW b \in DOMAIN conns', NEW g \in Ends, Has(conns'[b], g, j), <<b, g>> # <<d, e>>
          PROVE  conns[b].from # conns[d].from /\ g = "a"
      BY <1>4, <1>8, <3>1, <3>4
    <3>. QED  BY <1>4, <2>1, <3>1, <3>2, <3>3, <3>4
  <2>. QED  BY <2>2, <2>3
<1>10. Delivered'
  BY <1>1 DEF DeliveryInv, Delivered
<1>11. WokenByEnd'
  BY <1>1, <1>4 DEF DeliveryInv, WokenByEnd
<1>. QED  BY <1>6, <1>9, <1>10, <1>11 DEF DeliveryInv

\* A network layer is given the NPDU that end e of c reads.
LEMMA DeliverDelivery ==
  ASSUME ConnInv, DeliveryInv, NEW c \in DOMAIN conns, hub_npdu(c) \/ \E e \in Ends : direct_npdu(c, e)
  PROVE  DeliveryInv'
<1>. USE EndNames
<1>1. PICK e \in Ends :
        /\ conns[c].in[e] # <<>> /\ Head(conns[c].in[e]).fn = "npdu" /\ Open(conns[c], e)
        /\ (conns[c].to \in Hubs /\ e = "a") \/ conns[c].to \in Nodes
        /\ Deliver(Owner(conns[c], e), Head(conns[c].in[e]), Head(conns[c].in[e]).orig)
        /\ Keep(c, Taken(conns[c], e)) /\ UNCHANGED <<vmac, connector, sent>>
  BY DEF hub_npdu, direct_npdu, Heads, Connected, Open, Owner, nodeVars
<1>. DEFINE r == conns[c]
            q == Taken(r, e)
            m == Head(r.in[e])
            i == m.npdu
            s == sent[i]
            n == Owner(r, e)
            x == [to |-> n, at |-> vmac[n], npdu |-> i, src |-> m.orig]
            f == [conns EXCEPT ![c] = q]
<1>2. /\ r \in Records /\ q \in Records /\ q.from = r.from /\ q.to = r.to /\ q.vmac = r.vmac /\ q.st = r.st
      /\ q.in[e] = Tail(r.in[e]) /\ q.in[Peer(e)] = r.in[Peer(e)]
      /\ r.in[e] \in Seq(Messages) /\ m \in Range(r.in[e]) /\ NoTwice(r.in[e])
  BY <1>1, Known, TakenFact, HasFact, TailFact DEF Alike
<1>3. /\ i \in 1 .. Len(sent) /\ Has(r, e, i) /\ BoundFor(r, e, m, s)
  BY <1>1, <1>2, HasFact
<1>4. /\ \A d \in DOMAIN conns, g \in Ends : Has(conns[d], g, i) /\ <<d, g>> # <<c, e>> =>
           n \in Nodes /\ Owner(conns[d], g) \in Nodes \ {n}
      /\ \A g \in DOMAIN got : g.npdu = i => n \in Nodes \ {g.to}
  BY <1>3 DEF DeliveryInv, Once
<1>5. /\ x \notin DOMAIN got /\ x.to = n /\ x.npdu = i /\ x.at = vmac[n] /\ x.src = m.orig
  BY <1>4
<1>6. /\ DOMAIN got' = DOMAIN got \cup {x} /\ got'[x] = 1
      /\ \A g \in DOMAIN got : got[g] = 1 => got'[g] = 1
  BY <1>1, <1>5, DeliverFact
<1>7. Became(f) /\ \A d \in DOMAIN conns : f[d] = IF d = c THEN q ELSE conns[d]
  BY <1>1, KeepFact DEF ConnInv
<1>8. \A k \in Range(q.in[e]) : k.fn = "npdu" => k.npdu # i
  BY <1>1, <1>2, HeadGone
<1>9. LeftOver(q.in[e], r.in[e]) /\ LeftOver(q.in[Peer(e)], r.in[Peer(e)])
  BY <1>1, <1>2, LeftOverTail, LeftOverSame
\* Where it is given, and in whose name
<1>10. IF s.dest = ALL THEN x.at # s.vmac ELSE x.at = s.dest
  <2>1. vmac \in [Nodes -> VMACs] /\ PartiesOK(r, running, vmac) /\ r.vmac # ALL
    BY <1>2, Known, RecordTypes, NodesAssumption
  <2>2. CASE r.to \in Hubs /\ e = "a"
    <3>1. x.at = r.vmac
      BY <1>1, <1>5, <2>1, <2>2 DEF PartiesOK, Owner
    <3>. QED  BY <1>3, <2>2, <3>1 DEF BoundFor
  <2>3. CASE r.to \in Nodes
    <3>1. s.dest = x.at /\ x.at # ALL
      <4>1. CASE e = "a"
        BY <1>1, <1>3, <1>5, <2>1, <2>3, <4>1 DEF BoundFor, PartiesOK, Owner
      <4>2. CASE e = "b"
        BY <1>3, <1>5, <2>1, <2>3, <4>2, NodesAssumption DEF BoundFor, Owner
      <4>. QED  BY <4>1, <4>2
    <3>. QED  BY <3>1
  <2>. QED  BY <1>1, <2>2, <2>3
<1>11. x.src \in {NULL, s.vmac}
  BY <1>1, <1>3, <1>5 DEF BoundFor
<1>. HIDE DEF q, m, i, x, f, n
<1>12. \A d \in DOMAIN conns' :
         /\ d \in DOMAIN conns /\ conns'[d] = IF d = c THEN q ELSE conns[d]
         /\ conns'[d].from = conns[d].from /\ conns'[d].to = conns[d].to /\ conns'[d].vmac = conns[d].vmac
         /\ conns'[d].st = conns[d].st
  BY <1>2, <1>7 DEF Became
<1>13. \A d \in DOMAIN conns', g \in Ends : LeftOver(conns'[d].in[g], conns[d].in[g])
  <2>1. \A g \in Ends : LeftOver(q.in[g], r.in[g])
    BY <1>9, EndsFact
  <2>. QED  BY <1>12, <2>1, LeftOverSame
<1>14. Bound'
  BY <1>1, <1>12, <1>13, HasFact DEF Bound, LeftOver, BoundFor
<1>15. \A d \in DOMAIN conns', g \in Ends, j \in 1 .. Len(sent) : Has(conns'[d], g, j) => Has(conns[d], g, j)
  BY <1>13 DEF Has, LeftOver
<1>16. \A d \in DOMAIN conns', g \in Ends : Has(conns'[d], g, i) => <<d, g>> # <<c, e>>
  BY <1>8, <1>12 DEF Has
<1>17. Once'
  <2>. SUFFICES ASSUME NEW d \in DOMAIN conns', NEW g \in Ends, NEW j \in 1 .. Len(sent), Has(conns'[d], g, j)
       PROVE  LET o == Owner(conns'[d], g) IN
              /\ \A b \in DOMAIN conns', p \in Ends : Has(conns'[b], p, j) /\ <<b, p>> # <<d, g>> =>
                   o \in Nodes /\ Owner(conns'[b], p) \in Nodes \ {o}
              /\ \A y \in DOMAIN got' : y.npdu = j => o \in Nodes \ {y.to}
    BY <1>1 DEF Once
  <2>1. \A b \in DOMAIN conns', p \in Ends : Owner(conns'[b], p) = Owner(conns[b], p) /\ b \in DOMAIN conns
    BY <1>12 DEF Owner
  <2>2. Has(conns[d], g, j) /\ \A b \in DOMAIN conns', p \in Ends : Has(conns'[b], p, j) => Has(conns[b], p, j)
    BY <1>15
  <2>3. \A b \in DOMAIN conns', p \in Ends : Has(conns'[b], p, j) /\ <<b, p>> # <<d, g>> =>
          Owner(conns'[d], g) \in Nodes /\ Owner(conns'[b], p) \in Nodes \ {Owner(conns'[d], g)}
    BY <2>1, <2>2 DEF DeliveryInv, Once
  <2>4. \A y \in DOMAIN got : y.npdu = j => Owner(conns'[d], g) \in Nodes \ {y.to}
    BY <2>1, <2>2 DEF DeliveryInv, Once
  <2>5. x.npdu = j => Owner(conns'[d], g) \in Nodes \ {x.to}
    <3>. SUFFICES ASSUME j = i PROVE Owner(conns[d], g) \in Nodes \ {n}
      BY <1>5, <2>1
    <3>1. <<d, g>> # <<c, e>> /\ d \in DOMAIN conns
      BY <1>12, <1>16
    <3>. QED  BY <1>4, <2>2, <3>1
  <2>. QED  BY <1>6, <2>3, <2>4, <2>5
<1>18. Delivered'
  <2>. SUFFICES ASSUME NEW g \in DOMAIN got'
       PROVE  /\ g.npdu \in 1 .. Len(sent) /\ got'[g] = 1
              /\ \A y \in DOMAIN got' : y.to = g.to /\ y.npdu = g.npdu => y = g
              /\ IF sent[g.npdu].dest = ALL THEN g.at # sent[g.npdu].vmac ELSE g.at = sent[g.npdu].dest
              /\ g.src \in {NULL, sent[g.npdu].vmac}
    BY <1>1 DEF Delivered
  <2>1. \A y \in DOMAIN got : ~(y.to = x.to /\ y.npdu = x.npdu)
    BY <1>4, <1>5
  <2>2. CASE g = x
    BY <1>3, <1>5, <1>6, <1>10, <1>11, <2>1, <2>2
  <2>3. CASE g \in DOMAIN got
    BY <1>6, <2>1, <2>3 DEF DeliveryInv, Delivered
  <2>. QED  BY <1>6, <2>2, <2>3
<1>19. WokenByEnd'
  BY <1>1, <1>12 DEF DeliveryInv, WokenByEnd
<1>. QED  BY <1>14, <1>17, <1>18, <1>19 DEF DeliveryInv

LEMMA InitDelivery ==
  ASSUME Init
  PROVE  DeliveryInv
<1>1. conns = Nothing /\ got = EmptyBag /\ DOMAIN Nothing = {} /\ DOMAIN EmptyBag = {}
  BY DEF Init, Nothing, EmptyBag, SetToBag
<1>2. \A n \in Nodes : ~connector[n].woken
  BY ConnectorTypes DEF Init
<1>. QED  BY <1>1, <1>2 DEF DeliveryInv, Bound, Once, Delivered, WokenByEnd

LEMMA NextDelivery ==
  ConnInv /\ DeliveryInv /\ [Next]_vars => DeliveryInv'
<1>. SUFFICES ASSUME ConnInv, DeliveryInv, [Next]_vars PROVE DeliveryInv'
  OBVIOUS
<1>1. Unheard => DeliveryInv'
  BY NothingSent DEF Unheard
<1>2. ASSUME NEW c \in DOMAIN conns, connection_task(c) \/ Cut(c) PROVE DeliveryInv'
  <2>1. CASE \/ accept_request(c) \/ accept_replied(c) \/ accept_failed(c)
             \/ accept_direct(c) \/ accept_abandoned(c)
    BY <1>1, <2>1, AcceptUnheard
  <2>2. CASE \/ connect_accepted(c) \/ connect_refused(c) \/ connect_closed(c) \/ direct_accepted(c)
    BY <1>1, <2>2, ConnectUnheard
  <2>3. CASE node_message(c)
    BY <1>1, <2>3, ForwardedUnheard, ForwardDelivery
  <2>4. CASE hub_npdu(c) \/ \E e \in Ends : direct_npdu(c, e)
    BY <2>4, DeliverDelivery
  <2>5. CASE disconnected(c) \/ \E e \in Ends : receive_end(c, e)
    BY <1>1, <2>5, EndUnheard
  <2>6. CASE \/ heartbeat(c) \/ hub_resolve(c) \/ hub_resolved(c) \/ Cut(c)
             \/ \E e \in Ends : receive_heartbeat(c, e)
    BY <1>1, <2>6, WordsUnheard
  <2>. QED  BY <1>2, <2>1, <2>2, <2>3, <2>4, <2>5, <2>6 DEF connection_task
<1>3. ASSUME NEW n \in Nodes, connect_loop(n) \/ send_broadcast(n) \/ stop_node(n) PROVE DeliveryInv'
  BY <1>1, <1>3, LoopUnheard, SendDelivery, StopsUnheard
<1>4. ASSUME NEW n \in Nodes, NEW v \in VMACs,
             \/ send_unicast(n, v) \/ resolve_address(n, v) \/ start_node(n, v)
             \/ resolution_timeout(n, v) \/ resolution_ends(n, v)
      PROVE  DeliveryInv'
  BY <1>1, <1>4, SendDelivery, SwitchUnheard, StopsUnheard
<1>5. ASSUME NEW n \in Nodes, NEW m \in Nodes, NEW v \in VMACs, establish_direct(n, m, v)
      PROVE  DeliveryInv'
  BY <1>1, <1>5, SwitchUnheard
<1>6. ASSUME NEW h \in Hubs, stop_hub(h) \/ start_hub(h) PROVE DeliveryInv'
  BY <1>1, <1>6, StopsUnheard
<1>7. CASE UNCHANGED vars
  <2>1. UNCHANGED <<conns, vmac, connector, sent, got>>
    BY <1>7 DEF vars, nodeVars, history
  <2>. QED  BY <1>1, <2>1, NoneUnheard DEF Unheard, RightlyWoken
<1>. QED  BY <1>2, <1>3, <1>4, <1>5, <1>6, <1>7 DEF Next

LEMMA InvDelivered ==
  DeliveryInv => DeliveredAsAddressed
<1>1. BagToSet(got) = DOMAIN got
  BY DEF BagToSet
<1>. QED  BY <1>1 DEF DeliveryInv, Delivered, DeliveredAsAddressed

-----------------------------------------------------------------------------
(* An NPDU is delivered at most once, only at the VMAC it was sent to, by  *)
(* a broadcast not at its sender's, and under the VMAC of its sender or    *)
(* none, whatever is cut, evicted and replaced while it is underway        *)
(* (SCHubFunction._on_node_message, SCTransport.send_unicast).             *)
THEOREM DeliveredAsAddressedTheorem == Spec => []DeliveredAsAddressed
<1>1. Init => ConnInv /\ DeliveryInv
  BY InitInv, InitDelivery
<1>2. (ConnInv /\ DeliveryInv) /\ [Next]_vars => (ConnInv /\ DeliveryInv)'
  BY NextStep, NextDelivery
<1>3. ConnInv /\ DeliveryInv => DeliveredAsAddressed
  BY InvDelivered
<1>. QED  BY <1>1, <1>2, <1>3, PTL DEF Spec
=============================================================================
