-------------------------- MODULE ServerTSM_proofs --------------------------
(***************************************************************************)
(* Proofs of the safety properties of ServerTSM, for every number of       *)
(* clients, invoke IDs and concurrent transactions, every window, retry    *)
(* count and payload, and whatever the clients send.                       *)
(***************************************************************************)
EXTENDS ServerTSM, OperatorFacts

\* The phase of a transaction object agrees with the life of its handler,
\* wherever the object is referred to from.
Good(o) ==
  /\ IsObj(o)
  /\ o.state = "SEGMENTED_REQUEST" =>
       o.task = "none" /\ Contiguous(o.receiver) /\ ~receiver_complete(o.receiver)
  /\ o.state = "AWAIT_RESPONSE" => o.task \in {"queued", "running", "dropped"}
  /\ o.state \in {"IDLE", "SEGMENTED_RESPONSE"} => o.task = "done"
  /\ o.state = "SEGMENTED_RESPONSE" => o.sender.win < o.sender.total /\ o.sender.aws > 0

\* What holds besides of an object the table leads to: its timer is the one
\* its phase needs, and once answered it has its own response at hand.
InForce(o) ==
  /\ o.state \in {"SEGMENTED_REQUEST", "SEGMENTED_RESPONSE"} <=> o.timer = "segment"
  /\ o.timer = "none" => o.state = "AWAIT_RESPONSE" /\ o.receiver # NoReceiver
  /\ o.state \in {"IDLE", "SEGMENTED_RESPONSE"} =>
       o.cached # <<>> /\ o.cached[1].data = o.data

\* The table tbl leads to the object n of objs.
Leads(objs, tbl, n) == objs[n].key \in DOMAIN tbl /\ tbl[objs[n].key] = n

\* The objects and the table agree.  Save for the keys in outlived, of which a
\* handler has outlived its request timer, an object that is referred to at
\* all is in the table.
Consistent(objs, tbl, outlived) ==
  /\ DOMAIN tbl \subseteq Keys
  /\ \A k \in DOMAIN tbl :
       tbl[k] \in DOMAIN objs /\ objs[tbl[k]].key = k /\ InForce(objs[tbl[k]])
  /\ DOMAIN objs \subseteq 1 .. MaxTransactions
  /\ \A n \in Reachable(objs, tbl) : Good(objs[n])
  /\ \A n \in Reachable(objs, tbl) : objs[n].key \notin outlived => Leads(objs, tbl, n)
  /\ outlived \subseteq Keys

\* The inductive invariant.
IInv ==
  /\ Consistent(obj, table, late)
  /\ DOMAIN obj = Reachable(obj, table)
  /\ dcc \in DccStates \cup {"ENABLE"}

-----------------------------------------------------------------------------
(* What the shared effects of the handlers preserve.                       *)

\* What the handlers know of an object, and of one they find in the table.
LEMMA ObjectFact ==
  ASSUME IInv, NEW n \in DOMAIN obj
  PROVE  /\ Good(obj[n]) /\ IsObj(obj[n])
         /\ obj[n].key \in DOMAIN table =>
              /\ table[obj[n].key] \in DOMAIN obj
              /\ InForce(obj[table[obj[n].key]])
              /\ obj[table[obj[n].key]].key = obj[n].key
<1>. QED  BY DEF IInv, Consistent, Good

LEMMA EntryFact ==
  ASSUME IInv, NEW k \in DOMAIN table
  PROVE  /\ table[k] \in DOMAIN obj
         /\ Good(obj[table[k]]) /\ IsObj(obj[table[k]]) /\ InForce(obj[table[k]])
         /\ obj[table[k]].key = k
<1>. QED  BY DEF IInv, Consistent, Good

\* Forgetting what nothing refers to any more keeps the rest consistent.
LEMMA SettleFact ==
  ASSUME NEW objs, NEW tbl, NEW outlived, NEW pdus,
         Consistent(objs, tbl, late \cup outlived), Settle(objs, tbl, outlived, pdus),
         dcc \in DccStates \cup {"ENABLE"}
  PROVE  IInv'
<1>. DEFINE R == Reachable(objs, tbl)
            kept == Restrict(objs, R)
            L == { k \in late \cup outlived : \E n \in DOMAIN kept : kept[n].key = k }
<1>1. table' = tbl /\ obj' = kept /\ late' = L /\ dcc' = dcc
  BY DEF Settle
<1>2. /\ R \subseteq DOMAIN objs
      /\ \A k \in DOMAIN tbl : tbl[k] \in R
      /\ \A n \in R : \/ \E k \in DOMAIN tbl : tbl[k] = n
                      \/ objs[n].timer # "none"
                      \/ AtWork(objs[n])
  BY DEF Reachable, Consistent
<1>3. DOMAIN kept = R /\ \A n \in R : kept[n] = objs[n]
  BY DEF Restrict
<1>. HIDE DEF kept
<1>8. L \subseteq Keys /\ \A n \in R : kept[n].key \notin L => objs[n].key \notin late \cup outlived
  BY <1>3 DEF Consistent
<1>. HIDE DEF L
<1>4. Reachable(kept, tbl) = R
  BY <1>2, <1>3 DEF Reachable
<1>5. Consistent(kept, tbl, L)
  <2>1. DOMAIN tbl \subseteq Keys
    BY DEF Consistent
  <2>2. \A k \in DOMAIN tbl :
          tbl[k] \in DOMAIN kept /\ kept[tbl[k]].key = k /\ InForce(kept[tbl[k]])
    BY <1>2, <1>3 DEF Consistent
  <2>3. DOMAIN kept \subseteq 1 .. MaxTransactions
    BY <1>2, <1>3 DEF Consistent
  <2>4. \A n \in R : Good(kept[n])
    BY <1>3 DEF Consistent
  <2>5. \A n \in R : kept[n].key \notin L => Leads(kept, tbl, n)
    BY <1>3, <1>8 DEF Consistent, Leads
  <2>. QED  BY <1>4, <1>8, <2>1, <2>2, <2>3, <2>4, <2>5 DEF Consistent
<1>6. Consistent(obj', table', late')
  BY <1>1, <1>5
<1>7. DOMAIN obj' = Reachable(obj', table')
  BY <1>1, <1>3, <1>4
<1>. QED  BY <1>1, <1>6, <1>7 DEF IInv, Consistent, Reachable, Leads

\* The same of a step in which no handler is overtaken by its timer.
LEMMA CommitFact ==
  ASSUME NEW objs, NEW tbl, NEW pdus, Consistent(objs, tbl, late),
         Commit(objs, tbl, pdus), dcc \in DccStates \cup {"ENABLE"}
  PROVE  IInv'
<1>1. Settle(objs, tbl, {}, pdus) /\ late \cup {} = late
  BY DEF Commit
<1>. QED  BY <1>1, SettleFact

\* One object changes, and stays good.
LEMMA ChangedFact ==
  ASSUME IInv, NEW n \in DOMAIN obj, NEW o, Good(o), o.key = obj[n].key,
         InTable(n) => InForce(o)
  PROVE  Consistent([obj EXCEPT ![n] = o], table, late)
<1>. DEFINE objs == [obj EXCEPT ![n] = o]
<1>1. /\ DOMAIN objs = DOMAIN obj
      /\ objs[n] = o
      /\ \A m \in DOMAIN obj : m # n => objs[m] = obj[m]
      /\ \A m \in DOMAIN obj : objs[m].key = obj[m].key
  OBVIOUS
<1>. HIDE DEF objs
<1>2. \A k \in DOMAIN table :
        table[k] \in DOMAIN objs /\ objs[table[k]].key = k /\ InForce(objs[table[k]])
  BY <1>1, EntryFact DEF InTable
<1>3. \A m \in DOMAIN objs : Good(objs[m])
  BY <1>1, ObjectFact
<1>4. \A m \in DOMAIN objs : objs[m].key \notin late => Leads(objs, table, m)
  BY <1>1 DEF IInv, Consistent, Leads
<1>5. Reachable(objs, table) \subseteq DOMAIN objs
  BY DEF Reachable
<1>6. Consistent(objs, table, late)
  BY <1>1, <1>2, <1>3, <1>4, <1>5 DEF Consistent, IInv
<1>. QED  BY <1>6 DEF objs

LEMMA BecomeKeepsInv ==
  ASSUME IInv, NEW n \in DOMAIN obj, NEW o, Good(o), o.key = obj[n].key,
         InTable(n) => InForce(o), NEW pdus, Become(n, o, pdus)
  PROVE  IInv'
<1>1. Consistent([obj EXCEPT ![n] = o], table, late)
  BY ChangedFact
<1>2. Commit([obj EXCEPT ![n] = o], table, pdus)
  BY DEF Become
<1>. QED  BY <1>1, <1>2, CommitFact DEF IInv

\* Nothing but the table can lead to an object that waits for nothing.
Quiet(o) == o.timer = "none" /\ ~AtWork(o)

\* The entry of the key k leaves the table.  Objects of that key may change;
\* those that are no longer good have neither a timer nor a task left, and so
\* has the one the table led to unless the key is now one of the outlived.
LEMMA RemovedFact ==
  ASSUME IInv, NEW k, NEW outlived \in SUBSET Keys, late \subseteq outlived,
         NEW objs, DOMAIN objs = DOMAIN obj,
         \A m \in DOMAIN obj : objs[m].key = obj[m].key,
         \A m \in DOMAIN obj : obj[m].key # k => objs[m] = obj[m],
         \A m \in DOMAIN obj : Good(objs[m]) \/ Quiet(objs[m]),
         k \notin outlived =>
           \A m \in DOMAIN obj : Leads(obj, table, m) /\ obj[m].key = k => Quiet(objs[m])
  PROVE  Consistent(objs, Without(k), outlived)
<1>. DEFINE tbl == Without(k)
<1>1. /\ DOMAIN tbl = DOMAIN table \ {k}
      /\ \A x \in DOMAIN tbl : tbl[x] = table[x]
  BY DEF Without, Restrict
<1>. HIDE DEF tbl
<1>2. \A x \in DOMAIN tbl :
        /\ tbl[x] \in DOMAIN obj /\ obj[tbl[x]].key = x /\ InForce(obj[tbl[x]])
        /\ objs[tbl[x]] = obj[tbl[x]]
  BY <1>1, EntryFact
<1>3. \A m \in Reachable(objs, tbl) :
        m \in DOMAIN obj /\ (~Quiet(objs[m]) \/ \E x \in DOMAIN tbl : tbl[x] = m)
  BY DEF Reachable, Quiet
<1>4. \A m \in Reachable(objs, tbl) : Good(objs[m])
  <2>1. \A x \in DOMAIN tbl : Good(objs[tbl[x]])
    BY <1>2, ObjectFact
  <2>. QED  BY <1>3, <2>1
<1>5. \A m \in Reachable(objs, tbl) : objs[m].key \notin outlived => Leads(objs, tbl, m)
  <2>. SUFFICES ASSUME NEW m \in Reachable(objs, tbl), objs[m].key \notin outlived
                PROVE  Leads(objs, tbl, m)
    OBVIOUS
  <2>1. m \in DOMAIN obj /\ Leads(obj, table, m)
    BY <1>3 DEF IInv, Consistent
  <2>2. obj[m].key # k
    BY <1>1, <1>2, <1>3, <2>1
  <2>. QED  BY <1>1, <2>1, <2>2 DEF Leads
<1>6. DOMAIN tbl \subseteq Keys /\ DOMAIN objs \subseteq 1 .. MaxTransactions
  BY <1>1 DEF IInv, Consistent
<1>7. Consistent(objs, tbl, outlived)
  BY <1>2, <1>4, <1>5, <1>6 DEF Consistent
<1>. QED  BY <1>7 DEF tbl

\* _abort_server_transaction() for an object whose handler is not at work.
LEMMA AbortKeepsInv ==
  ASSUME IInv, NEW n \in DOMAIN obj, NEW o, IsObj(o), o.key = obj[n].key,
         o.task \notin {"queued", "running"}, abort_server_transaction(n, o)
  PROVE  IInv'
<1>. DEFINE a == Aborted(o)
            objs == [obj EXCEPT ![n] = a]
<1>1. a.key = obj[n].key /\ Quiet(a)
  BY DEF IsObj, Aborted, Quiet, AtWork
<1>. HIDE DEF a
<1>2. /\ DOMAIN objs = DOMAIN obj
      /\ objs[n] = a
      /\ \A m \in DOMAIN obj : m # n => objs[m] = obj[m]
  OBVIOUS
<1>3. Commit(objs, Without(o.key), <<Response(o, "Abort")>>)
  BY DEF abort_server_transaction, a
<1>. HIDE DEF objs
<1>4. \A m \in DOMAIN obj : Good(objs[m]) \/ Quiet(objs[m])
  BY <1>1, <1>2, ObjectFact
<1>5. \A m \in DOMAIN obj :
        Leads(obj, table, m) /\ Leads(obj, table, n) /\ obj[m].key = o.key => m = n
  BY DEF Leads
<1>6. o.key \notin late => Leads(obj, table, n)
  BY DEF IInv, Consistent
<1>7. /\ \A m \in DOMAIN obj : objs[m].key = obj[m].key
      /\ \A m \in DOMAIN obj : obj[m].key # o.key => objs[m] = obj[m]
      /\ o.key \notin late => \A m \in DOMAIN obj :
           Leads(obj, table, m) /\ obj[m].key = o.key => Quiet(objs[m])
  BY <1>1, <1>2, <1>5, <1>6
<1>8. Consistent(objs, Without(o.key), late)
  BY <1>2, <1>4, <1>7, RemovedFact DEF IInv, Consistent
<1>. QED  BY <1>3, <1>8, CommitFact DEF IInv

\* An object enters the table under a key that is free.
LEMMA CreateKeepsInv ==
  ASSUME IInv, NEW k \in Keys, NEW o, Good(o), InForce(o), o.key = k, NEW pdus,
         Create(k, o, pdus)
  PROVE  IInv'
<1>1. PICK n \in (1 .. MaxTransactions) \ DOMAIN obj :
        Commit([m \in DOMAIN obj \cup {n} |-> IF m = n THEN o ELSE obj[m]],
               [x \in DOMAIN table \cup {k} |-> IF x = k THEN n ELSE table[x]], pdus)
  BY DEF Create
<1>2. k \notin DOMAIN table
  BY DEF Create
<1>. DEFINE objs == [m \in DOMAIN obj \cup {n} |-> IF m = n THEN o ELSE obj[m]]
            tbl == [x \in DOMAIN table \cup {k} |-> IF x = k THEN n ELSE table[x]]
<1>3. /\ DOMAIN objs = DOMAIN obj \cup {n}
      /\ objs[n] = o
      /\ \A m \in DOMAIN obj : objs[m] = obj[m]
  OBVIOUS
<1>4. /\ DOMAIN tbl = DOMAIN table \cup {k}
      /\ tbl[k] = n
      /\ \A x \in DOMAIN table : tbl[x] = table[x]
  BY <1>2
<1>5. Commit(objs, tbl, pdus)
  BY <1>1
<1>. HIDE DEF objs, tbl
<1>6. \A x \in DOMAIN tbl :
        tbl[x] \in DOMAIN objs /\ objs[tbl[x]].key = x /\ InForce(objs[tbl[x]])
  BY <1>3, <1>4, EntryFact
<1>7. \A m \in DOMAIN objs : Good(objs[m])
  BY <1>3, ObjectFact
<1>8. \A m \in DOMAIN objs : objs[m].key \notin late => Leads(objs, tbl, m)
  BY <1>2, <1>3, <1>4 DEF IInv, Consistent, Leads
<1>9. DOMAIN tbl \subseteq Keys /\ DOMAIN objs \subseteq 1 .. MaxTransactions
  BY <1>3, <1>4 DEF IInv, Consistent
<1>10. Consistent(objs, tbl, late)
  BY <1>6, <1>7, <1>8, <1>9 DEF Consistent, Reachable, IInv
<1>. QED  BY <1>5, <1>10, CommitFact DEF IInv

-----------------------------------------------------------------------------
(* Requests.                                                               *)

\* A request is a payload, whether it came whole or is reassembled.
LEMMA PayloadFact == Seq(RequestSlices) \subseteq Payloads /\ Requests \subseteq Payloads
<1>. DEFINE S == RequestSlices \cup UNION { { p[i] : i \in DOMAIN p } : p \in Requests }
<1>1. Seq(RequestSlices) \subseteq Seq(S)
  OBVIOUS
<1>2. ASSUME NEW p \in Requests
      PROVE  p \in Seq(S)
  <2>1. p \in Seq({ p[i] : i \in DOMAIN p })
    BY ServerAssumption
  <2>2. { p[i] : i \in DOMAIN p } \subseteq S
    OBVIOUS
  <2>. HIDE DEF S
  <2>. QED  BY <2>1, <2>2
<1>. QED  BY <1>1, <1>2 DEF Payloads

\* A new transaction record, whose request has been received whole.
LEMMA NewTxnFact ==
  ASSUME NEW k \in Keys, NEW data \in Payloads, NEW a \in PeerAccepts,
         NEW ms \in PeerMaxSegments
  PROVE  LET o == NewTxn(k, data, a, ms)
         IN  /\ IsObj(o)
             /\ o.key = k /\ o.state = "AWAIT_RESPONSE" /\ o.timer = "request"
             /\ o.task = "none" /\ o.cached = <<>> /\ o.receiver = NoReceiver
<1>1. NoSender \in SenderType
  BY DEF NoSender, SenderType
<1>2. IsReceiver(NoReceiver, RequestSlices)
  <2>1. DOMAIN NoReceiver.segs = {}
    BY DEF NoReceiver
  <2>2. IsFiniteSet(DOMAIN NoReceiver.segs)
    BY <2>1, FS_EmptySet
  <2>. QED  BY <2>1, <2>2 DEF IsReceiver, NoReceiver, NoFinal
<1>3. 0 \in 0 .. Retries
  BY ServerAssumption
<1>. HIDE DEF NoSender, NoReceiver
<1>. QED  BY <1>1, <1>2, <1>3 DEF IsObj, NewTxn, States

\* Dispatching starts the handler or drops the request.
LEMMA DispatchedFact ==
  ASSUME NEW o, IsObj(o), o.state = "AWAIT_RESPONSE"
  PROVE  LET d == Dispatched(o)
         IN  /\ Good(d)
             /\ d.key = o.key /\ d.timer = o.timer /\ d.receiver = o.receiver
             /\ d.state = o.state
<1>1. \A x \in {"dropped", "running"} : LET d == [o EXCEPT !.task = x] IN
        /\ IsObj(d) /\ d.task = x
        /\ d.key = o.key /\ d.timer = o.timer /\ d.receiver = o.receiver
        /\ d.state = o.state
  BY DEF IsObj
<1>. QED  BY <1>1 DEF Dispatched, Good

LEMMA DuplicateStep ==
  ASSUME IInv, NEW k, duplicate_request(k)
  PROVE  IInv'
<1>1. Commit(obj, table, obj[table[k]].cached)
  BY DEF duplicate_request
<1>. QED  BY <1>1, CommitFact DEF IInv

LEMMA RequestStep ==
  ASSUME IInv, NEW k \in Keys, NEW data \in Payloads, NEW a \in PeerAccepts,
         NEW ms \in PeerMaxSegments, receive_confirmed_request(k, data, a, ms)
  PROVE  IInv'
<1>1. CASE duplicate_request(k)
  BY <1>1, DuplicateStep
<1>2. CASE Create(k, Dispatched(NewTxn(k, data, a, ms)), <<>>)
  <2>. DEFINE o == NewTxn(k, data, a, ms)
              d == Dispatched(o)
  <2>1. /\ IsObj(o) /\ o.state = "AWAIT_RESPONSE" /\ o.key = k
        /\ o.timer = "request"
    BY NewTxnFact
  <2>2. Create(k, d, <<>>)
    BY <1>2
  <2>. HIDE DEF o
  <2>3. Good(d) /\ d.key = k /\ d.timer = "request" /\ d.state = "AWAIT_RESPONSE"
    BY <2>1, DispatchedFact
  <2>. HIDE DEF d
  <2>. QED  BY <2>2, <2>3, CreateKeepsInv DEF InForce
<1>. QED  BY <1>1, <1>2 DEF receive_confirmed_request

LEMMA FirstSegmentStep ==
  ASSUME IInv, NEW k \in Keys, NEW slice \in RequestSlices, NEW more \in BOOLEAN,
         NEW pws \in PeerWindows, NEW a \in PeerAccepts, NEW ms \in PeerMaxSegments,
         first_request_segment(k, slice, more, pws, a, ms)
  PROVE  IInv'
<1>. DEFINE rcv == ReceiverCreate(slice, IF pws = 0 THEN 1 ELSE pws, more, OurWindow)
            b == NewTxn(k, <<>>, a, ms)
            o == [b EXCEPT !.state = "SEGMENTED_REQUEST", !.receiver = rcv]
            waiting == [o EXCEPT !.timer = "segment"]
            data == reassemble(rcv)
            single == [o EXCEPT !.state = "AWAIT_RESPONSE", !.task = "queued",
                                !.data = data]
            ack == <<ServerSegmentAck(o, 0, FALSE)>>
<1>1. <<>> \in Payloads
  BY DEF Payloads
<1>2. /\ IsObj(b) /\ b.key = k /\ b.timer = "request" /\ b.task = "none"
      /\ b.cached = <<>>
  BY <1>1, NewTxnFact
<1>3. /\ IsReceiver(rcv, RequestSlices) /\ Contiguous(rcv)
      /\ receiver_complete(rcv) <=> ~more
      /\ rcv # NoReceiver
  <2>1. (IF pws = 0 THEN 1 ELSE pws) \in Nat /\ OurWindow \in Nat
    BY ServerAssumption
  <2>2. rcv.exp = 1 /\ NoReceiver.exp = 0
    BY DEF ReceiverCreate, NoReceiver
  <2>. QED  BY <2>1, <2>2, ReceiverCreateFact
<1>4. ~more => data \in Payloads
  <2>. HIDE DEF rcv
  <2>. QED  BY <1>3, ReassembleFact, PayloadFact
<1>. HIDE DEF b, rcv, data
<1>5. /\ o.receiver = rcv
      /\ o = [b EXCEPT !.state = "SEGMENTED_REQUEST", !.receiver = rcv]
  BY <1>2 DEF IsObj
<1>6. Create(k, IF more THEN waiting ELSE single, ack)
  BY <1>5 DEF first_request_segment, rcv, b, data
<1>7. /\ IsObj(o) /\ o.key = k /\ o.timer = "request" /\ o.task = "none"
      /\ o.cached = <<>> /\ o.state = "SEGMENTED_REQUEST" /\ o.receiver = rcv
  BY <1>2, <1>3 DEF IsObj, States
<1>. HIDE DEF o
<1>8. CASE more
  <2>1. /\ IsObj(waiting) /\ waiting.key = k /\ waiting.timer = "segment"
        /\ waiting.task = "none" /\ waiting.state = "SEGMENTED_REQUEST"
        /\ waiting.receiver = rcv
    BY <1>7 DEF IsObj
  <2>. HIDE DEF waiting
  <2>2. Good(waiting) /\ InForce(waiting)
    BY <1>3, <1>8, <2>1 DEF Good, InForce
  <2>. QED  BY <1>6, <1>8, <2>1, <2>2, CreateKeepsInv
<1>9. CASE ~more
  <2>1. /\ IsObj(single) /\ single.key = k /\ single.timer = "request"
        /\ single.task = "queued" /\ single.state = "AWAIT_RESPONSE"
    BY <1>4, <1>7, <1>9 DEF IsObj, States
  <2>. HIDE DEF single
  <2>2. Good(single) /\ InForce(single)
    BY <2>1 DEF Good, InForce
  <2>. QED  BY <1>6, <1>9, <2>1, <2>2, CreateKeepsInv
<1>. QED  BY <1>8, <1>9

LEMMA SegmentStep ==
  ASSUME IInv, NEW k, NEW seq \in Nat, NEW slice \in RequestSlices, NEW more \in BOOLEAN,
         handle_request_segment(k, seq, slice, more)
  PROVE  IInv'
<1>. DEFINE n   == table[k]
            t   == obj[n]
            res == receive_segment(t.receiver, seq, slice, more)
            rcv == res.rcv
            o   == [t EXCEPT !.receiver = rcv, !.timer = "segment"]
            c   == [o EXCEPT !.timer = "none", !.state = "AWAIT_RESPONSE",
                             !.task = "queued", !.data = reassemble(rcv)]
            ack == <<ServerSegmentAck(o, res.ack, FALSE)>>
<1>1. /\ n \in DOMAIN obj /\ Good(t) /\ IsObj(t) /\ InForce(t) /\ t.key = k
      /\ t.state = "SEGMENTED_REQUEST"
  BY EntryFact DEF handle_request_segment
<1>2. t.task = "none" /\ Contiguous(t.receiver) /\ ~receiver_complete(t.receiver)
  BY <1>1 DEF Good
<1>3. /\ IsReceiver(rcv, RequestSlices)
      /\ res.action \in {"COMPLETE", "SEND_ACK", "CONTINUE", "RESEND_LAST_ACK", "ABORT"}
      /\ res.action # "ABORT" =>
           /\ Contiguous(rcv)
           /\ receiver_complete(rcv) <=> res.action = "COMPLETE"
  <2>. HIDE DEF t
  <2>1. IsReceiver(t.receiver, RequestSlices)
    BY <1>1 DEF IsObj
  <2>. QED  BY <1>2, <2>1, ReceiveSegmentFact
<1>4. CASE res.action \in {"SEND_ACK", "RESEND_LAST_ACK", "CONTINUE"}
  <2>1. \E pdus : Become(n, o, pdus)
    BY <1>4, Zenon DEF handle_request_segment
  <2>. HIDE DEF res, t, n
  <2>2. /\ IsObj(o) /\ o.key = t.key /\ o.state = "SEGMENTED_REQUEST"
        /\ o.timer = "segment" /\ o.task = "none" /\ o.receiver = rcv
    BY <1>1, <1>2, <1>3 DEF IsObj
  <2>3. \E pdus : Become(n, o, pdus) /\ o = o
    BY <2>1
  <2>. HIDE DEF o
  <2>4. Good(o) /\ InForce(o)
    BY <1>3, <1>4, <2>2 DEF Good, InForce
  <2>. QED  BY <1>1, <2>1, <2>2, <2>4, BecomeKeepsInv DEF t
<1>5. CASE res.action = "COMPLETE"
  <2>1. Become(n, c, ack)
    BY <1>5 DEF handle_request_segment
  <2>2. /\ receiver_complete(rcv) /\ Contiguous(rcv)
        /\ rcv # NoReceiver /\ reassemble(rcv) \in Payloads
    <3>. HIDE DEF res
    <3>1. receiver_complete(rcv) /\ Contiguous(rcv)
      BY <1>3, <1>5
    <3>2. ~receiver_complete(NoReceiver)
      BY DEF receiver_complete, NoReceiver
    <3>3. rcv # NoReceiver
      BY <3>1, <3>2
    <3>4. reassemble(rcv) \in Seq(RequestSlices)
      BY <1>3, <3>1, ReassembleFact
    <3>. QED  BY <3>1, <3>3, <3>4, PayloadFact
  <2>. DEFINE data == reassemble(rcv)
  <2>. HIDE DEF res, t, n, data
  <2>3. /\ IsObj(o) /\ o.key = t.key /\ o.receiver = rcv
    BY <1>1, <1>3 DEF IsObj
  <2>4. c = [o EXCEPT !.timer = "none", !.state = "AWAIT_RESPONSE",
                      !.task = "queued", !.data = data]
    BY DEF data
  <2>5. Become(n, c, ack)
    BY <2>1 DEF t, n, res
  <2>. HIDE DEF o, c
  <2>6. /\ IsObj(c) /\ c.key = t.key /\ c.state = "AWAIT_RESPONSE"
        /\ c.timer = "none" /\ c.task = "queued" /\ c.receiver = rcv
    BY <2>2, <2>3, <2>4 DEF IsObj, States, data
  <2>7. Good(c) /\ InForce(c)
    BY <2>2, <2>6 DEF Good, InForce
  <2>. QED  BY <1>1, <2>5, <2>6, <2>7, BecomeKeepsInv DEF t
<1>6. CASE res.action = "ABORT"
  <2>1. abort_server_transaction(n, o)
    BY <1>6 DEF handle_request_segment
  <2>. HIDE DEF res, t, n
  <2>2. IsObj(o) /\ o.key = t.key /\ o.task = "none"
    BY <1>1, <1>2, <1>3 DEF IsObj
  <2>. HIDE DEF o
  <2>. QED  BY <1>1, <2>1, <2>2, AbortKeepsInv DEF t
<1>. QED  BY <1>3, <1>4, <1>5, <1>6

LEMMA RequestSegmentStep ==
  ASSUME IInv, NEW k \in Keys, NEW seq \in 0 .. (SeqSpace - 1), NEW slice \in RequestSlices,
         NEW more \in BOOLEAN, NEW pws \in PeerWindows, NEW a \in PeerAccepts,
         NEW ms \in PeerMaxSegments,
         receive_request_segment(k, seq, slice, more, pws, a, ms)
  PROVE  IInv'
<1>1. seq \in Nat
  BY SegmentationAssumption
<1>. QED  BY <1>1, FirstSegmentStep, SegmentStep, DuplicateStep DEF receive_request_segment

-----------------------------------------------------------------------------
(* The handler task of a transaction and its response.                     *)

LEMMA DispatchStep ==
  ASSUME IInv, NEW n, dispatch_request(n)
  PROVE  IInv'
<1>. DEFINE d == Dispatched(obj[n])
<1>1. n \in DOMAIN obj /\ obj[n].task = "queued" /\ Become(n, d, <<>>)
  BY DEF dispatch_request
<1>2. Good(obj[n]) /\ IsObj(obj[n]) /\ obj[n].state = "AWAIT_RESPONSE"
  BY <1>1, ObjectFact DEF Good, IsObj, States
<1>3. /\ Good(d) /\ d.key = obj[n].key /\ d.timer = obj[n].timer
      /\ d.receiver = obj[n].receiver /\ d.state = obj[n].state
  BY <1>2, DispatchedFact
<1>. HIDE DEF d
<1>4. InTable(n) => InForce(d)
  BY <1>1, <1>2, <1>3, EntryFact DEF InForce, InTable
<1>. QED  BY <1>1, <1>3, <1>4, BecomeKeepsInv

\* An object whose handler has just returned: only its phase is still to change.
IsFinished(o, n) ==
  /\ IsObj(o) /\ o.key = obj[n].key /\ o.data = obj[n].data
  /\ o.task = "done"

LEMMA FinishedFact ==
  ASSUME IInv, NEW n \in DOMAIN obj
  PROVE  IsFinished(Finished(n), n)
<1>1. IsObj(obj[n])
  BY ObjectFact
<1>. QED  BY <1>1 DEF IsFinished, Finished, IsObj

\* complete_transaction() caches a response to the object's own request.
LEMMA CompleteStep ==
  ASSUME IInv, NEW n \in DOMAIN obj, NEW o, IsFinished(o, n), NEW response,
         response.data = obj[n].data, complete_transaction(n, o, response)
  PROVE  IInv'
<1>. DEFINE c == [o EXCEPT !.cached = <<response>>, !.state = "IDLE", !.timer = "request"]
<1>1. Become(n, c, <<response>>)
  BY DEF complete_transaction
<1>2. /\ IsObj(c) /\ c.key = obj[n].key /\ c.data = obj[n].data /\ c.task = "done"
      /\ c.state = "IDLE" /\ c.timer = "request" /\ c.cached = <<response>>
  BY DEF IsFinished, IsObj, States
<1>. HIDE DEF c
<1>3. Good(c) /\ InForce(c)
  BY <1>2 DEF Good, InForce
<1>. QED  BY <1>1, <1>2, <1>3, BecomeKeepsInv

LEMMA HandlerReturnsStep ==
  ASSUME IInv, NEW n, NEW kind, handler_returns(n, kind)
  PROVE  IInv'
<1>1. /\ n \in DOMAIN obj
      /\ complete_transaction(n, Finished(n), Response(obj[n], kind))
  BY DEF handler_returns
<1>2. Response(obj[n], kind).data = obj[n].data
  BY DEF Response
<1>. QED  BY <1>1, <1>2, FinishedFact, CompleteStep

LEMMA HandlerReturnsDataStep ==
  ASSUME IInv, NEW n, NEW size \in ResponseSizes, handler_returns_data(n, size)
  PROVE  IInv'
<1>. DEFINE f == Finished(n)
            response == ComplexAck(f, size)
            snd == SenderCreate(size, OurWindow)
            o == [f EXCEPT !.sender = snd, !.state = "SEGMENTED_RESPONSE",
                           !.cached = <<response>>]
            r == [o EXCEPT !.timer = "segment"]
<1>1. n \in DOMAIN obj
  BY DEF handler_returns_data
<1>2. IsFinished(f, n)
  BY <1>1, FinishedFact
<1>3. CASE size = 1
  <2>1. complete_transaction(n, f, ComplexAck(obj[n], 1))
    BY <1>3 DEF handler_returns_data
  <2>2. ComplexAck(obj[n], 1).data = obj[n].data
    BY DEF ComplexAck
  <2>. HIDE DEF f
  <2>. QED  BY <1>1, <1>2, <2>1, <2>2, CompleteStep
<1>4. CASE size # 1 /\ abort_server_transaction(n, f)
  <2>. HIDE DEF f
  <2>. QED  BY <1>1, <1>2, <1>4, AbortKeepsInv DEF IsFinished
<1>5. CASE size # 1 /\ fill_and_send_response_window(n, o)
  <2>1. Become(n, r, ResponseWindow(o))
    BY <1>5 DEF fill_and_send_response_window
  <2>2. snd \in SenderType /\ snd.win < snd.total /\ snd.aws > 0
    BY ServerAssumption DEF SenderCreate, SenderType
  <2>3. response.data = obj[n].data
    BY <1>2 DEF ComplexAck, IsFinished
  <2>. HIDE DEF f, response, snd
  <2>4. /\ IsObj(o) /\ o.key = obj[n].key /\ o.data = obj[n].data
        /\ o.task = "done" /\ o.state = "SEGMENTED_RESPONSE"
        /\ o.cached = <<response>> /\ o.sender = snd
    BY <1>2, <2>2 DEF IsFinished, IsObj, States
  <2>. HIDE DEF o
  <2>5. /\ IsObj(r) /\ r.key = obj[n].key /\ r.data = obj[n].data
        /\ r.task = "done" /\ r.state = "SEGMENTED_RESPONSE" /\ r.timer = "segment"
        /\ r.cached = <<response>> /\ r.sender = snd
    BY <2>4 DEF IsObj
  <2>. HIDE DEF r
  <2>6. Good(r) /\ InForce(r)
    BY <2>2, <2>3, <2>5 DEF Good, InForce
  <2>. QED  BY <1>1, <2>1, <2>5, <2>6, BecomeKeepsInv
<1>6. size # 1 => start_segmented_response(n, f, size)
  BY DEF handler_returns_data
<1>. QED  BY <1>3, <1>4, <1>5, <1>6 DEF start_segmented_response

LEMMA SegmentAckStep ==
  ASSUME IInv, NEW k, NEW seq, NEW aws \in PeerWindows,
         handle_segment_ack_for_response(k, seq, aws)
  PROVE  IInv'
<1>. DEFINE n   == table[k]
            t   == obj[n]
            snd == sender_handle_segment_ack(t.sender, seq, aws)
            o   == [t EXCEPT !.sender = snd, !.seg_retry_count = 0]
            w   == [o EXCEPT !.timer = "segment"]
            c   == [o EXCEPT !.state = "IDLE", !.sender = NoSender, !.timer = "request"]
<1>1. /\ n \in DOMAIN obj /\ Good(t) /\ IsObj(t) /\ InForce(t) /\ t.key = k
      /\ t.state = "SEGMENTED_RESPONSE"
  BY EntryFact DEF handle_segment_ack_for_response
<1>2. /\ t.task = "done" /\ t.sender \in SenderType
      /\ t.cached # <<>> /\ t.cached[1].data = t.data
  BY <1>1 DEF Good, IsObj, InForce
<1>3. CASE aws \notin 1 .. MaxWindow
  <2>1. abort_server_transaction(n, t)
    BY <1>3 DEF handle_segment_ack_for_response
  <2>. HIDE DEF n
  <2>. QED  BY <1>1, <1>2, <2>1, AbortKeepsInv
<1>4. CASE aws \in 1 .. MaxWindow
  <2>1. aws \in Nat /\ aws > 0 /\ 0 \in 0 .. Retries
    BY <1>4, ServerAssumption
  <2>2. snd \in SenderType /\ snd.aws = aws
    BY <1>2, <2>1, SenderAckFact
  <2>3. o = [t EXCEPT !.sender = snd, !.seg_retry_count = 0] /\ o.sender = snd
    BY <1>1 DEF IsObj
  <2>4. \/ ~sender_complete(o.sender) /\ fill_and_send_response_window(n, o)
        \/ sender_complete(o.sender) /\ Become(n, c, <<>>)
    BY <1>4 DEF handle_segment_ack_for_response
  <2>. HIDE DEF snd, t
  <2>5. /\ IsObj(o) /\ o.key = t.key /\ o.data = t.data /\ o.task = "done"
        /\ o.state = "SEGMENTED_RESPONSE" /\ o.cached = t.cached /\ o.sender = snd
    BY <1>1, <1>2, <2>1, <2>2 DEF IsObj
  <2>. HIDE DEF o
  <2>6. CASE ~sender_complete(o.sender) /\ fill_and_send_response_window(n, o)
    <3>1. snd.win < snd.total /\ snd.aws > 0
      BY <2>1, <2>2, <2>5, <2>6 DEF sender_complete, SenderType
    <3>2. Become(n, w, ResponseWindow(o))
      BY <2>6 DEF fill_and_send_response_window
    <3>3. /\ IsObj(w) /\ w.key = t.key /\ w.data = t.data /\ w.task = "done"
          /\ w.state = "SEGMENTED_RESPONSE" /\ w.cached = t.cached /\ w.sender = snd
          /\ w.timer = "segment"
      BY <2>5 DEF IsObj
    <3>. HIDE DEF w
    <3>4. Good(w) /\ InForce(w)
      BY <1>2, <3>1, <3>3 DEF Good, InForce
    <3>. QED  BY <1>1, <3>2, <3>3, <3>4, BecomeKeepsInv DEF t
  <2>7. CASE sender_complete(o.sender) /\ Become(n, c, <<>>)
    <3>1. NoSender \in SenderType
      BY DEF NoSender, SenderType
    <3>2. /\ IsObj(c) /\ c.key = t.key /\ c.data = t.data /\ c.task = "done"
          /\ c.state = "IDLE" /\ c.cached = t.cached /\ c.timer = "request"
      BY <2>5, <3>1 DEF IsObj, States
    <3>. HIDE DEF c
    <3>3. Good(c) /\ InForce(c)
      BY <1>2, <3>2 DEF Good, InForce
    <3>. QED  BY <1>1, <2>7, <3>2, <3>3, BecomeKeepsInv DEF t
  <2>. QED  BY <2>4, <2>6, <2>7
<1>. QED  BY <1>3, <1>4

-----------------------------------------------------------------------------
(* Timers.                                                                 *)

\* A timer that has fired is no longer armed; nothing else of its object changes.
LEMMA SpentFact ==
  ASSUME IInv, NEW n \in DOMAIN obj
  PROVE  /\ DOMAIN Spent(n) = DOMAIN obj
         /\ \A m \in DOMAIN obj : m # n => Spent(n)[m] = obj[m]
         /\ \A m \in DOMAIN obj : Good(Spent(n)[m]) /\ Spent(n)[m].key = obj[m].key
         /\ Spent(n)[n].timer = "none"
         /\ Spent(n)[n].task = obj[n].task /\ Spent(n)[n].state = obj[n].state
         /\ Spent(n)[n].data = obj[n].data /\ Spent(n)[n].cached = obj[n].cached
         /\ Spent(n)[n].sender = obj[n].sender /\ Spent(n)[n].receiver = obj[n].receiver
<1>. DEFINE s == [obj[n] EXCEPT !.timer = "none"]
<1>1. Good(obj[n]) /\ IsObj(obj[n])
  BY ObjectFact
<1>2. /\ IsObj(s) /\ s.timer = "none" /\ s.key = obj[n].key /\ s.task = obj[n].task
      /\ s.state = obj[n].state /\ s.data = obj[n].data /\ s.cached = obj[n].cached
      /\ s.sender = obj[n].sender /\ s.receiver = obj[n].receiver
  BY <1>1 DEF IsObj
<1>3. Spent(n) = [obj EXCEPT ![n] = s]
  BY DEF Spent
<1>. HIDE DEF s
<1>4. Good(s)
  BY <1>1, <1>2 DEF Good
<1>. QED  BY <1>2, <1>3, <1>4, ObjectFact

\* A timer whose object is not in the table has no effect but to be spent.
LEMMA StrayTimer ==
  ASSUME IInv, NEW n \in DOMAIN obj, ~InTable(n), NEW pdus, Commit(Spent(n), table, pdus)
  PROVE  IInv'
<1>. DEFINE objs == Spent(n)
<1>1. /\ DOMAIN objs = DOMAIN obj
      /\ \A m \in DOMAIN obj : m # n => objs[m] = obj[m]
      /\ \A m \in DOMAIN obj : Good(objs[m]) /\ objs[m].key = obj[m].key
  BY SpentFact
<1>. HIDE DEF objs
<1>2. \A k \in DOMAIN table :
        table[k] \in DOMAIN objs /\ objs[table[k]].key = k /\ InForce(objs[table[k]])
  BY <1>1, EntryFact DEF InTable
<1>3. \A m \in DOMAIN objs : objs[m].key \notin late => Leads(objs, table, m)
  BY <1>1 DEF IInv, Consistent, Leads
<1>4. Reachable(objs, table) \subseteq DOMAIN objs
  BY DEF Reachable
<1>5. Consistent(objs, table, late)
  BY <1>1, <1>2, <1>3, <1>4 DEF Consistent, IInv
<1>. QED  BY <1>5, CommitFact DEF IInv, objs

\* _on_timeout() finds no entry: the timer is spent.
LEMMA StrayTimeoutStep ==
  ASSUME IInv, NEW n \in DOMAIN obj, obj[n].key \notin DOMAIN table,
         Commit(Spent(n), table, <<>>)
  PROVE  IInv'
<1>. QED  BY StrayTimer DEF InTable

\* _on_timeout(): the entry leaves the table, and the object goes with it
\* unless its handler is at work.
LEMMA TimeoutStep ==
  ASSUME IInv, NEW n, on_timeout(n)
  PROVE  IInv'
<1>. DEFINE k == obj[n].key
            found == table[k]
            cleared == [Spent(n)[found] EXCEPT !.cached = <<>>]
            objs == [Spent(n) EXCEPT ![found] = cleared]
            outlived == IF AtWork(obj[found]) THEN {k} ELSE {}
<1>1. n \in DOMAIN obj
  BY DEF on_timeout
<1>2. /\ DOMAIN Spent(n) = DOMAIN obj
      /\ \A m \in DOMAIN obj : m # n => Spent(n)[m] = obj[m]
      /\ \A m \in DOMAIN obj : Good(Spent(n)[m]) /\ Spent(n)[m].key = obj[m].key
      /\ Spent(n)[n].timer = "none" /\ Spent(n)[n].task = obj[n].task
  BY <1>1, SpentFact
<1>3. CASE k \notin DOMAIN table /\ Commit(Spent(n), table, <<>>)
  BY <1>1, <1>3, StrayTimeoutStep
<1>4. CASE k \in DOMAIN table /\ Settle(objs, Without(k), outlived, <<>>)
  <2>1. found \in DOMAIN obj /\ obj[found].key = k
    BY <1>4, EntryFact
  <2>2. /\ IsObj(cleared) /\ cleared.timer = Spent(n)[found].timer
        /\ cleared.key = k /\ cleared.task = Spent(n)[found].task
        /\ cleared.state = Spent(n)[found].state
        /\ cleared.sender = Spent(n)[found].sender
        /\ cleared.receiver = Spent(n)[found].receiver
    <3>1. IsObj(Spent(n)[found]) /\ Spent(n)[found].key = k
      BY <1>2, <2>1 DEF Good
    <3>. DEFINE x == Spent(n)[found]
    <3>. HIDE DEF x, k, found
    <3>. QED  BY <3>1 DEF IsObj, x
  <2>. HIDE DEF cleared
  <2>3. Good(cleared)
    BY <1>2, <2>1, <2>2 DEF Good
  <2>4. /\ DOMAIN objs = DOMAIN obj /\ objs[found] = cleared
        /\ \A m \in DOMAIN obj : m # found => objs[m] = Spent(n)[m]
    BY <1>2, <2>1
  <2>5. Settle(objs, Without(k), outlived, <<>>)
    BY <1>4
  <2>. HIDE DEF objs
  <2>6. /\ \A m \in DOMAIN obj : Good(objs[m])
        /\ \A m \in DOMAIN obj : objs[m].key = obj[m].key
        /\ \A m \in DOMAIN obj : obj[m].key # k => objs[m] = obj[m]
        /\ objs[n].timer = "none" /\ objs[n].task = obj[n].task
    BY <1>1, <1>2, <2>1, <2>2, <2>3, <2>4
  <2>7. k \in Keys /\ late \subseteq Keys
    BY <1>4 DEF IInv, Consistent
  <2>8. k \notin late \cup outlived =>
          \A m \in DOMAIN obj : Leads(obj, table, m) /\ obj[m].key = k => Quiet(objs[m])
    <3>. SUFFICES ASSUME k \notin late, ~AtWork(obj[found])
                  PROVE  \A m \in DOMAIN obj :
                           Leads(obj, table, m) /\ obj[m].key = k => Quiet(objs[m])
      OBVIOUS
    <3>1. Leads(obj, table, n) /\ n = found
      BY <1>1 DEF IInv, Consistent, Leads
    <3>2. Quiet(objs[n])
      BY <2>6, <3>1 DEF Quiet, AtWork
    <3>. QED  BY <3>1, <3>2 DEF Leads
  <2>9. Consistent(objs, Without(k), late \cup outlived)
    BY <2>4, <2>6, <2>7, <2>8, RemovedFact
  <2>. QED  BY <2>5, <2>9, SettleFact DEF IInv
<1>. QED  BY <1>1, <1>3, <1>4, Zenon DEF on_timeout

LEMMA RetryStep ==
  ASSUME IInv, NEW n \in DOMAIN obj, obj[n].timer = "segment",
         obj[n].key \in DOMAIN table, RetrySegment(n, table[obj[n].key])
  PROVE  IInv'
<1>. DEFINE k == obj[n].key
            m == table[k]
            o == Spent(n)[m]
            r == [o EXCEPT !.seg_retry_count = @ + 1, !.timer = "segment"]
            a == Aborted(o)
            Segmented == {"SEGMENTED_REQUEST", "SEGMENTED_RESPONSE"}
<1>1. m \in DOMAIN obj /\ obj[m].key = k /\ InForce(obj[m]) /\ IsObj(obj[m])
  BY EntryFact
<1>2. /\ DOMAIN Spent(n) = DOMAIN obj
      /\ \A x \in DOMAIN obj : x # n => Spent(n)[x] = obj[x]
      /\ \A x \in DOMAIN obj : Good(Spent(n)[x]) /\ Spent(n)[x].key = obj[x].key
      /\ Spent(n)[n].timer = "none" /\ Spent(n)[n].task = obj[n].task
      /\ Spent(n)[n].state = obj[n].state /\ Spent(n)[n].data = obj[n].data
      /\ Spent(n)[n].cached = obj[n].cached
  BY SpentFact
<1>3. /\ Good(o) /\ IsObj(o) /\ o.key = k /\ o.state = obj[m].state
      /\ o.data = obj[m].data /\ o.cached = obj[m].cached
  BY <1>1, <1>2 DEF Good
<1>4. \/ o.state \notin Segmented /\ \E pdus : Commit(Spent(n), table, pdus)
      \/ /\ o.state \in Segmented /\ o.seg_retry_count < Retries
         /\ \E pdus : Commit([Spent(n) EXCEPT ![m] = r], table, pdus)
      \/ /\ o.state \in Segmented
         /\ \E pdus : Commit([Spent(n) EXCEPT ![m] = a], Without(o.key), pdus)
  BY Zenon DEF RetrySegment
<1>5. CASE o.state \notin Segmented /\ \E pdus : Commit(Spent(n), table, pdus)
  <2>1. ~InTable(n)
    BY <1>1, <1>3, <1>5 DEF InTable, InForce
  <2>. QED  BY <1>5, <2>1, StrayTimer
<1>6. CASE /\ o.state \in Segmented /\ o.seg_retry_count < Retries
           /\ \E pdus : Commit([Spent(n) EXCEPT ![m] = r], table, pdus)
  <2>. DEFINE objs == [Spent(n) EXCEPT ![m] = r]
  <2>1. /\ IsObj(r) /\ r.key = k /\ r.state = o.state /\ r.timer = "segment"
        /\ r.data = o.data /\ r.cached = o.cached /\ r.task = o.task
        /\ r.sender = o.sender /\ r.receiver = o.receiver
    <3>. HIDE DEF o, k
    <3>1. Retries \in Nat /\ o.seg_retry_count + 1 \in 0 .. Retries
      BY <1>3, <1>6, ServerAssumption DEF IsObj
    <3>. QED  BY <1>3, <3>1 DEF IsObj
  <2>. HIDE DEF r
  <2>2. Good(r) /\ InForce(r)
    BY <1>1, <1>3, <1>6, <2>1 DEF Good, InForce
  <2>3. /\ DOMAIN objs = DOMAIN obj /\ objs[m] = r
        /\ \A x \in DOMAIN obj : x # m => objs[x] = Spent(n)[x]
    BY <1>1, <1>2
  <2>4. PICK pdus : Commit(objs, table, pdus)
    BY <1>6
  <2>. HIDE DEF objs
  <2>5. \A j \in DOMAIN table :
          table[j] \in DOMAIN objs /\ objs[table[j]].key = j /\ InForce(objs[table[j]])
    <3>. TAKE j \in DOMAIN table
    <3>1. table[j] \in DOMAIN obj /\ obj[table[j]].key = j /\ InForce(obj[table[j]])
      BY EntryFact
    <3>2. CASE j = k
      BY <1>1, <2>1, <2>2, <2>3, <3>2
    <3>3. CASE j # k
      BY <1>1, <1>2, <2>3, <3>1, <3>3
    <3>. QED  BY <3>2, <3>3
  <2>6. \A x \in DOMAIN obj : Good(objs[x]) /\ objs[x].key = obj[x].key
    BY <1>1, <1>2, <2>1, <2>2, <2>3
  <2>7. \A x \in DOMAIN objs : objs[x].key \notin late => Leads(objs, table, x)
    BY <2>3, <2>6 DEF IInv, Consistent, Leads
  <2>8. Reachable(objs, table) \subseteq DOMAIN objs
    BY DEF Reachable
  <2>9. Consistent(objs, table, late)
    BY <2>3, <2>5, <2>6, <2>7, <2>8 DEF Consistent, IInv
  <2>. QED  BY <2>4, <2>9, CommitFact DEF IInv
<1>7. CASE /\ o.state \in Segmented
           /\ \E pdus : Commit([Spent(n) EXCEPT ![m] = a], Without(o.key), pdus)
  <2>. DEFINE objs == [Spent(n) EXCEPT ![m] = a]
  <2>1. Quiet(a) /\ a.key = k
    <3>. HIDE DEF o, k
    <3>. QED  BY <1>3, <1>7 DEF Good, IsObj, Aborted, Quiet, AtWork
  <2>. HIDE DEF a
  <2>2. /\ DOMAIN objs = DOMAIN obj /\ objs[m] = a
        /\ \A x \in DOMAIN obj : x # m => objs[x] = Spent(n)[x]
    BY <1>1, <1>2
  <2>3. PICK pdus : Commit(objs, Without(k), pdus)
    BY <1>3, <1>7
  <2>. HIDE DEF objs
  <2>4. /\ \A x \in DOMAIN obj : objs[x].key = obj[x].key
        /\ \A x \in DOMAIN obj : obj[x].key # k => objs[x] = obj[x]
        /\ \A x \in DOMAIN obj : Good(objs[x]) \/ Quiet(objs[x])
    BY <1>1, <1>2, <2>1, <2>2
  <2>5. \A x \in DOMAIN obj : Leads(obj, table, x) /\ obj[x].key = k => Quiet(objs[x])
    BY <2>1, <2>2 DEF Leads
  <2>6. Consistent(objs, Without(k), late)
    BY <2>2, <2>4, <2>5, RemovedFact DEF IInv, Consistent
  <2>. QED  BY <2>3, <2>6, CommitFact DEF IInv
<1>. QED  BY <1>4, <1>5, <1>6, <1>7

LEMMA SegmentTimeoutStep ==
  ASSUME IInv, NEW n, on_server_segment_timeout(n)
  PROVE  IInv'
<1>1. n \in DOMAIN obj /\ obj[n].timer = "segment"
  BY DEF on_server_segment_timeout
<1>2. CASE obj[n].key \in DOMAIN table
  BY <1>1, <1>2, RetryStep DEF on_server_segment_timeout
<1>3. CASE obj[n].key \notin DOMAIN table
  BY <1>1, <1>3, StrayTimer DEF on_server_segment_timeout, InTable
<1>. QED  BY <1>2, <1>3

-----------------------------------------------------------------------------
(* The invariant of the specification.                                     *)

LEMMA InitFact == Init => IInv
<1>. SUFFICES ASSUME Init PROVE IInv
  OBVIOUS
<1>1. DOMAIN table = {} /\ DOMAIN obj = {} /\ dcc = "ENABLE" /\ late = {}
  BY DEF Init
<1>2. Reachable(obj, table) = {}
  BY <1>1 DEF Reachable
<1>. QED  BY <1>1, <1>2 DEF IInv, Consistent

LEMMA ReceiveStep ==
  ASSUME IInv, NEW k \in Keys, Receive(k)
  PROVE  IInv'
<1>1. ASSUME NEW d \in Requests, NEW a \in PeerAccepts, NEW ms \in PeerMaxSegments,
             receive_confirmed_request(k, d, a, ms)
      PROVE  IInv'
  BY <1>1, RequestStep, PayloadFact
<1>2. ASSUME NEW seq \in 0 .. (SeqSpace - 1), NEW d \in RequestSlices, NEW more \in BOOLEAN,
             NEW pws \in PeerWindows, NEW a \in PeerAccepts, NEW ms \in PeerMaxSegments,
             receive_request_segment(k, seq, d, more, pws, a, ms)
      PROVE  IInv'
  BY <1>2, RequestSegmentStep
<1>3. ASSUME NEW seq \in 0 .. (SeqSpace - 1), NEW aws \in PeerWindows,
             handle_segment_ack_for_response(k, seq, aws)
      PROVE  IInv'
  BY <1>3, SegmentAckStep
<1>. QED  BY <1>1, <1>2, <1>3 DEF Receive

LEMMA NextFact == IInv /\ [Next]_vars => IInv'
<1>. SUFFICES ASSUME IInv, [Next]_vars PROVE IInv'
  OBVIOUS
<1>1. CASE \E k \in Keys : Receive(k)
  BY <1>1, ReceiveStep
<1>2. CASE \E n \in 1 .. MaxTransactions : dispatch_request(n)
  BY <1>2, DispatchStep
<1>3. CASE \E n \in 1 .. MaxTransactions,
             kind \in {"SimpleAck", "Error", "Reject", "Abort"} : handler_returns(n, kind)
  BY <1>3, HandlerReturnsStep
<1>4. CASE \E n \in 1 .. MaxTransactions, size \in ResponseSizes :
             handler_returns_data(n, size)
  BY <1>4, HandlerReturnsDataStep
<1>5. CASE \E n \in 1 .. MaxTransactions : on_timeout(n)
  BY <1>5, TimeoutStep
<1>6. CASE \E n \in 1 .. MaxTransactions : on_server_segment_timeout(n)
  BY <1>6, SegmentTimeoutStep
<1>7. CASE \E s \in DccStates : set_dcc_state(s)
  BY <1>7 DEF set_dcc_state, IInv, Consistent, Reachable, Leads
<1>8. CASE UNCHANGED vars
  BY <1>8 DEF vars, IInv, Consistent, Reachable, Leads
<1>. QED  BY <1>1, <1>2, <1>3, <1>4, <1>5, <1>6, <1>7, <1>8 DEF Next

LEMMA Invariance == Spec => []IInv
<1>. QED  BY InitFact, NextFact, PTL DEF Spec

-----------------------------------------------------------------------------
(* The theorems.                                                           *)

\* Every entry of the table of server transactions is well formed, has a
\* timer armed or a handler still at work, save a reassembled request that
\* was dropped, and a segment timeout finds work to do: even if handlers
\* outlive their request timer.
THEOREM EntriesProgressTheorem == Spec => []EntriesProgress
<1>1. IInv => EntriesProgress
  <2>. SUFFICES ASSUME IInv PROVE EntriesProgress
    OBVIOUS
  <2>1. TypeOK
    BY EntryFact, ObjectFact DEF TypeOK, IInv, Consistent
  <2>2. TableEntryExpires
    BY EntryFact DEF TableEntryExpires, Good, InForce, AtWork
  <2>3. SegmentPhases
    BY EntryFact, ObjectFact DEF SegmentPhases, InTable, Good, InForce
  <2>. QED  BY <2>1, <2>2, <2>3 DEF EntriesProgress
<1>. QED  BY <1>1, Invariance, PTL

\* An answered transaction has the response to its own request at hand as
\* long as it is in the table, even if handlers outlive their request timer.
THEOREM AnsweredMeansCachedTheorem == Spec => []AnsweredMeansCached
<1>1. IInv => AnsweredMeansCached
  BY ObjectFact DEF AnsweredMeansCached, InTable, Good, InForce
<1>. QED  BY <1>1, Invariance, PTL

\* No timer outlives its entry but one that the answer of a handler arms which
\* had outlived its request_timeout: otherwise an entry is only ever removed or
\* retried by its own timer; and a retransmitted request is answered from it
\* with its own response.
THEOREM EntriesAnswerTheirRequestTheorem == Spec => []EntriesAnswerTheirRequest
<1>1. IInv => TimersOwnTheirEntry
  BY DEF IInv, Consistent, Leads, TimersOwnTheirEntry, InTable
<1>2. IInv => AnsweredMeansCached
  BY ObjectFact DEF AnsweredMeansCached, InTable, Good, InForce
<1>3. IInv => EntriesAnswerTheirRequest
  BY <1>1, <1>2 DEF EntriesAnswerTheirRequest
<1>. QED  BY <1>3, Invariance, PTL

\* Two handlers work on requests of the same client and invoke ID at the same
\* time only if request_timeout has run out on a handler of theirs; whatever
\* else arrives or expires, a retransmission finds its transaction.
THEOREM OneHandlerPerKeyTheorem == Spec => []OneHandlerPerKey
<1>1. IInv => OneHandlerPerKey
  BY DEF IInv, Consistent, Leads, OneHandlerPerKey
<1>. QED  BY <1>1, Invariance, PTL
=============================================================================
