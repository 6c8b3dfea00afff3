------------------------------ MODULE ServerTSM ------------------------------
(***************************************************************************)
(* The server transaction state machine of app/tsm.py (class ServerTSM)    *)
(* together with the part of app/application.py that drives it: the        *)
(* dispatch of a confirmed request to its handler, the response, and the   *)
(* DeviceCommunicationControl state that gates the dispatch.               *)
(*                                                                         *)
(* A ServerTransaction is an object with an identity of its own: a handler *)
(* that is still running, and a timer, hold on to it after it has left the *)
(* table.  Timer callbacks however look the transaction up by its key, so  *)
(* they may find a younger object there.  An object that nothing refers to *)
(* any more is gone.  Clients are unconstrained.                           *)
(***************************************************************************)
EXTENDS Segmentation, Functions

CONSTANTS
  Peers,           \* addresses requests come from
  IdSpace,         \* number of invoke IDs (256 in the code)
  Retries,         \* apdu_retries
  OurWindow,       \* proposed_window_size of this device
  MaxWindow,       \* largest legal window size in a SegmentACK (127 in the code)
  Requests,        \* payloads of the unsegmented requests: sequences of slices
  AllowedRequests, \* those for DeviceCommunicationControl, ReinitializeDevice
  RequestSlices,   \* what a segment of a request may carry
  PeerWindows,     \* window sizes found in the PDUs of the clients
  PeerMaxSegments, \* max-segments-accepted values found in requests
  PeerAccepts,     \* segmented-response-accepted values found in requests
  ResponseSizes,   \* sizes of ComplexACK data, in slices
  DccStates,       \* states set_dcc_state() is called with
  MaxTransactions  \* bound: number of transactions at a time

ASSUME ServerAssumption ==
  /\ IdSpace \in Nat \ {0}
  /\ Retries \in Nat
  /\ OurWindow \in Nat \ {0}
  /\ MaxWindow \in Nat \ {0}
  /\ \A p \in Requests : p \in Seq({ p[i] : i \in DOMAIN p })
  /\ AllowedRequests \subseteq Requests
  /\ PeerWindows \subseteq Nat
  /\ PeerMaxSegments \subseteq Nat
  /\ PeerAccepts \subseteq BOOLEAN
  /\ ResponseSizes \subseteq Nat \ {0}
  /\ DccStates \subseteq {"ENABLE", "DISABLE", "DISABLE_INITIATION"}
  /\ MaxTransactions \in Nat

VARIABLES
  table,  \* _transactions: (source, invoke_id) -> index of the object
  obj,    \* the ServerTransaction objects, by their identity
  dcc,    \* _dcc_state
  late,   \* keys with a handler at work when its request_timeout ran out
  sent    \* the PDUs handed to network.send() by the last step

vars == <<table, obj, dcc, late, sent>>

Keys   == Peers \X (0 .. (IdSpace - 1))
States == {"IDLE", "SEGMENTED_REQUEST", "AWAIT_RESPONSE", "SEGMENTED_RESPONSE"}

-----------------------------------------------------------------------------
(* PDUs this side sends.  The response to the request payload p carries p: *)
(* slice i of the data of a ComplexACK is <<p, i>>.                        *)

Response(o, kind) ==
  [pdu |-> kind, peer |-> o.key[1], id |-> o.key[2], data |-> o.data]

ComplexAck(o, size) ==
  [pdu |-> "ComplexAck", peer |-> o.key[1], id |-> o.key[2], data |-> o.data,
   size |-> size]

ResponseSegment(o, idx) ==
  [pdu |-> "ResponseSegment", peer |-> o.key[1], id |-> o.key[2],
   seq |-> idx % SeqSpace, slice |-> <<o.data, idx>>,
   more |-> idx < o.sender.total - 1, pws |-> o.sender.pws]

ResponseWindow(o) ==
  [j \in 1 .. (WindowEnd(o.sender) - o.sender.win) |->
     ResponseSegment(o, o.sender.win + j - 1)]

ServerSegmentAck(o, seq, negative) ==
  [pdu |-> "ServerSegmentAck", peer |-> o.key[1], id |-> o.key[2],
   seq |-> seq, negative |-> negative, aws |-> o.receiver.aws]

-----------------------------------------------------------------------------
(* Effects shared by the handlers.                                         *)

AtWork(o) == o.task \in {"queued", "running"}

\* What the table, an armed timer or a task still refers to.
Reachable(objs, tbl) ==
  { n \in DOMAIN objs :
      \/ \E k \in DOMAIN tbl : tbl[k] = n
      \/ objs[n].timer # "none"
      \/ AtWork(objs[n]) }

\* A key stays late until its last object is gone.
Settle(objs, tbl, outlived, pdus) ==
  /\ table' = tbl
  /\ obj' = Restrict(objs, Reachable(objs, tbl))
  /\ late' = { k \in late \cup outlived : \E n \in DOMAIN obj' : obj'[n].key = k }
  /\ sent' = pdus
  /\ UNCHANGED dcc

Commit(objs, tbl, pdus) == Settle(objs, tbl, {}, pdus)

Become(n, o, pdus) == Commit([obj EXCEPT ![n] = o], table, pdus)

Without(k) == Restrict(table, DOMAIN table \ {k})

\* Mutant of Aborted: the timer stays armed.
AbortedWithoutCancel(o) == [o EXCEPT !.cached = <<>>]

\* _abort_server_transaction(): whatever object the key leads to is removed.
Aborted(o) == [o EXCEPT !.timer = "none", !.cached = <<>>]

abort_server_transaction(n, o) ==
  Commit([obj EXCEPT ![n] = Aborted(o)], Without(o.key), <<Response(o, "Abort")>>)

fill_and_send_response_window(n, o) ==
  Become(n, [o EXCEPT !.timer = "segment"], ResponseWindow(o))

-----------------------------------------------------------------------------
(* Requests.                                                               *)

NewTxn(k, data, accepts, max_segments) ==
  [key |-> k, data |-> data, state |-> "AWAIT_RESPONSE", cached |-> <<>>,
   timer |-> "request", task |-> "none", seg_retry_count |-> 0,
   sender |-> NoSender, receiver |-> NoReceiver,
   accepts |-> accepts, max_segments |-> max_segments]

Create(k, o, pdus) ==
  /\ k \notin DOMAIN table
  /\ \E n \in (1 .. MaxTransactions) \ DOMAIN obj :
       /\ \A m \in 1 .. (n - 1) : m \in DOMAIN obj
       /\ Commit([m \in DOMAIN obj \cup {n} |-> IF m = n THEN o ELSE obj[m]],
                 [x \in DOMAIN table \cup {k} |-> IF x = k THEN n ELSE table[x]],
                 pdus)

\* _dispatch_request() up to the first await: DISABLE lets only
\* DeviceCommunicationControl and ReinitializeDevice through.
Dispatched(o) ==
  [o EXCEPT !.task = IF dcc = "DISABLE" /\ o.data \notin AllowedRequests
                     THEN "dropped" ELSE "running"]

\* A request, or a segment, for a transaction that is already past its
\* request phase: the cached response is sent again if there is one.
duplicate_request(k) ==
  /\ k \in DOMAIN table
  /\ LET o == obj[table[k]]
     IN  /\ o.state # "SEGMENTED_REQUEST"
         /\ Commit(obj, table, o.cached)

receive_confirmed_request(k, data, accepts, max_segments) ==
  \/ Create(k, Dispatched(NewTxn(k, data, accepts, max_segments)), <<>>)
  \/ duplicate_request(k)

\* The first segment to arrive for a key, whatever its sequence number.
first_request_segment(k, slice, more, pws, accepts, max_segments) ==
  LET o == [NewTxn(k, <<>>, accepts, max_segments) EXCEPT
              !.state = "SEGMENTED_REQUEST",
              !.receiver = ReceiverCreate(slice, IF pws = 0 THEN 1 ELSE pws,
                                          more, OurWindow)]
      single == [o EXCEPT !.state = "AWAIT_RESPONSE", !.task = "queued",
                          !.data = reassemble(o.receiver)]
      ack == <<ServerSegmentAck(o, 0, FALSE)>>
  IN  Create(k, IF more THEN [o EXCEPT !.timer = "segment"] ELSE single, ack)

\* Mutant of handle_request_segment: the state is not checked.
handle_request_segment_any(k, seq, slice, more) ==
  /\ k \in DOMAIN table
  /\ LET n   == table[k]
         res == receive_segment(obj[n].receiver, seq, slice, more)
         o   == [obj[n] EXCEPT !.receiver = res.rcv, !.timer = "segment"]
         ack == <<ServerSegmentAck(o, res.ack, FALSE)>>
     IN  CASE res.action = "COMPLETE" ->
                Become(n, [o EXCEPT !.timer = "none",
                                    !.state = "AWAIT_RESPONSE",
                                    !.task = "queued",
                                    !.data = reassemble(res.rcv)], ack)
           [] res.action \in {"SEND_ACK", "RESEND_LAST_ACK"} ->
                Become(n, o, ack)
           [] res.action = "CONTINUE" ->
                Become(n, o, <<>>)
           [] res.action = "ABORT" ->
                abort_server_transaction(n, o)

handle_request_segment(k, seq, slice, more) ==
  /\ k \in DOMAIN table
  /\ LET n   == table[k]
         res == receive_segment(obj[n].receiver, seq, slice, more)
         o   == [obj[n] EXCEPT !.receiver = res.rcv, !.timer = "segment"]
         ack == <<ServerSegmentAck(o, res.ack, FALSE)>>
     IN  /\ obj[n].state = "SEGMENTED_REQUEST"
         /\ CASE res.action = "COMPLETE" ->
                   Become(n, [o EXCEPT !.timer = "none",
                                       !.state = "AWAIT_RESPONSE",
                                       !.task = "queued",
                                       !.data = reassemble(res.rcv)], ack)
              [] res.action \in {"SEND_ACK", "RESEND_LAST_ACK"} ->
                   Become(n, o, ack)
              [] res.action = "CONTINUE" ->
                   Become(n, o, <<>>)
              [] res.action = "ABORT" ->
                   abort_server_transaction(n, o)

receive_request_segment(k, seq, slice, more, pws, accepts, max_segments) ==
  \/ first_request_segment(k, slice, more, pws, accepts, max_segments)
  \/ handle_request_segment(k, seq, slice, more)
  \/ duplicate_request(k)

-----------------------------------------------------------------------------
(* The handler task of a transaction and its response.                     *)

\* The task spawned for a reassembled request starts.
dispatch_request(n) ==
  /\ n \in DOMAIN obj
  /\ obj[n].task = "queued"
  /\ Become(n, Dispatched(obj[n]), <<>>)

\* Mutant of complete_transaction: the entry gets no timer.
complete_without_timer(n, o, response) ==
  Become(n, [o EXCEPT !.cached = <<response>>, !.state = "IDLE",
                      !.timer = "none"], <<response>>)

\* Mutant of complete_transaction: the response is cached but not sent.
complete_without_sending(n, o, response) ==
  Become(n, [o EXCEPT !.cached = <<response>>, !.state = "IDLE",
                      !.timer = "request"], <<>>)

complete_transaction(n, o, response) ==
  Become(n, [o EXCEPT !.cached = <<response>>, !.state = "IDLE",
                      !.timer = "request"], <<response>>)

start_segmented_response(n, o, size) ==
  \/ /\ ~o.accepts \/ size > o.max_segments
     /\ abort_server_transaction(n, o)
  \/ /\ o.accepts /\ size <= o.max_segments
     /\ fill_and_send_response_window(n,
          [o EXCEPT !.sender = SenderCreate(size, OurWindow),
                    !.state = "SEGMENTED_RESPONSE",
                    !.cached = <<ComplexAck(o, size)>>])

Finished(n) == [obj[n] EXCEPT !.task = "done"]

\* The handler returns None (SimpleACK) or raises (Error, Reject, Abort).
handler_returns(n, kind) ==
  /\ n \in DOMAIN obj
  /\ obj[n].task = "running"
  /\ complete_transaction(n, Finished(n), Response(obj[n], kind))

\* The handler returns data for a ComplexACK.
handler_returns_data(n, size) ==
  /\ n \in DOMAIN obj
  /\ obj[n].task = "running"
  /\ IF size = 1
     THEN complete_transaction(n, Finished(n), ComplexAck(obj[n], 1))
     ELSE start_segmented_response(n, Finished(n), size)

handle_segment_ack_for_response(k, seq, aws) ==
  /\ k \in DOMAIN table
  /\ LET n == table[k]
         o == [obj[n] EXCEPT
                 !.sender = sender_handle_segment_ack(obj[n].sender, seq, aws),
                 !.seg_retry_count = 0]
     IN  /\ obj[n].state = "SEGMENTED_RESPONSE"
         /\ \/ aws \notin 1 .. MaxWindow /\ abort_server_transaction(n, obj[n])
            \/ /\ aws \in 1 .. MaxWindow
               /\ ~sender_complete(o.sender)
               /\ fill_and_send_response_window(n, o)
            \/ /\ aws \in 1 .. MaxWindow
               /\ sender_complete(o.sender)
               /\ Become(n, [o EXCEPT !.state = "IDLE", !.sender = NoSender,
                                      !.timer = "request"], <<>>)

-----------------------------------------------------------------------------
(* Timers.                                                                 *)

Spent(n) == [obj EXCEPT ![n].timer = "none"]

\* _on_timeout(): the object found under the key leaves the table, even if
\* its handler is still at work.
on_timeout(n) ==
  /\ n \in DOMAIN obj
  /\ obj[n].timer = "request"
  /\ LET k == obj[n].key IN
     \/ /\ k \notin DOMAIN table
        /\ Commit(Spent(n), table, <<>>)
     \/ /\ k \in DOMAIN table
        /\ Settle([Spent(n) EXCEPT ![table[k]].cached = <<>>], Without(k),
                  IF AtWork(obj[table[k]]) THEN {k} ELSE {}, <<>>)

\* The segment timer of object n fires and finds object m under the key.
RetrySegment(n, m) ==
  LET o == Spent(n)[m]
      r == [o EXCEPT !.seg_retry_count = @ + 1, !.timer = "segment"]
  IN  CASE o.state \notin {"SEGMENTED_REQUEST", "SEGMENTED_RESPONSE"} ->
             Commit(Spent(n), table, <<>>)
        [] o.state = "SEGMENTED_REQUEST" /\ o.seg_retry_count < Retries ->
             Commit([Spent(n) EXCEPT ![m] = r], table,
                    <<ServerSegmentAck(r, r.receiver.last_ack, TRUE)>>)
        [] o.state = "SEGMENTED_RESPONSE" /\ o.seg_retry_count < Retries ->
             Commit([Spent(n) EXCEPT ![m] = r], table, ResponseWindow(r))
        [] OTHER ->
             Commit([Spent(n) EXCEPT ![m] = Aborted(o)], Without(o.key),
                    <<Response(o, "Abort")>>)

on_server_segment_timeout(n) ==
  /\ n \in DOMAIN obj
  /\ obj[n].timer = "segment"
  /\ IF obj[n].key \in DOMAIN table
     THEN RetrySegment(n, table[obj[n].key])
     ELSE Commit(Spent(n), table, <<>>)

\* set_dcc_state(), or the expiry of its timer.
set_dcc_state(s) ==
  /\ s # dcc
  /\ dcc' = s
  /\ sent' = <<>>
  /\ UNCHANGED <<table, obj, late>>

-----------------------------------------------------------------------------
Init ==
  /\ table = <<>>
  /\ obj = <<>>
  /\ dcc = "ENABLE"
  /\ late = {}
  /\ sent = <<>>

Receive(k) ==
  \/ \E d \in Requests, a \in PeerAccepts, ms \in PeerMaxSegments :
       receive_confirmed_request(k, d, a, ms)
  \/ \E seq \in 0 .. (SeqSpace - 1), d \in RequestSlices, more \in BOOLEAN,
        pws \in PeerWindows, a \in PeerAccepts, ms \in PeerMaxSegments :
       receive_request_segment(k, seq, d, more, pws, a, ms)
  \/ \E seq \in 0 .. (SeqSpace - 1), aws \in PeerWindows :
       handle_segment_ack_for_response(k, seq, aws)

Next ==
  \/ \E k \in Keys : Receive(k)
  \/ \E n \in 1 .. MaxTransactions : dispatch_request(n)
  \/ \E n \in 1 .. MaxTransactions, kind \in {"SimpleAck", "Error", "Reject", "Abort"} :
       handler_returns(n, kind)
  \/ \E n \in 1 .. MaxTransactions, size \in ResponseSizes :
       handler_returns_data(n, size)
  \/ \E n \in 1 .. MaxTransactions : on_timeout(n)
  \/ \E n \in 1 .. MaxTransactions : on_server_segment_timeout(n)
  \/ \E s \in DccStates : set_dcc_state(s)

Spec == Init /\ [][Next]_vars

-----------------------------------------------------------------------------
(* Properties.                                                             *)

Payloads == Seq(RequestSlices \cup UNION { { p[i] : i \in DOMAIN p } : p \in Requests })

IsObj(o) ==
  /\ o \in [key : Keys, data : Payloads, state : States, cached : {o.cached},
            timer : {"none", "request", "segment"},
            task : {"none", "queued", "running", "dropped", "done"},
            seg_retry_count : 0 .. Retries, sender : SenderType,
            receiver : {o.receiver}, accepts : PeerAccepts,
            max_segments : PeerMaxSegments]
  /\ o.cached = <<>> \/ o.cached = <<o.cached[1]>>
  /\ IsReceiver(o.receiver, RequestSlices)

\* The type invariant of the server TSM: every table entry leads to a
\* transaction object of that very key, and every object is well formed.
TypeOK ==
  /\ DOMAIN table \subseteq Keys
  /\ \A k \in DOMAIN table : table[k] \in DOMAIN obj /\ obj[table[k]].key = k
  /\ DOMAIN obj \subseteq 1 .. MaxTransactions
  /\ \A n \in DOMAIN obj : IsObj(obj[n])
  /\ dcc \in DccStates \cup {"ENABLE"}
  /\ late \subseteq Keys

InTable(n) == obj[n].key \in DOMAIN table /\ table[obj[n].key] = n

\* "Seconds before a server transaction expires": every transaction in the
\* table either has a timer armed that will remove it or retry, or its
\* handler is still going to answer and arm one.  Otherwise the entry stays
\* for good and later requests with that invoke ID are taken for duplicates.
\* That does happen to a segmented request, whose timer was cancelled when it
\* was complete, if the dispatch drops it because communication is disabled.
TableEntryExpires ==
  \A k \in DOMAIN table :
    LET o == obj[table[k]]
    IN  \/ o.timer # "none" \/ AtWork(o)
        \/ o.task = "dropped" /\ o.receiver # NoReceiver

\* Timers find their transaction by key, so a timer must not outlive the
\* presence of its own transaction in the table: otherwise it removes or
\* aborts a younger transaction that was given the same invoke ID.  The only
\* timer that does is the one that the answer of a handler which had outlived
\* its request_timeout arms, or a timer it was removed by.
TimersOwnTheirEntry ==
  \A n \in DOMAIN obj :
    obj[n].key \notin late /\ obj[n].timer # "none" => InTable(n)

\* "Prevents duplicate processing": a second handler starts on a request of
\* the same client and invoke ID only when request_timeout has run out on the
\* first.  No repetition, segment, abort or retry before that, nor any timer
\* but that one, makes the device take a retransmission for a new request.
OneHandlerPerKey ==
  \A m, n \in DOMAIN obj :
    obj[m].key = obj[n].key /\ obj[m].key \notin late /\ AtWork(obj[m]) /\ AtWork(obj[n])
    => m = n

\* "Caches responses for retransmission detection": a transaction in the
\* table that has been answered, or is sending a segmented answer, has the
\* response for its own request at hand when the request comes again.
AnsweredMeansCached ==
  \A n \in DOMAIN obj :
    InTable(n) /\ obj[n].state \in {"IDLE", "SEGMENTED_RESPONSE"} =>
      /\ obj[n].cached # <<>>
      /\ obj[n].cached[1].data = obj[n].data
      /\ obj[n].task = "done"

\* A segment timeout always has something to do: a segmented request in the
\* table still misses the segment _expected_idx, a segmented response still
\* has an unacknowledged window, and the segment timer is armed for both.
SegmentPhases ==
  \A n \in DOMAIN obj :
    LET o == obj[n] IN
    InTable(n) =>
      /\ o.state = "SEGMENTED_REQUEST" =>
           /\ o.timer = "segment" /\ o.task = "none"
           /\ ~receiver_complete(o.receiver) /\ Contiguous(o.receiver)
      /\ o.state = "SEGMENTED_RESPONSE" =>
           /\ o.timer = "segment"
           /\ o.sender.win < o.sender.total /\ o.sender.aws > 0

\* No entry of the table is for good: it is well formed, has something to
\* wait for, and a segment timeout finds work to do.
EntriesProgress == TypeOK /\ TableEntryExpires /\ SegmentPhases

\* A retransmission that finds an entry is answered from it: no timer but its
\* own has touched the entry, and what it has cached answers that request.
EntriesAnswerTheirRequest == TimersOwnTheirEntry /\ AnsweredMeansCached
=============================================================================
