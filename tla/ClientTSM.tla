------------------------------ MODULE ClientTSM ------------------------------
(***************************************************************************)
(* The client transaction state machine of app/tsm.py (class ClientTSM).   *)
(*                                                                         *)
(* The event loop runs one callback at a time, so every handler, timer     *)
(* callback and resumption of send_request() is one atomic action.  The    *)
(* peers are unconstrained: a handler may be called with any decodable PDU *)
(* at any moment, which covers loss, duplication, reordering and peers     *)
(* that do not follow the protocol.                                        *)
(***************************************************************************)
EXTENDS Segmentation, Functions

CONSTANTS
  Peers,         \* addresses requests may be sent to
  IdSpace,       \* number of invoke IDs (256 in the code)
  Retries,       \* apdu_retries
  OurWindow,     \* proposed_window_size of this device
  MaxWindow,     \* largest legal window size in a SegmentACK (127 in the code)
  Sizes,         \* sizes of the requests, in slices; 1 needs no segmentation
  MaxRequests,   \* bound: number of calls to send_request()
  Slices,        \* what a ComplexACK, or a segment of one, may carry
  PeerWindows    \* window sizes found in the PDUs of the peers

ASSUME ClientAssumption ==
  /\ IdSpace \in Nat \ {0}
  /\ Retries \in Nat
  /\ OurWindow \in Nat \ {0}
  /\ MaxWindow \in Nat \ {0}
  /\ Sizes \subseteq Nat \ {0}
  /\ MaxRequests \in Nat
  /\ PeerWindows \subseteq Nat

VARIABLES
  txn,             \* _transactions: (destination, invoke_id) -> transaction
  timer,           \* the scheduled call_later() callback of a key, if any
  next_invoke_id,  \* _next_invoke_id
  requests,        \* number of requests made so far; identifies request data
  sent             \* the PDUs handed to network.send() by the last step

vars == <<txn, timer, next_invoke_id, requests, sent>>

InvokeIds == 0 .. (IdSpace - 1)
Keys      == Peers \X InvokeIds

States   == {"SEGMENTED_REQUEST", "AWAIT_CONFIRMATION", "SEGMENTED_CONFIRMATION"}
Outcomes == {"result", "error", "reject", "abort", "timeout", "cancelled"}

-----------------------------------------------------------------------------
(* PDUs this side sends.  The payload of request n is the sequence of its  *)
(* slices <<n, 0>>, <<n, 1>>, ...                                          *)

ConfirmedRequest(k, t) ==
  [pdu |-> "ConfirmedRequest", peer |-> k[1], id |-> k[2],
   data |-> <<<<t.uid, 0>>>>]

RequestSegment(k, t, idx) ==
  [pdu |-> "RequestSegment", peer |-> k[1], id |-> k[2],
   seq |-> idx % SeqSpace, slice |-> <<t.uid, idx>>,
   more |-> idx < t.sender.total - 1, pws |-> t.sender.pws]

\* fill_window() of the sender, as PDUs in the order they are sent.
RequestWindow(k, t) ==
  [j \in 1 .. (WindowEnd(t.sender) - t.sender.win) |->
     RequestSegment(k, t, t.sender.win + j - 1)]

ClientSegmentAck(k, t, seq, negative) ==
  [pdu |-> "ClientSegmentAck", peer |-> k[1], id |-> k[2],
   seq |-> seq, negative |-> negative, aws |-> t.receiver.aws]

ClientAbort(k) == [pdu |-> "ClientAbort", peer |-> k[1], id |-> k[2]]

-----------------------------------------------------------------------------
(* Effects shared by the handlers.                                         *)

Live(k) == k \in DOMAIN txn /\ txn[k].future = "pending"

Update(k, t, tm, pdus) ==
  /\ txn' = [txn EXCEPT ![k] = t]
  /\ timer' = [timer EXCEPT ![k] = tm]
  /\ sent' = pdus
  /\ UNCHANGED <<next_invoke_id, requests>>

\* Mutant of Resolve: _cancel_timeout() is forgotten.
ResolveWithoutCancel(k, t, outcome, data, pdus) ==
  Update(k, [t EXCEPT !.future = outcome, !.result = data], timer[k], pdus)

Resolve(k, t, outcome, data, pdus) ==
  Update(k, [t EXCEPT !.future = outcome, !.result = data], "none", pdus)

\* _send_confirmed_request() or _send_segmented_request(), by the size.
Started(t) ==
  IF t.size = 1
  THEN [t EXCEPT !.state = "AWAIT_CONFIRMATION"]
  ELSE [t EXCEPT !.state = "SEGMENTED_REQUEST",
                 !.sender = SenderCreate(t.size, OurWindow)]

StartTimer(t) == IF t.size = 1 THEN "apdu" ELSE "segment"

StartPDUs(k, t) ==
  IF t.size = 1 THEN <<ConfirmedRequest(k, t)>> ELSE RequestWindow(k, Started(t))

abort_transaction(k, t) == Resolve(k, t, "abort", <<>>, <<ClientAbort(k)>>)

-----------------------------------------------------------------------------
(* send_request()                                                          *)

\* _allocate_invoke_id(): the first free ID at or after _next_invoke_id.
FreeIds(dest) == { i \in InvokeIds : <<dest, i>> \notin DOMAIN txn }


allocate_invoke_id(dest) ==
  CHOOSE i \in FreeIds(dest) :
    \A j \in FreeIds(dest) :
      (i - next_invoke_id) % IdSpace <= (j - next_invoke_id) % IdSpace

NewTxn(size) ==
  [uid |-> requests + 1, size |-> size, state |-> "IDLE", retry_count |-> 0,
   seg_retry_count |-> 0, future |-> "pending", result |-> <<>>,
   sender |-> NoSender, receiver |-> NoReceiver]

send_request(dest, size) ==
  /\ requests < MaxRequests
  /\ FreeIds(dest) # {}
  /\ LET k == <<dest, allocate_invoke_id(dest)>>
         t == NewTxn(size)
     IN  /\ txn' = [x \in DOMAIN txn \cup {k} |-> IF x = k THEN Started(t) ELSE txn[x]]
         /\ timer' = [timer EXCEPT ![k] = StartTimer(t)]
         /\ next_invoke_id' = (k[2] + 1) % IdSpace
         /\ sent' = StartPDUs(k, t)
  /\ requests' = requests + 1

\* The awaiting coroutine resumes and runs the finally block.
finish_request(k) ==
  /\ k \in DOMAIN txn
  /\ txn[k].future # "pending"
  /\ txn' = Restrict(txn, DOMAIN txn \ {k})
  /\ timer' = [timer EXCEPT ![k] = "none"]
  /\ sent' = <<>>
  /\ UNCHANGED <<next_invoke_id, requests>>

\* The caller is cancelled, as by asyncio.wait_for() in confirmed_request().
cancel_request(k) ==
  /\ Live(k)
  /\ Update(k, [txn[k] EXCEPT !.future = "cancelled"], timer[k], <<>>)

-----------------------------------------------------------------------------
(* Responses.                                                              *)

handle_simple_ack(k) ==
  /\ Live(k)
  /\ txn[k].state = "AWAIT_CONFIRMATION"
  /\ Resolve(k, txn[k], "result", <<>>, <<>>)

handle_complex_ack(k, data) ==
  /\ Live(k)
  /\ txn[k].state = "AWAIT_CONFIRMATION"
  /\ Resolve(k, txn[k], "result", data, <<>>)

\* Mutant of handle_error: the check that the future is not done is missing.
handle_error_unchecked(k) ==
  k \in DOMAIN txn /\ Resolve(k, txn[k], "error", <<>>, <<>>)

handle_error(k)  == Live(k) /\ Resolve(k, txn[k], "error", <<>>, <<>>)
handle_reject(k) == Live(k) /\ Resolve(k, txn[k], "reject", <<>>, <<>>)
handle_abort(k)  == Live(k) /\ Resolve(k, txn[k], "abort", <<>>, <<>>)

\* Mutant of SegmentAckEffect: is_complete is not consulted.
SegmentAckEffectUnchecked(k, t) == Update(k, t, "segment", RequestWindow(k, t))

\* The sender after a SegmentACK, and what follows from it.
SegmentAckEffect(k, t) ==
  IF sender_complete(t.sender)
  THEN Update(k, [t EXCEPT !.state = "AWAIT_CONFIRMATION", !.sender = NoSender],
              "apdu", <<>>)
  ELSE Update(k, t, "segment", RequestWindow(k, t))

handle_segment_ack(k, seq, aws) ==
  /\ Live(k)
  /\ txn[k].state = "SEGMENTED_REQUEST"
  /\ IF aws \in 1 .. MaxWindow
     THEN SegmentAckEffect(k,
            [txn[k] EXCEPT
               !.sender = sender_handle_segment_ack(txn[k].sender, seq, aws),
               !.seg_retry_count = 0])
     ELSE abort_transaction(k, txn[k])

\* First segment of a segmented ComplexACK.
first_response_segment(k, slice, more, pws) ==
  /\ Live(k)
  /\ txn[k].state = "AWAIT_CONFIRMATION"
  /\ LET t == [txn[k] EXCEPT
                 !.receiver = ReceiverCreate(slice, IF pws = 0 THEN 1 ELSE pws,
                                             more, OurWindow),
                 !.state = "SEGMENTED_CONFIRMATION"]
     IN  IF more
         THEN Update(k, t, "segment", <<ClientSegmentAck(k, t, 0, FALSE)>>)
         ELSE Resolve(k, t, "result", reassemble(t.receiver), <<>>)

next_response_segment(k, seq, slice, more) ==
  /\ Live(k)
  /\ txn[k].state = "SEGMENTED_CONFIRMATION"
  /\ LET res == receive_segment(txn[k].receiver, seq, slice, more)
         t   == [txn[k] EXCEPT !.receiver = res.rcv]
         ack == <<ClientSegmentAck(k, t, res.ack, FALSE)>>
     IN  CASE res.action = "COMPLETE" ->
                Resolve(k, t, "result", reassemble(res.rcv), ack)
           [] res.action \in {"SEND_ACK", "RESEND_LAST_ACK"} ->
                Update(k, t, "segment", ack)
           [] res.action = "CONTINUE" ->
                Update(k, t, "segment", <<>>)
           [] res.action = "ABORT" ->
                abort_transaction(k, t)

\* Mutant of handle_segmented_complex_ack: any segment may come first.
handle_segmented_complex_ack_any(k, seq, slice, more, pws) ==
  \/ first_response_segment(k, slice, more, pws)
  \/ next_response_segment(k, seq, slice, more)

handle_segmented_complex_ack(k, seq, slice, more, pws) ==
  \/ seq = 0 /\ first_response_segment(k, slice, more, pws)
  \/ next_response_segment(k, seq, slice, more)

-----------------------------------------------------------------------------
(* Timers.  A callback that finds its transaction gone or resolved returns *)
(* at once; the timer is spent either way.                                 *)

TimerSpent(k) == Update(k, txn[k], "none", <<>>)

\* Mutant of on_timeout: one retry too many.
on_timeout_once_more(k) ==
  /\ timer[k] = "apdu"
  /\ k \in DOMAIN txn
  /\ LET t == txn[k]
         r == [t EXCEPT !.retry_count = @ + 1]
     IN  \/ ~Live(k) /\ TimerSpent(k)
         \/ /\ Live(k) /\ t.retry_count <= Retries
            /\ Update(k, Started(r), StartTimer(r), StartPDUs(k, r))
         \/ /\ Live(k) /\ t.retry_count > Retries
            /\ Resolve(k, t, "timeout", <<>>, <<>>)

on_timeout(k) ==
  /\ timer[k] = "apdu"
  /\ k \in DOMAIN txn
  /\ LET t == txn[k]
         r == [t EXCEPT !.retry_count = @ + 1]
     IN  \/ ~Live(k) /\ TimerSpent(k)
         \/ /\ Live(k) /\ t.retry_count < Retries
            /\ Update(k, Started(r), StartTimer(r), StartPDUs(k, r))
         \/ /\ Live(k) /\ t.retry_count >= Retries
            /\ Resolve(k, t, "timeout", <<>>, <<>>)

on_segment_timeout(k) ==
  /\ timer[k] = "segment"
  /\ k \in DOMAIN txn
  /\ LET t == txn[k]
         r == [t EXCEPT !.seg_retry_count = @ + 1]
     IN  \/ (~Live(k) \/ t.state = "AWAIT_CONFIRMATION") /\ TimerSpent(k)
         \/ /\ Live(k) /\ t.state = "SEGMENTED_REQUEST"
            /\ t.seg_retry_count < Retries
            /\ Update(k, r, "segment", RequestWindow(k, r))
         \/ /\ Live(k) /\ t.state = "SEGMENTED_CONFIRMATION"
            /\ t.seg_retry_count < Retries
            /\ Update(k, r, "segment",
                      <<ClientSegmentAck(k, r, t.receiver.last_ack, TRUE)>>)
         \/ /\ Live(k) /\ t.state # "AWAIT_CONFIRMATION"
            /\ t.seg_retry_count >= Retries
            /\ abort_transaction(k, t)

-----------------------------------------------------------------------------
Init ==
  /\ txn = <<>>
  /\ timer = [k \in Keys |-> "none"]
  /\ next_invoke_id = 0
  /\ requests = 0
  /\ sent = <<>>

Respond(k) ==
  \/ handle_simple_ack(k)
  \/ \E d \in Slices : handle_complex_ack(k, <<d>>)
  \/ handle_error(k)
  \/ handle_reject(k)
  \/ handle_abort(k)
  \/ \E seq \in 0 .. (SeqSpace - 1), aws \in PeerWindows :
       handle_segment_ack(k, seq, aws)
  \/ \E seq \in 0 .. (SeqSpace - 1), d \in Slices, more \in BOOLEAN,
        pws \in PeerWindows :
       handle_segmented_complex_ack(k, seq, d, more, pws)

Next ==
  \/ \E dest \in Peers, size \in Sizes : send_request(dest, size)
  \/ \E k \in Keys : finish_request(k)
  \/ \E k \in Keys : cancel_request(k)
  \/ \E k \in Keys : Respond(k)
  \/ \E k \in Keys : on_timeout(k)
  \/ \E k \in Keys : on_segment_timeout(k)

Spec == Init /\ [][Next]_vars

-----------------------------------------------------------------------------
(* Properties.                                                             *)

IsTxn(t) ==
  /\ t \in [uid : Nat, size : Sizes, state : States,
            retry_count : 0 .. Retries, seg_retry_count : 0 .. Retries,
            future : Outcomes \cup {"pending"}, result : Seq(Slices),
            sender : SenderType, receiver : {t.receiver}]
  /\ IsReceiver(t.receiver, Slices)

\* The type invariant of the client TSM: the dict holds transactions in one
\* of the three non-idle states, neither retry counter exceeds apdu_retries,
\* and timers exist only for keys of the invoke ID space.
TypeOK ==
  /\ DOMAIN txn \subseteq Keys
  /\ \A k \in DOMAIN txn : IsTxn(txn[k])
  /\ timer \in [Keys -> {"none", "apdu", "segment"}]
  /\ next_invoke_id \in InvokeIds
  /\ requests \in 0 .. MaxRequests

\* The timer that moves a pending transaction on from a state.
TimerOf(state) == IF state = "AWAIT_CONFIRMATION" THEN "apdu" ELSE "segment"

\* No request can hang: a transaction whose future is pending always has a
\* scheduled callback, and it is the callback that acts in its state
\* (_on_segment_timeout does nothing in AWAIT_CONFIRMATION).  Conversely no
\* callback outlives its transaction, so it cannot hit a later transaction
\* that was given the same invoke ID.
TimerMatchesState ==
  \A k \in Keys :
    /\ Live(k) => timer[k] = TimerOf(txn[k].state)
    /\ timer[k] # "none" =>
         k \in DOMAIN txn /\ txn[k].future \in {"pending", "cancelled"}

\* A segment timeout always retransmits or negatively acknowledges something:
\* the sender of a pending SEGMENTED_REQUEST still has an unsent window, and
\* the receiver of a pending SEGMENTED_CONFIRMATION still misses a segment.
SegmentPhases ==
  \A k \in DOMAIN txn :
    LET t == txn[k] IN
    t.future = "pending" =>
      /\ t.state = "SEGMENTED_REQUEST" =>
           t.sender.win < t.sender.total /\ t.sender.aws > 0
      /\ t.state = "SEGMENTED_CONFIRMATION" =>
           ~receiver_complete(t.receiver) /\ Contiguous(t.receiver)

KeepsOutcome ==
  \A k \in DOMAIN txn :
    k \in DOMAIN txn' =>
      /\ txn'[k].uid = txn[k].uid
      /\ txn[k].future # "pending" =>
           txn'[k].future = txn[k].future /\ txn'[k].result = txn[k].result

\* A future is resolved once: what resolved it first is what the caller sees,
\* whatever responses and timeouts arrive before the caller resumes; and a
\* key is never handed to a new request while the old one is in the table.
ResolvedOnce == [][KeepsOutcome]_vars
=============================================================================
