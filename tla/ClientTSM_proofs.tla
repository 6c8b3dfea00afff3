-------------------------- MODULE ClientTSM_proofs --------------------------
(***************************************************************************)
(* Proofs of the safety properties of ClientTSM, for every number of peers *)
(* and invoke IDs, every window, retry count and payload, and whatever the *)
(* peers send.                                                             *)
(***************************************************************************)
EXTENDS ClientTSM, OperatorFacts

Timers == {"none", "apdu", "segment"}

\* The phase of a segmented transfer agrees with the state of the transaction.
PhaseOK(t) ==
  /\ t.state = "SEGMENTED_REQUEST" => t.sender.win < t.sender.total /\ t.sender.aws > 0
  /\ t.state = "SEGMENTED_CONFIRMATION" =>
       ~receiver_complete(t.receiver) /\ Contiguous(t.receiver)

\* What holds of a transaction t of the table and the timer tm of its key.
Good(t, tm) ==
  /\ IsTxn(t)
  /\ t.future = "pending" => tm = TimerOf(t.state) /\ PhaseOK(t)
  /\ tm # "none" => t.future \in {"pending", "cancelled"}

\* The inductive invariant: every transaction is good, and no timer is armed
\* for a key that has no transaction.
IndInv ==
  /\ DOMAIN txn \subseteq Keys
  /\ timer \in [Keys -> Timers]
  /\ \A k \in DOMAIN txn : Good(txn[k], timer[k])
  /\ \A k \in Keys : k \notin DOMAIN txn => timer[k] = "none"
  /\ next_invoke_id \in InvokeIds
  /\ requests \in 0 .. MaxRequests

-----------------------------------------------------------------------------
(* What the shared effects of the handlers preserve.                       *)

\* Update() changes one transaction, which is pending or stays as it is, and
\* its timer.
LEMMA UpdateKeepsInv ==
  ASSUME IndInv, NEW k \in DOMAIN txn, NEW t, NEW tm \in Timers, NEW pdus,
         Update(k, t, tm, pdus), Good(t, tm),
         t.uid = txn[k].uid, Live(k) \/ t = txn[k]
  PROVE  IndInv' /\ KeepsOutcome
<1>1. k \in Keys
  BY DEF IndInv
<1>2. /\ DOMAIN txn' = DOMAIN txn
      /\ txn'[k] = t
      /\ \A j \in DOMAIN txn : j # k => txn'[j] = txn[j]
  BY DEF Update
<1>3. /\ timer' \in [Keys -> Timers]
      /\ timer'[k] = tm
      /\ \A j \in Keys : j # k => timer'[j] = timer[j]
  BY <1>1 DEF Update, IndInv
<1>4. \A j \in DOMAIN txn' : Good(txn'[j], timer'[j])
  BY <1>2, <1>3 DEF IndInv
<1>5. \A j \in Keys : j \notin DOMAIN txn' => timer'[j] = "none"
  BY <1>1, <1>2, <1>3 DEF IndInv
<1>6. UNCHANGED <<next_invoke_id, requests>>
  BY DEF Update
<1>7. KeepsOutcome
  BY <1>2 DEF KeepsOutcome, Live
<1>. QED  BY <1>2, <1>3, <1>4, <1>5, <1>6, <1>7 DEF IndInv

\* What the handlers know of a transaction whose future is pending.
LEMMA LiveFact ==
  ASSUME IndInv, NEW k, Live(k)
  PROVE  /\ k \in DOMAIN txn
         /\ k \in Keys
         /\ IsTxn(txn[k])
         /\ txn[k].future = "pending"
         /\ timer[k] = TimerOf(txn[k].state)
         /\ PhaseOK(txn[k])
<1>. QED  BY DEF IndInv, Live, Good

\* A resolved transaction needs no timer.
LEMMA ResolvedIsGood ==
  ASSUME NEW t, IsTxn(t), NEW outcome \in Outcomes, NEW data \in Seq(Slices)
  PROVE  Good([t EXCEPT !.future = outcome, !.result = data], "none")
<1>. QED  BY DEF Good, IsTxn, Outcomes

\* A transaction whose request is about to be sent, for the first time or again.
IsPending(t) ==
  /\ t \in [uid : Nat, size : Sizes, state : States \cup {"IDLE"},
            retry_count : 0 .. Retries, seg_retry_count : 0 .. Retries,
            future : {"pending"}, result : Seq(Slices),
            sender : SenderType, receiver : {t.receiver}]
  /\ IsReceiver(t.receiver, Slices)

\* _send_confirmed_request() and _send_segmented_request() arm the timer of
\* the state they enter, and the sender starts with an open window.
LEMMA StartedIsGood ==
  ASSUME NEW t, IsPending(t)
  PROVE  Good(Started(t), StartTimer(t)) /\ StartTimer(t) \in Timers
<1>1. CASE t.size = 1
  <2>. DEFINE s == [t EXCEPT !.state = "AWAIT_CONFIRMATION"]
  <2>1. IsTxn(s) /\ s.state = "AWAIT_CONFIRMATION" /\ s.future = "pending"
    BY DEF IsPending, IsTxn, States, Outcomes
  <2>2. Started(t) = s /\ StartTimer(t) = "apdu"
    BY <1>1 DEF Started, StartTimer
  <2>. QED  BY <2>1, <2>2 DEF Good, TimerOf, PhaseOK, Timers
<1>2. CASE t.size # 1
  <2>. DEFINE snd == SenderCreate(t.size, OurWindow)
              s   == [t EXCEPT !.state = "SEGMENTED_REQUEST", !.sender = snd]
  <2>1. t.size \in Nat \ {0} /\ OurWindow \in Nat \ {0}
    BY ClientAssumption DEF IsPending
  <2>2. /\ snd \in SenderType
        /\ snd.win < snd.total
        /\ snd.aws > 0
    BY <2>1 DEF SenderCreate, SenderType
  <2>3. Started(t) = s /\ StartTimer(t) = "segment"
    BY <1>2 DEF Started, StartTimer
  <2>. HIDE DEF snd
  <2>4. /\ IsTxn(s)
        /\ s.state = "SEGMENTED_REQUEST"
        /\ s.future = "pending"
        /\ s.sender = snd
    BY <2>2 DEF IsPending, IsTxn, States, Outcomes
  <2>. QED  BY <2>2, <2>3, <2>4 DEF Good, TimerOf, PhaseOK, Timers
<1>. QED  BY <1>1, <1>2

\* The record that send_request() builds.
LEMMA NewTxnIsPending ==
  ASSUME requests \in Nat, NEW size \in Sizes
  PROVE  IsPending(NewTxn(size))
<1>1. NoSender \in SenderType
  BY DEF NoSender, SenderType
<1>2. IsReceiver(NoReceiver, Slices)
  <2>1. DOMAIN NoReceiver.segs = {}
    BY DEF NoReceiver
  <2>2. IsFiniteSet(DOMAIN NoReceiver.segs)
    BY <2>1, FS_EmptySet
  <2>. QED  BY <2>1, <2>2 DEF IsReceiver, NoReceiver, NoFinal
<1>3. NewTxn(size).receiver = NoReceiver
  BY DEF NewTxn
<1>4. <<>> \in Seq(Slices)
  OBVIOUS
<1>5. requests + 1 \in Nat /\ 0 \in 0 .. Retries
  BY ClientAssumption
<1>. HIDE DEF NoSender, NoReceiver
<1>. QED  BY <1>1, <1>2, <1>3, <1>4, <1>5 DEF IsPending, NewTxn

\* Resolve() applied to a pending transaction.
LEMMA ResolveKeepsInv ==
  ASSUME IndInv, NEW k, Live(k), NEW t, IsTxn(t), t.uid = txn[k].uid,
         NEW outcome \in Outcomes, NEW data \in Seq(Slices), NEW pdus,
         Resolve(k, t, outcome, data, pdus)
  PROVE  IndInv' /\ KeepsOutcome
<1>. DEFINE s == [t EXCEPT !.future = outcome, !.result = data]
<1>1. Good(s, "none")
  BY ResolvedIsGood
<1>2. s.uid = txn[k].uid
  BY DEF IsTxn
<1>3. k \in DOMAIN txn
  BY LiveFact
<1>4. Update(k, s, "none", pdus)
  BY DEF Resolve
<1>. HIDE DEF s
<1>. QED  BY <1>1, <1>2, <1>3, <1>4, UpdateKeepsInv DEF Timers

-----------------------------------------------------------------------------
(* One lemma per operation.                                                *)

LEMMA SendRequestStep ==
  ASSUME IndInv, NEW dest \in Peers, NEW size \in Sizes, send_request(dest, size)
  PROVE  IndInv' /\ KeepsOutcome
<1>. DEFINE id == allocate_invoke_id(dest)
            k  == <<dest, id>>
            t  == NewTxn(size)
            s  == Started(t)
            tm == StartTimer(t)
<1>1. \E i \in FreeIds(dest) :
        \A j \in FreeIds(dest) :
          (i - next_invoke_id) % IdSpace <= (j - next_invoke_id) % IdSpace
  <2>. DEFINE Distance(i) == (i - next_invoke_id) % IdSpace
              D == { Distance(i) : i \in FreeIds(dest) }
  <2>1. \A i \in FreeIds(dest) : Distance(i) \in Nat
    BY ClientAssumption DEF FreeIds, InvokeIds, IndInv
  <2>2. D \subseteq Nat /\ D # {}
    BY <2>1 DEF send_request
  <2>. HIDE DEF Distance
  <2>3. PICK d \in D : \A e \in D : d <= e
    BY <2>2, MinOfNats
  <2>4. PICK i \in FreeIds(dest) : d = Distance(i)
    OBVIOUS
  <2>5. \A j \in FreeIds(dest) : Distance(i) <= Distance(j)
    BY <2>3, <2>4
  <2>. QED  BY <2>5 DEF Distance
<1>2. id \in FreeIds(dest)
  BY <1>1, Zenon DEF allocate_invoke_id
<1>3. k \in Keys /\ k \notin DOMAIN txn
  BY <1>2 DEF FreeIds, Keys
<1>4. Good(s, tm) /\ tm \in Timers
  BY NewTxnIsPending, StartedIsGood DEF IndInv
<1>5. /\ txn' = [x \in DOMAIN txn \cup {k} |-> IF x = k THEN s ELSE txn[x]]
      /\ timer' = [timer EXCEPT ![k] = tm]
      /\ next_invoke_id' = (k[2] + 1) % IdSpace
      /\ requests' = requests + 1
      /\ requests < MaxRequests
  BY DEF send_request
<1>6. next_invoke_id' \in InvokeIds
  BY <1>2, <1>5, ClientAssumption DEF FreeIds, InvokeIds
<1>. HIDE DEF id, k, t, s, tm
<1>7. /\ DOMAIN txn' = DOMAIN txn \cup {k}
      /\ txn'[k] = s
      /\ \A x \in DOMAIN txn : txn'[x] = txn[x]
  BY <1>3, <1>5
<1>8. /\ timer' \in [Keys -> Timers]
      /\ timer'[k] = tm
      /\ \A x \in Keys : x # k => timer'[x] = timer[x]
  BY <1>3, <1>4, <1>5 DEF IndInv
<1>9. KeepsOutcome
  BY <1>7 DEF KeepsOutcome
<1>10. requests' \in 0 .. MaxRequests
  BY <1>5, ClientAssumption DEF IndInv
<1>11. \A x \in DOMAIN txn' : Good(txn'[x], timer'[x])
  BY <1>3, <1>4, <1>7, <1>8 DEF IndInv
<1>. QED  BY <1>3, <1>6, <1>7, <1>8, <1>9, <1>10, <1>11 DEF IndInv

LEMMA FinishRequestStep ==
  ASSUME IndInv, NEW k \in Keys, finish_request(k)
  PROVE  IndInv' /\ KeepsOutcome
<1>1. /\ txn' = [x \in DOMAIN txn \ {k} |-> txn[x]]
      /\ timer' = [timer EXCEPT ![k] = "none"]
      /\ UNCHANGED <<next_invoke_id, requests>>
  BY DEF finish_request, Restrict
<1>2. /\ timer' \in [Keys -> Timers]
      /\ timer'[k] = "none"
      /\ \A x \in Keys : x # k => timer'[x] = timer[x]
  BY <1>1 DEF IndInv, Timers
<1>3. KeepsOutcome
  BY <1>1 DEF KeepsOutcome
<1>. QED  BY <1>1, <1>2, <1>3 DEF IndInv

LEMMA CancelRequestStep ==
  ASSUME IndInv, NEW k, cancel_request(k)
  PROVE  IndInv' /\ KeepsOutcome
<1>. DEFINE s == [txn[k] EXCEPT !.future = "cancelled"]
<1>1. Live(k) /\ Update(k, s, timer[k], <<>>)
  BY DEF cancel_request
<1>2. /\ k \in DOMAIN txn /\ k \in Keys
      /\ IsTxn(txn[k])
  BY <1>1, LiveFact
<1>3. IsTxn(s) /\ s.future = "cancelled" /\ s.uid = txn[k].uid
  BY <1>2 DEF IsTxn, Outcomes
<1>. HIDE DEF s
<1>4. Good(s, timer[k]) /\ timer[k] \in Timers
  BY <1>2, <1>3 DEF Good, IndInv
<1>. QED  BY <1>1, <1>2, <1>3, <1>4, UpdateKeepsInv

LEMMA ResponseStep ==
  ASSUME IndInv, NEW k,
         \/ handle_simple_ack(k)
         \/ \E d \in Slices : handle_complex_ack(k, <<d>>)
         \/ handle_error(k)
         \/ handle_reject(k)
         \/ handle_abort(k)
  PROVE  IndInv' /\ KeepsOutcome
<1>. /\ <<>> \in Seq(Slices)
     /\ \A d \in Slices : <<d>> \in Seq(Slices)
  OBVIOUS
<1>. {"result", "error", "reject", "abort"} \subseteq Outcomes
  BY DEF Outcomes
<1>1. /\ Live(k)
      /\ \E outcome \in Outcomes, data \in Seq(Slices) :
           Resolve(k, txn[k], outcome, data, <<>>)
  BY Zenon DEF handle_simple_ack, handle_complex_ack, handle_error, handle_reject,
               handle_abort
<1>2. IsTxn(txn[k])
  BY <1>1, LiveFact
<1>. QED  BY <1>1, <1>2, ResolveKeepsInv

LEMMA AbortStep ==
  ASSUME IndInv, NEW k, Live(k), NEW t, IsTxn(t), t.uid = txn[k].uid,
         abort_transaction(k, t)
  PROVE  IndInv' /\ KeepsOutcome
<1>1. <<>> \in Seq(Slices) /\ "abort" \in Outcomes
  BY DEF Outcomes
<1>2. Resolve(k, t, "abort", <<>>, <<ClientAbort(k)>>)
  BY DEF abort_transaction
<1>. QED  BY <1>1, <1>2, ResolveKeepsInv

LEMMA SegmentAckStep ==
  ASSUME IndInv, NEW k, NEW seq, NEW aws \in PeerWindows, handle_segment_ack(k, seq, aws)
  PROVE  IndInv' /\ KeepsOutcome
<1>1. Live(k) /\ k \in DOMAIN txn /\ IsTxn(txn[k]) /\ txn[k].future = "pending"
  BY LiveFact DEF handle_segment_ack
<1>2. CASE aws \notin 1 .. MaxWindow
  <2>1. abort_transaction(k, txn[k])
    BY <1>2 DEF handle_segment_ack
  <2>. QED  BY <1>1, <2>1, AbortStep
<1>3. CASE aws \in 1 .. MaxWindow
  <2>. DEFINE snd == sender_handle_segment_ack(txn[k].sender, seq, aws)
              t   == [txn[k] EXCEPT !.sender = snd, !.seg_retry_count = 0]
              c   == [t EXCEPT !.state = "AWAIT_CONFIRMATION", !.sender = NoSender]
  <2>1. txn[k].sender \in SenderType /\ aws \in Nat /\ aws > 0 /\ 0 \in 0 .. Retries
    BY <1>1, <1>3, ClientAssumption DEF IsTxn
  <2>2. snd \in SenderType /\ snd.aws = aws
    BY <2>1, SenderAckFact
  <2>3. SegmentAckEffect(k, t) /\ txn[k].state = "SEGMENTED_REQUEST"
    BY <1>3 DEF handle_segment_ack
  <2>. HIDE DEF snd
  <2>4. /\ IsTxn(t) /\ t.future = "pending" /\ t.state = "SEGMENTED_REQUEST"
        /\ t.sender = snd /\ t.uid = txn[k].uid
    BY <1>1, <2>1, <2>2, <2>3 DEF IsTxn
  <2>. HIDE DEF t
  <2>5. CASE sender_complete(t.sender)
    <3>1. NoSender \in SenderType
      BY DEF NoSender, SenderType
    <3>2. /\ IsTxn(c) /\ c.future = "pending" /\ c.state = "AWAIT_CONFIRMATION"
          /\ c.uid = t.uid
      BY <2>4, <3>1 DEF IsTxn, States
    <3>3. Update(k, c, "apdu", <<>>)
      BY <2>3, <2>5 DEF SegmentAckEffect
    <3>. HIDE DEF c
    <3>4. Good(c, "apdu") /\ "apdu" \in Timers
      BY <3>2 DEF Good, TimerOf, PhaseOK, Timers
    <3>. QED  BY <1>1, <2>4, <3>2, <3>3, <3>4, UpdateKeepsInv
  <2>6. CASE ~sender_complete(t.sender)
    <3>1. t.sender.win < t.sender.total /\ t.sender.aws > 0
      BY <2>1, <2>2, <2>4, <2>6 DEF sender_complete, SenderType
    <3>2. Update(k, t, "segment", RequestWindow(k, t))
      BY <2>3, <2>6 DEF SegmentAckEffect
    <3>3. Good(t, "segment") /\ "segment" \in Timers
      BY <2>4, <3>1 DEF Good, TimerOf, PhaseOK, Timers
    <3>. QED  BY <1>1, <2>4, <3>2, <3>3, UpdateKeepsInv
  <2>. QED  BY <2>5, <2>6
<1>. QED  BY <1>2, <1>3

LEMMA FirstSegmentStep ==
  ASSUME IndInv, NEW k, NEW slice \in Slices, NEW more \in BOOLEAN,
         NEW pws \in PeerWindows, first_response_segment(k, slice, more, pws)
  PROVE  IndInv' /\ KeepsOutcome
<1>. DEFINE w == IF pws = 0 THEN 1 ELSE pws
            r == ReceiverCreate(slice, w, more, OurWindow)
            t == [txn[k] EXCEPT !.receiver = r, !.state = "SEGMENTED_CONFIRMATION"]
<1>1. Live(k) /\ k \in DOMAIN txn /\ IsTxn(txn[k]) /\ txn[k].future = "pending"
  BY LiveFact DEF first_response_segment
<1>2. w \in Nat /\ OurWindow \in Nat
  BY ClientAssumption
<1>. HIDE DEF w
<1>3. /\ IsReceiver(r, Slices) /\ Contiguous(r)
      /\ receiver_complete(r) <=> ~more
  BY <1>2, ReceiverCreateFact
<1>4. IF more
      THEN Update(k, t, "segment", <<ClientSegmentAck(k, t, 0, FALSE)>>)
      ELSE Resolve(k, t, "result", reassemble(t.receiver), <<>>)
  BY DEF first_response_segment, w
<1>. HIDE DEF r
<1>5. /\ IsTxn(t) /\ t.future = "pending" /\ t.state = "SEGMENTED_CONFIRMATION"
      /\ t.receiver = r /\ t.uid = txn[k].uid
  BY <1>1, <1>3 DEF IsTxn, States
<1>. HIDE DEF t
<1>6. CASE more
  <2>1. Good(t, "segment") /\ "segment" \in Timers
    BY <1>3, <1>5, <1>6 DEF Good, TimerOf, PhaseOK, Timers
  <2>. QED  BY <1>1, <1>4, <1>5, <1>6, <2>1, UpdateKeepsInv
<1>7. CASE ~more
  <2>1. reassemble(t.receiver) \in Seq(Slices) /\ "result" \in Outcomes
    BY <1>3, <1>5, <1>7, ReassembleFact DEF Outcomes
  <2>. QED  BY <1>1, <1>4, <1>5, <1>7, <2>1, ResolveKeepsInv
<1>. QED  BY <1>6, <1>7

LEMMA NextSegmentStep ==
  ASSUME IndInv, NEW k, NEW seq \in Nat, NEW slice \in Slices, NEW more \in BOOLEAN,
         next_response_segment(k, seq, slice, more)
  PROVE  IndInv' /\ KeepsOutcome
<1>. DEFINE res == receive_segment(txn[k].receiver, seq, slice, more)
            t   == [txn[k] EXCEPT !.receiver = res.rcv]
            ack == <<ClientSegmentAck(k, t, res.ack, FALSE)>>
<1>1. /\ Live(k) /\ k \in DOMAIN txn /\ IsTxn(txn[k]) /\ txn[k].future = "pending"
      /\ txn[k].state = "SEGMENTED_CONFIRMATION"
      /\ PhaseOK(txn[k])
  BY LiveFact DEF next_response_segment
<1>2. /\ IsReceiver(txn[k].receiver, Slices)
      /\ Contiguous(txn[k].receiver)
      /\ ~receiver_complete(txn[k].receiver)
  BY <1>1 DEF IsTxn, PhaseOK
<1>3. /\ IsReceiver(res.rcv, Slices)
      /\ res.action \in {"COMPLETE", "SEND_ACK", "CONTINUE", "RESEND_LAST_ACK", "ABORT"}
      /\ res.action # "ABORT" =>
           Contiguous(res.rcv) /\ (receiver_complete(res.rcv) <=> res.action = "COMPLETE")
  BY <1>2, ReceiveSegmentFact
<1>4. /\ res.action = "COMPLETE" => Resolve(k, t, "result", reassemble(res.rcv), ack)
      /\ res.action \in {"SEND_ACK", "RESEND_LAST_ACK"} => Update(k, t, "segment", ack)
      /\ res.action = "CONTINUE" => Update(k, t, "segment", <<>>)
      /\ res.action = "ABORT" => abort_transaction(k, t)
  <2>. HIDE DEF res
  <2>1. CASE res.action = "COMPLETE"
    BY <2>1 DEF next_response_segment, res
  <2>2. CASE res.action \in {"SEND_ACK", "RESEND_LAST_ACK"}
    BY <2>2 DEF next_response_segment, res
  <2>3. CASE res.action = "CONTINUE"
    BY <2>3 DEF next_response_segment, res
  <2>4. CASE res.action = "ABORT"
    BY <2>4 DEF next_response_segment, res
  <2>. QED  BY <1>3, <2>1, <2>2, <2>3, <2>4
<1>. HIDE DEF res
<1>5. /\ IsTxn(t) /\ t.future = "pending" /\ t.state = "SEGMENTED_CONFIRMATION"
      /\ t.receiver = res.rcv /\ t.uid = txn[k].uid
  BY <1>1, <1>3 DEF IsTxn
<1>. HIDE DEF t, ack
<1>6. CASE res.action = "COMPLETE"
  <2>1. reassemble(res.rcv) \in Seq(Slices) /\ "result" \in Outcomes
    BY <1>3, <1>6, ReassembleFact DEF Outcomes
  <2>. QED  BY <1>1, <1>4, <1>5, <1>6, <2>1, ResolveKeepsInv
<1>7. CASE res.action \in {"SEND_ACK", "RESEND_LAST_ACK", "CONTINUE"}
  <2>1. Good(t, "segment") /\ "segment" \in Timers
    BY <1>3, <1>5, <1>7 DEF Good, TimerOf, PhaseOK, Timers
  <2>2. \E pdus : Update(k, t, "segment", pdus)
    BY <1>4, <1>7
  <2>. QED  BY <1>1, <1>5, <2>1, <2>2, UpdateKeepsInv
<1>8. CASE res.action = "ABORT"
  BY <1>1, <1>4, <1>5, <1>8, AbortStep
<1>. QED  BY <1>3, <1>6, <1>7, <1>8

\* A callback that only spends its timer finds the transaction resolved: the
\* timer of a pending one is the timer of its state.
LEMMA TimerSpentStep ==
  ASSUME IndInv, NEW k \in DOMAIN txn, ~Live(k), TimerSpent(k)
  PROVE  IndInv' /\ KeepsOutcome
<1>1. Good(txn[k], "none") /\ "none" \in Timers
  BY DEF IndInv, Good, Live, Timers
<1>2. Update(k, txn[k], "none", <<>>)
  BY DEF TimerSpent
<1>. QED  BY <1>1, <1>2, UpdateKeepsInv

LEMMA TimeoutStep ==
  ASSUME IndInv, NEW k, on_timeout(k)
  PROVE  IndInv' /\ KeepsOutcome
<1>. DEFINE t == txn[k]
            r == [t EXCEPT !.retry_count = @ + 1]
<1>0. k \in DOMAIN txn
  BY DEF on_timeout
<1>1. CASE ~Live(k)
  <2>1. TimerSpent(k)
    BY <1>1 DEF on_timeout
  <2>. QED  BY <1>0, <1>1, <2>1, TimerSpentStep
<1>2. CASE Live(k) /\ t.retry_count < Retries
  <2>1. IsTxn(t) /\ t.future = "pending"
    BY <1>2, LiveFact
  <2>2. t.retry_count + 1 \in 0 .. Retries
    BY <1>2, <2>1, ClientAssumption DEF IsTxn
  <2>3. Update(k, Started(r), StartTimer(r), StartPDUs(k, r))
    <3>1. ~(t.retry_count >= Retries)
      BY <1>2, <2>1, ClientAssumption DEF IsTxn
    <3>. QED  BY <1>2, <3>1 DEF on_timeout
  <2>4. IsPending(r) /\ r.uid = t.uid
    BY <2>1, <2>2 DEF IsTxn, IsPending
  <2>. HIDE DEF r
  <2>5. Good(Started(r), StartTimer(r)) /\ StartTimer(r) \in Timers
    BY <2>4, StartedIsGood
  <2>6. Started(r).uid = r.uid
    BY <2>4 DEF Started, IsPending
  <2>. QED  BY <1>0, <1>2, <2>3, <2>4, <2>5, <2>6, UpdateKeepsInv
<1>3. CASE Live(k) /\ ~(t.retry_count < Retries)
  <2>1. Resolve(k, t, "timeout", <<>>, <<>>)
    BY <1>3 DEF on_timeout
  <2>2. IsTxn(t) /\ <<>> \in Seq(Slices) /\ "timeout" \in Outcomes
    BY <1>3, LiveFact DEF Outcomes
  <2>. QED  BY <1>3, <2>1, <2>2, ResolveKeepsInv
<1>. QED  BY <1>1, <1>2, <1>3

LEMMA SegmentTimeoutStep ==
  ASSUME IndInv, NEW k, on_segment_timeout(k)
  PROVE  IndInv' /\ KeepsOutcome
<1>. DEFINE t == txn[k]
            r == [t EXCEPT !.seg_retry_count = @ + 1]
<1>0. k \in DOMAIN txn /\ timer[k] = "segment"
  BY DEF on_segment_timeout
<1>1. CASE ~Live(k)
  <2>1. TimerSpent(k)
    BY <1>1 DEF on_segment_timeout
  <2>. QED  BY <1>0, <1>1, <2>1, TimerSpentStep
<1>2. ASSUME Live(k)
      PROVE  /\ IsTxn(t) /\ t.future = "pending" /\ PhaseOK(t)
             /\ t.state # "AWAIT_CONFIRMATION"
  BY <1>0, <1>2, LiveFact DEF TimerOf
<1>3. CASE Live(k) /\ t.seg_retry_count < Retries
  <2>1. t.seg_retry_count + 1 \in 0 .. Retries
    BY <1>2, <1>3, ClientAssumption DEF IsTxn
  <2>2. /\ ~(t.seg_retry_count >= Retries)
        /\ t.state # "AWAIT_CONFIRMATION"
    BY <1>2, <1>3, ClientAssumption DEF IsTxn
  <2>3. \E pdus : Update(k, r, "segment", pdus)
    BY <1>3, <2>2 DEF on_segment_timeout
  <2>4. /\ IsTxn(r) /\ r.future = "pending" /\ r.uid = t.uid
        /\ r.state = t.state /\ r.sender = t.sender /\ r.receiver = t.receiver
    BY <1>2, <1>3, <2>1 DEF IsTxn
  <2>. HIDE DEF r
  <2>5. Good(r, "segment") /\ "segment" \in Timers
    BY <1>2, <1>3, <2>4 DEF Good, PhaseOK, TimerOf, Timers
  <2>. QED  BY <1>0, <1>3, <2>3, <2>4, <2>5, UpdateKeepsInv
<1>4. CASE Live(k) /\ ~(t.seg_retry_count < Retries)
  <2>1. abort_transaction(k, t)
    BY <1>2, <1>4 DEF on_segment_timeout
  <2>. QED  BY <1>2, <1>4, <2>1, AbortStep
<1>. QED  BY <1>1, <1>3, <1>4

-----------------------------------------------------------------------------
(* The invariant is inductive.                                             *)

LEMMA InitFact == Init => IndInv
<1>. SUFFICES ASSUME Init PROVE IndInv
  OBVIOUS
<1>1. DOMAIN txn = {}
  BY DEF Init
<1>2. timer \in [Keys -> Timers] /\ \A k \in Keys : timer[k] = "none"
  BY DEF Init, Timers
<1>3. next_invoke_id \in InvokeIds /\ requests \in 0 .. MaxRequests
  BY ClientAssumption DEF Init, InvokeIds
<1>. QED  BY <1>1, <1>2, <1>3 DEF IndInv

LEMMA NextFact == IndInv /\ Next => IndInv' /\ KeepsOutcome
<1>. SUFFICES ASSUME IndInv, Next PROVE IndInv' /\ KeepsOutcome
  OBVIOUS
<1>. DEFINE SeqNums == 0 .. (SeqSpace - 1)
<1>0. SeqNums \subseteq Nat
  BY SegmentationAssumption
<1>1. CASE \E dest \in Peers, size \in Sizes : send_request(dest, size)
  BY <1>1, SendRequestStep
<1>2. CASE \E k \in Keys : finish_request(k)
  BY <1>2, FinishRequestStep
<1>3. CASE \E k \in Keys : cancel_request(k)
  BY <1>3, CancelRequestStep
<1>4. CASE \E k \in Keys : Respond(k)
  <2>1. PICK k \in Keys : Respond(k)
    BY <1>4
  <2>2. CASE \/ handle_simple_ack(k)
             \/ \E d \in Slices : handle_complex_ack(k, <<d>>)
             \/ handle_error(k)
             \/ handle_reject(k)
             \/ handle_abort(k)
    BY <2>2, ResponseStep
  <2>3. CASE \E seq \in SeqNums, aws \in PeerWindows : handle_segment_ack(k, seq, aws)
    BY <2>3, SegmentAckStep
  <2>4. CASE \E seq \in SeqNums, d \in Slices, more \in BOOLEAN, pws \in PeerWindows :
               handle_segmented_complex_ack(k, seq, d, more, pws)
    <3>1. PICK seq \in SeqNums, d \in Slices, more \in BOOLEAN, pws \in PeerWindows :
            handle_segmented_complex_ack(k, seq, d, more, pws)
      BY <2>4
    <3>2. CASE first_response_segment(k, d, more, pws)
      BY <3>2, FirstSegmentStep
    <3>3. CASE next_response_segment(k, seq, d, more)
      BY <1>0, <3>3, NextSegmentStep
    <3>. QED  BY <3>1, <3>2, <3>3 DEF handle_segmented_complex_ack
  <2>. QED  BY <2>1, <2>2, <2>3, <2>4 DEF Respond
<1>5. CASE \E k \in Keys : on_timeout(k)
  BY <1>5, TimeoutStep
<1>6. CASE \E k \in Keys : on_segment_timeout(k)
  BY <1>6, SegmentTimeoutStep
<1>. QED  BY <1>1, <1>2, <1>3, <1>4, <1>5, <1>6 DEF Next

LEMMA StutterFact == IndInv /\ UNCHANGED vars => IndInv'
<1>. QED  BY DEF IndInv, vars

LEMMA SpecFact == Spec => []IndInv
<1>. QED  BY InitFact, NextFact, StutterFact, PTL DEF Spec

-----------------------------------------------------------------------------
(* The properties.                                                         *)

\* The transaction table, the retry counters and the timers keep their types
\* whatever the peers send: in particular neither _on_timeout nor
\* _on_segment_timeout ever retries more than apdu_retries times in a row.
THEOREM TypeCorrect == Spec => []TypeOK
<1>1. IndInv => TypeOK
  BY DEF IndInv, TypeOK, Good, Timers
<1>. QED  BY <1>1, SpecFact, PTL

\* Every pending request has the callback scheduled that acts in its state,
\* and no callback outlives its transaction: _cancel_timeout and the two
\* _start_*timeout calls are placed right on every path of every handler.
THEOREM NoRequestHangs == Spec => []TimerMatchesState
<1>1. IndInv => TimerMatchesState
  BY DEF IndInv, TimerMatchesState, Good, Live
<1>. QED  BY <1>1, SpecFact, PTL

\* A segmented transfer that is still pending has something left to do: the
\* sender an unsent window, the receiver a missing segment.
THEOREM TransfersAreUnfinished == Spec => []SegmentPhases
<1>1. IndInv => SegmentPhases
  BY DEF IndInv, SegmentPhases, Good, PhaseOK
<1>. QED  BY <1>1, SpecFact, PTL

\* The outcome of a request is decided once, by the first response, timeout
\* or cancellation that the code accepts.
THEOREM OutcomeIsFinal == Spec => ResolvedOnce
<1>1. IndInv /\ [Next]_vars => [KeepsOutcome]_vars
  BY NextFact
<1>. QED  BY <1>1, SpecFact, PTL DEF Spec, ResolvedOnce
=============================================================================
