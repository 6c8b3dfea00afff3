---------------------------- MODULE Segmentation ----------------------------
(***************************************************************************)
(* The segmentation and reassembly logic of segmentation/manager.py.       *)
(* A SegmentSender and a SegmentReceiver are records, their methods are    *)
(* operators on those records; the transaction state machines drive them.  *)
(*                                                                         *)
(* A payload is represented by its slices: slice i of the payload p is     *)
(* the value <<p, i>>, and every slice counts as one unit of size.         *)
(***************************************************************************)
EXTENDS Integers, Sequences, FiniteSets, FiniteSetsExt

CONSTANTS
  SeqSpace,        \* number of sequence numbers on the wire (256 in the code)
  MaxReassembly    \* _MAX_REASSEMBLY_SIZE, in units of one slice

ASSUME SegmentationAssumption ==
  /\ SeqSpace \in Nat \ {0}
  /\ MaxReassembly \in Nat \ {0}

-----------------------------------------------------------------------------
(* Sequence number arithmetic.                                             *)

in_window(seq_a, seq_b, actual_window_size) ==
  (seq_a - seq_b) % SeqSpace < actual_window_size

duplicate_in_window(seq_a, seq_b, actual_window_size, proposed_window_size) ==
  /\ actual_window_size < (seq_a - seq_b) % SeqSpace
  /\ proposed_window_size < (seq_a - seq_b) % SeqSpace

-----------------------------------------------------------------------------
(* SegmentSender: total is len(segments), win is _window_start_idx.        *)

NoSender == [total |-> 0, pws |-> 0, aws |-> 0, win |-> 0]

SenderCreate(total, window) ==
  [total |-> total, pws |-> window, aws |-> window, win |-> 0]

\* The indices fill_window() hands out, in increasing order.
WindowEnd(s) == IF s.win + s.aws < s.total THEN s.win + s.aws ELSE s.total

\* Mutant of sender_complete: segments handed out count as acknowledged.
sender_complete_when_sent(s) == WindowEnd(s) >= s.total

sender_complete(s) == s.win >= s.total

\* Every index from the lower bound on that carries this sequence number.
SeqCandidates(s, seq) ==
  { i \in (IF s.win > s.aws THEN s.win - s.aws ELSE 0) .. (s.total - 1) :
      i % SeqSpace = seq }

sender_seq_to_idx(s, seq) ==
  IF SeqCandidates(s, seq) = {} THEN s.win ELSE Min(SeqCandidates(s, seq))

sender_handle_segment_ack(s, ack_seq, actual_window_size) ==
  [s EXCEPT !.win = sender_seq_to_idx(s, ack_seq) + 1,
            !.aws = actual_window_size]

SenderType == [total : Nat, pws : Nat, aws : Nat, win : Nat]

-----------------------------------------------------------------------------
(* SegmentReceiver: segs is the dict of slices by absolute index, exp is   *)
(* _expected_idx, final is _final_idx or NoFinal, last_ack _last_ack_seq.  *)

NoFinal == -1

NoReceiver == [segs |-> <<>>, exp |-> 0, aws |-> 0, pws |-> 0,
               final |-> NoFinal, last_ack |-> 0, win |-> 0]

IsReceiver(r, slices) ==
  /\ r = [segs |-> r.segs, exp |-> r.exp, aws |-> r.aws, pws |-> r.pws,
          final |-> r.final, last_ack |-> r.last_ack, win |-> r.win]
  /\ r.segs = [i \in DOMAIN r.segs |-> r.segs[i]]
  /\ DOMAIN r.segs \subseteq Nat
  /\ IsFiniteSet(DOMAIN r.segs)
  /\ \A i \in DOMAIN r.segs : r.segs[i] \in slices
  /\ r.exp \in Nat /\ r.aws \in Nat /\ r.pws \in Nat /\ r.win \in Nat
  /\ r.final \in Nat \cup {NoFinal}
  /\ r.last_ack \in Nat

\* Everything before _expected_idx is there, _expected_idx itself is not.
Contiguous(r) ==
  0 .. (r.exp - 1) \subseteq DOMAIN r.segs /\ r.exp \notin DOMAIN r.segs

ReceiverCreate(first, proposed_window_size, more_follows, our_window_size) ==
  [segs     |-> [i \in {0} |-> first],
   exp      |-> 1,
   aws      |-> IF our_window_size < proposed_window_size
                THEN our_window_size ELSE proposed_window_size,
   pws      |-> proposed_window_size,
   final    |-> IF more_follows THEN NoFinal ELSE 0,
   last_ack |-> 0,
   win      |-> 1]

receiver_complete(r) == r.final # NoFinal /\ r.exp > r.final

receiver_seq_to_abs_idx(r, seq) ==
  r.exp + ((seq - (r.exp % SeqSpace)) % SeqSpace)

Store(segs, idx, slice) ==
  [i \in DOMAIN segs \cup {idx} |-> IF i = idx THEN slice ELSE segs[i]]

\* Where the while loop that advances _expected_idx stops.
FirstMissing(segs, from) ==
  Min({ i \in from .. (from + Cardinality(DOMAIN segs)) : i \notin DOMAIN segs })

Accepted(r, seq, slice, more_follows) ==
  LET idx  == receiver_seq_to_abs_idx(r, seq)
      segs == Store(r.segs, idx, slice)
  IN  [r EXCEPT !.segs     = segs,
                !.final    = IF more_follows THEN r.final ELSE idx,
                !.exp      = FirstMissing(segs, r.exp),
                !.last_ack = seq]

WindowFilled(r) == r.exp >= r.win + r.aws

(* receive_segment(): the action for the caller, the sequence number to    *)
(* acknowledge and the receiver afterwards.                                *)
receive_segment(r, seq, slice, more_follows) ==
  LET a        == Accepted(r, seq, slice, more_follows)
      exp_seq  == r.exp % SeqSpace
      in       == in_window(seq, exp_seq, r.aws)
      oversize == Cardinality(DOMAIN a.segs) > MaxReassembly
      stored   == in /\ ~oversize
      repeated == ~in /\ duplicate_in_window(seq, exp_seq, r.aws, r.pws)
      moved    == [a EXCEPT !.win = a.exp]
  IN  CASE stored /\ receiver_complete(a) ->
             [action |-> "COMPLETE", ack |-> seq, rcv |-> moved]
        [] stored /\ ~receiver_complete(a) /\ WindowFilled(a) ->
             [action |-> "SEND_ACK", ack |-> seq, rcv |-> moved]
        [] stored /\ ~receiver_complete(a) /\ ~WindowFilled(a) ->
             [action |-> "CONTINUE", ack |-> seq, rcv |-> a]
        [] repeated ->
             [action |-> "RESEND_LAST_ACK", ack |-> r.last_ack, rcv |-> r]
        [] OTHER ->
             [action |-> "ABORT", ack |-> -1,
              rcv |-> IF in THEN [r EXCEPT !.segs = a.segs] ELSE r]

\* The slices in order, 0 to _final_idx.
reassemble(r) == [i \in 1 .. (r.final + 1) |-> r.segs[i - 1]]

=============================================================================
