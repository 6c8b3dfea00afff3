---------------------------- MODULE OperatorFacts ----------------------------
(***************************************************************************)
(* Facts about the operators that the models are built from, which the     *)
(* proofs about the components rest on: folds, and segmentation.           *)
(*                                                                         *)
(* Folds: induction over a sequence that FoldLeft works through; what holds*)
(* of the start and is kept by every step holds of the result.  The step   *)
(* and the invariant are constants of this module, so that an INSTANCE of  *)
(* it gives the theorem for the step and the invariant of a component.     *)
(*                                                                         *)
(* Segmentation: what the operators of the sender and of the receiver do,  *)
(* for every sequence number space, window and payload.                    *)
(***************************************************************************)
EXTENDS Segmentation, SequencesExt, FiniteSetTheorems, WellFoundedInduction, TLAPS

CONSTANTS
  Op(_, _),   \* the step: a state and an element to a state
  Inv(_),     \* what every state satisfies
  Elements    \* what the sequences are made of

Fold(base, seq) == FoldLeft(Op, base, seq)

\* One line of the recursion that FoldLeft is defined by: the element of the
\* highest index of s is taken last.
Line(g, base, seq, s) ==
  IF s = {} THEN base ELSE Op(g[s \ {Max(s)}], seq[Max(s)])

\* The intermediate results, by the set of indices that have been taken.
IsIter(g, base, seq, n) == g = [s \in SUBSET (1 .. n) |-> Line(g, base, seq, s)]

\* A nonempty set of naturals has a least element.
LEMMA LeastNat ==
  ASSUME NEW S \in SUBSET Nat, S # {}
  PROVE  \E x \in S : \A y \in S : x <= y
<1> DEFINE R == { ss \in Nat \X Nat : ss[1] < ss[2] }
<1>1. IsWellFoundedOn(R, Nat)
  BY NatLessThanWellFounded, Zenon DEF OpToRel
<1>2. \E x \in S : \A y \in S : ~ (<<y, x>> \in R)
  <2>. HIDE DEF R
  <2>. QED  BY <1>1, WFMin
<1>3. PICK x \in S : \A y \in S : ~ (<<y, x>> \in R)
  BY <1>2
<1>4. \A y \in S : ~ (y < x)
  BY <1>3
<1>. QED  BY <1>4

\* The highest index of a set of indices that contains n and none above.
LEMMA MaxIs ==
  ASSUME NEW n \in Nat, NEW s \in SUBSET (1 .. n), n \in s
  PROVE  Max(s) = n
<1>1. \A y \in s : y <= n
  OBVIOUS
<1>2. \A x \in s : (\A y \in s : y <= x) => x = n
  BY <1>1
<1>. QED  BY <1>1, <1>2 DEF Max

\* The recursion has a solution, for every length.
LEMMA IterExists ==
  ASSUME NEW base, NEW seq, NEW n \in Nat
  PROVE  \E g : IsIter(g, base, seq, n)
<1>. DEFINE Bad == { m \in Nat : ~ \E g : IsIter(g, base, seq, m) }
<1>. SUFFICES ASSUME Bad # {} PROVE FALSE
  OBVIOUS
<1>1. PICK m \in Bad : \A y \in Bad : m <= y
  <2>. HIDE DEF Bad
  <2>. Bad \in SUBSET Nat
    BY DEF Bad
  <2>. QED  BY LeastNat
<1>2. CASE m = 0
  <2>. DEFINE g == [s \in SUBSET (1 .. 0) |-> base]
  <2>1. \A s \in SUBSET (1 .. 0) : s = {}
    OBVIOUS
  <2>2. IsIter(g, base, seq, 0)
    BY <2>1 DEF IsIter, Line
  <2>. QED  BY <1>2, <2>2
<1>3. CASE m # 0
  <2>1. m \in Nat /\ m - 1 \in Nat /\ m - 1 \notin Bad
    BY <1>1, <1>3
  <2>2. PICK h : IsIter(h, base, seq, m - 1)
    BY <2>1
  <2>. DEFINE g == [s \in SUBSET (1 .. m) |->
                      IF m \in s THEN Op(h[s \ {m}], seq[m]) ELSE h[s]]
  <2>3. \A s \in SUBSET (1 .. m) : m \notin s => s \in SUBSET (1 .. (m - 1))
    BY <2>1
  <2>4. ASSUME NEW s \in SUBSET (1 .. m)
        PROVE  g[s] = Line(g, base, seq, s)
    <3>1. CASE m \in s
      <4>1. Max(s) = m
        BY <2>1, <3>1, MaxIs
      <4>2. s \ {m} \in SUBSET (1 .. m) /\ m \notin s \ {m}
        OBVIOUS
      <4>3. g[s] = Op(h[s \ {m}], seq[m]) /\ g[s \ {m}] = h[s \ {m}]
        BY <3>1, <4>2
      <4>. HIDE DEF g
      <4>. QED  BY <3>1, <4>1, <4>3 DEF Line
    <3>2. CASE m \notin s
      <4>1. s \in SUBSET (1 .. (m - 1)) /\ g[s] = h[s]
        BY <2>3, <3>2
      <4>2. h[s] = Line(h, base, seq, s)
        BY <2>2, <4>1 DEF IsIter
      <4>3. s \ {Max(s)} \in SUBSET (1 .. m) /\ m \notin s \ {Max(s)}
        BY <3>2
      <4>4. g[s \ {Max(s)}] = h[s \ {Max(s)}]
        BY <4>3
      <4>. HIDE DEF g
      <4>. QED  BY <4>1, <4>2, <4>4 DEF Line
    <3>. QED  BY <3>1, <3>2
  <2>5. IsIter(g, base, seq, m)
    <3>1. g = [s \in SUBSET (1 .. m) |-> g[s]]
      OBVIOUS
    <3>. HIDE DEF g
    <3>. QED  BY <2>4, <3>1 DEF IsIter
  <2>. QED  BY <2>5
<1>. QED  BY <1>2, <1>3

\* h goes through the first n elements of seq, one by a step.
Steps(h, seq, n) == \A m \in 1 .. n : h[m] = Op(h[m - 1], seq[m])

\* A fold goes from the base to its result by a step for each element.
LEMMA FoldIsIteration ==
  ASSUME NEW base, NEW seq, NEW n \in Nat, DOMAIN seq = 1 .. n
  PROVE  \E h : h[0] = base /\ h[n] = Fold(base, seq) /\ Steps(h, seq, n)
<1>. DEFINE it == CHOOSE g : IsIter(g, base, seq, n)
            h == [m \in 0 .. n |-> it[1 .. m]]
<1>1. Fold(base, seq) = it[1 .. n]
  <2>1. Fold(base, seq) =
          (CHOOSE g : g = [s \in SUBSET (DOMAIN seq) |->
             IF s = {} THEN base ELSE Op(g[s \ {Max(s)}], seq[Max(s)])])[DOMAIN seq]
    BY DEF Fold, FoldLeft, MapThenFoldSet
  <2>2. Fold(base, seq) =
          (CHOOSE g : g = [s \in SUBSET (1 .. n) |->
             IF s = {} THEN base ELSE Op(g[s \ {Max(s)}], seq[Max(s)])])[1 .. n]
    BY <2>1
  <2>. QED  BY <2>2 DEF IsIter, Line
<1>2. IsIter(it, base, seq, n)
  BY IterExists
<1>. HIDE DEF it
<1>3. ASSUME NEW m \in 0 .. n
      PROVE  it[1 .. m] = Line(it, base, seq, 1 .. m)
  <2>1. (1 .. m) \in SUBSET (1 .. n)
    OBVIOUS
  <2>. QED  BY <1>2, <2>1 DEF IsIter
<1>4. it[1 .. 0] = base
  <2>1. 1 .. 0 = {}
    OBVIOUS
  <2>2. it[1 .. 0] = Line(it, base, seq, 1 .. 0)
    BY <1>3
  <2>. QED  BY <2>1, <2>2 DEF Line
<1>5. ASSUME NEW m \in 1 .. n
      PROVE  it[1 .. m] = Op(it[1 .. (m - 1)], seq[m])
  <2>1. Max(1 .. m) = m
    BY MaxIs
  <2>2. 1 .. m # {} /\ (1 .. m) \ {m} = 1 .. (m - 1)
    OBVIOUS
  <2>3. it[1 .. m] = Line(it, base, seq, 1 .. m)
    BY <1>3
  <2>. QED  BY <2>1, <2>2, <2>3 DEF Line
<1>6. /\ h[0] = it[1 .. 0] /\ h[n] = it[1 .. n]
      /\ \A m \in 1 .. n : h[m] = it[1 .. m] /\ h[m - 1] = it[1 .. (m - 1)]
  OBVIOUS
<1>. HIDE DEF h
<1>. QED  BY <1>1, <1>4, <1>5, <1>6 DEF Steps

\* What holds of the start and is kept by every step holds of the result.
THEOREM FoldInvariant ==
  ASSUME NEW base, NEW seq \in Seq(Elements), Inv(base),
         \A c, e : Inv(c) /\ e \in Elements => Inv(Op(c, e))
  PROVE  Inv(Fold(base, seq))
<1>. DEFINE n == Len(seq)
<1>1. n \in Nat /\ DOMAIN seq = 1 .. n /\ \A i \in 1 .. n : seq[i] \in Elements
  OBVIOUS
<1>. HIDE DEF n
<1>2. PICK h : h[0] = base /\ h[n] = Fold(base, seq) /\ Steps(h, seq, n)
  BY <1>1, FoldIsIteration
<1>. DEFINE Bad == { m \in 0 .. n : ~Inv(h[m]) }
<1>3. Bad = {}
  <2>. SUFFICES ASSUME Bad # {} PROVE FALSE
    OBVIOUS
  <2>1. PICK m \in Bad : \A y \in Bad : m <= y
    <3>. Bad \in SUBSET Nat
      BY <1>1
    <3>. HIDE DEF Bad
    <3>. QED  BY LeastNat
  <2>2. m # 0
    BY <1>2, <2>1
  <2>3. m \in 1 .. n /\ m - 1 \in 0 .. n /\ m - 1 \notin Bad
    BY <1>1, <2>1, <2>2
  <2>4. Inv(h[m - 1]) /\ seq[m] \in Elements
    BY <1>1, <2>3
  <2>. QED  BY <1>2, <2>1, <2>3, <2>4 DEF Steps
<1>4. n \in 0 .. n
  BY <1>1
<1>. QED  BY <1>2, <1>3, <1>4

-----------------------------------------------------------------------------
(* Segmentation.                                                           *)

\* A nonempty set of naturals has a least element, and Min is that element.
LEMMA MinOfNats ==
  ASSUME NEW S \in SUBSET Nat, S # {}
  PROVE  Min(S) \in S /\ \A y \in S : Min(S) <= y
<1>. QED  BY LeastNat DEF Min

\* The while loop of receive_segment() stops at an index that is not stored,
\* with everything it passed over stored: there are only finitely many.
LEMMA FirstMissingFact ==
  ASSUME NEW segs, NEW from \in Nat,
         DOMAIN segs \subseteq Nat, IsFiniteSet(DOMAIN segs)
  PROVE  LET m == FirstMissing(segs, from)
         IN  /\ m \in Nat /\ from <= m
             /\ m \notin DOMAIN segs
             /\ from .. (m - 1) \subseteq DOMAIN segs
<1> DEFINE c == Cardinality(DOMAIN segs)
           G == { i \in from .. (from + c) : i \notin DOMAIN segs }
           m == FirstMissing(segs, from)
<1>1. c \in Nat
  BY FS_CardinalityType
<1>2. G # {}
  <2>1. SUFFICES ASSUME from .. (from + c) \subseteq DOMAIN segs
                 PROVE  FALSE
    OBVIOUS
  <2>2. Cardinality(from .. (from + c)) = c + 1
    BY <1>1, FS_Interval
  <2>3. Cardinality(from .. (from + c)) <= c
    BY <2>1, FS_Subset
  <2>. QED  BY <1>1, <2>2, <2>3
<1>3. G \in SUBSET Nat
  BY <1>1
<1>4. m \in G /\ \A y \in G : m <= y
  <2>1. m = Min(G)
    BY DEF FirstMissing
  <2>. HIDE DEF G, m
  <2>. QED  BY <2>1, <1>2, <1>3, MinOfNats
<1>5. m \in Nat /\ from <= m /\ m <= from + c /\ m \notin DOMAIN segs
  BY <1>1, <1>4
<1>6. ASSUME NEW i \in from .. (m - 1), i \notin DOMAIN segs
      PROVE  FALSE
  <2>. HIDE DEF m
  <2>1. i \in G
    BY <1>1, <1>5, <1>6
  <2>. QED  BY <2>1, <1>4, <1>5, <1>6
<1>. QED  BY <1>5, <1>6

-----------------------------------------------------------------------------
(* The sender.                                                             *)

\* A SegmentACK leaves a well-formed sender: the index _seq_to_idx() finds,
\* or falls back to, is a natural number.
LEMMA SenderAckFact ==
  ASSUME NEW s \in SenderType, NEW seq, NEW aws \in Nat
  PROVE  LET t == sender_handle_segment_ack(s, seq, aws)
         IN  t \in SenderType /\ t.aws = aws /\ t.total = s.total
<1>1. SeqCandidates(s, seq) \in SUBSET Nat
  BY DEF SeqCandidates, SenderType
<1>2. sender_seq_to_idx(s, seq) \in Nat
  BY <1>1, MinOfNats DEF sender_seq_to_idx, SenderType
<1>3. \A i \in Nat : LET t == [s EXCEPT !.win = i, !.aws = aws]
                     IN  t \in SenderType /\ t.aws = aws /\ t.total = s.total
  BY DEF SenderType
<1>4. sender_seq_to_idx(s, seq) + 1 \in Nat
  BY <1>2
<1>. QED  BY <1>3, <1>4 DEF sender_handle_segment_ack

-----------------------------------------------------------------------------
(* The receiver.                                                           *)

\* A new receiver holds the first segment, and is complete exactly when no
\* segment is to follow.
LEMMA ReceiverCreateFact ==
  ASSUME NEW slices, NEW first \in slices, NEW pws \in Nat,
         NEW more \in BOOLEAN, NEW our \in Nat
  PROVE  LET r == ReceiverCreate(first, pws, more, our)
         IN  /\ IsReceiver(r, slices)
             /\ Contiguous(r)
             /\ receiver_complete(r) <=> ~more
<1>1. IsFiniteSet({0})
  BY FS_Singleton
<1>. QED
  BY <1>1 DEF ReceiverCreate, IsReceiver, Contiguous, receiver_complete, NoFinal

\* A sequence number in the window stands for an index at or after
\* _expected_idx, however often the numbers have wrapped around.
LEMMA AbsIdxFact ==
  ASSUME NEW slices, NEW r, IsReceiver(r, slices), NEW seq \in Nat
  PROVE  /\ receiver_seq_to_abs_idx(r, seq) \in Nat
         /\ receiver_seq_to_abs_idx(r, seq) >= r.exp
<1>1. SeqSpace \in Nat \ {0} /\ r.exp \in Nat
  BY SegmentationAssumption DEF IsReceiver
<1> DEFINE e == r.exp % SeqSpace
<1>2. e \in Nat
  BY <1>1
<1>3. (seq - e) % SeqSpace \in Nat
  <2>. HIDE DEF e
  <2>. QED  BY <1>1, <1>2
<1>. QED  BY <1>1, <1>3 DEF receiver_seq_to_abs_idx

\* Storing a segment keeps the receiver well formed and moves _expected_idx
\* to the first index that is still missing.
LEMMA AcceptedFact ==
  ASSUME NEW slices, NEW r, IsReceiver(r, slices), Contiguous(r),
         NEW seq \in Nat, NEW slice \in slices, NEW more \in BOOLEAN
  PROVE  LET a == Accepted(r, seq, slice, more)
         IN  IsReceiver(a, slices) /\ Contiguous(a)
<1> DEFINE idx  == receiver_seq_to_abs_idx(r, seq)
           segs == Store(r.segs, idx, slice)
           fm   == FirstMissing(segs, r.exp)
           a    == Accepted(r, seq, slice, more)
<1>1. idx \in Nat /\ idx >= r.exp
  BY AbsIdxFact
<1>2. /\ DOMAIN segs = DOMAIN r.segs \cup {idx}
      /\ segs = [i \in DOMAIN segs |-> segs[i]]
      /\ \A i \in DOMAIN segs : segs[i] \in slices
  BY DEF Store, IsReceiver
<1>3. DOMAIN segs \subseteq Nat /\ IsFiniteSet(DOMAIN segs)
  BY <1>1, <1>2, FS_AddElement DEF IsReceiver
<1>4. /\ fm \in Nat /\ r.exp <= fm
      /\ fm \notin DOMAIN segs
      /\ r.exp .. (fm - 1) \subseteq DOMAIN segs
  <2>1. r.exp \in Nat
    BY DEF IsReceiver
  <2>. HIDE DEF segs
  <2>. QED  BY <1>3, <2>1, FirstMissingFact
<1>5. a = [segs |-> segs, exp |-> fm, aws |-> r.aws, pws |-> r.pws,
           final |-> IF more THEN r.final ELSE idx, last_ack |-> seq,
           win |-> r.win]
  <2>1. r = [segs |-> r.segs, exp |-> r.exp, aws |-> r.aws, pws |-> r.pws,
             final |-> r.final, last_ack |-> r.last_ack, win |-> r.win]
    BY DEF IsReceiver
  <2>2. a = [r EXCEPT !.segs = segs, !.final = IF more THEN r.final ELSE idx,
                      !.exp = fm, !.last_ack = seq]
    BY DEF Accepted
  <2>. HIDE DEF segs, fm, idx, a
  <2>. QED  BY <2>1, <2>2
<1>6. IsReceiver(a, slices)
  <2>. HIDE DEF segs, fm, idx, a
  <2>. QED  BY <1>1, <1>2, <1>3, <1>4, <1>5 DEF IsReceiver
<1>7. Contiguous(a)
  <2>1. 0 .. (fm - 1) \subseteq DOMAIN segs
    <3>1. 0 .. (r.exp - 1) \subseteq DOMAIN segs
      BY <1>2 DEF Contiguous
    <3>2. r.exp \in Nat
      BY DEF IsReceiver
    <3>. HIDE DEF segs, fm
    <3>. QED  BY <1>4, <3>1, <3>2
  <2>. HIDE DEF segs, fm, a
  <2>. QED  BY <1>4, <1>5, <2>1 DEF Contiguous
<1>. QED  BY <1>6, <1>7

\* receive_segment(): the receiver stays well formed, it is complete exactly
\* when the action is COMPLETE, and unless the transfer is aborted it knows
\* which segment it waits for.
LEMMA ReceiveSegmentFact ==
  ASSUME NEW slices, NEW r, IsReceiver(r, slices), Contiguous(r),
         ~receiver_complete(r),
         NEW seq \in Nat, NEW slice \in slices, NEW more \in BOOLEAN
  PROVE  LET res == receive_segment(r, seq, slice, more)
         IN  /\ IsReceiver(res.rcv, slices)
             /\ res.action \in {"COMPLETE", "SEND_ACK", "CONTINUE",
                                "RESEND_LAST_ACK", "ABORT"}
             /\ res.action # "ABORT" =>
                  /\ Contiguous(res.rcv)
                  /\ receiver_complete(res.rcv) <=> res.action = "COMPLETE"
<1> DEFINE a        == Accepted(r, seq, slice, more)
           inw      == in_window(seq, r.exp % SeqSpace, r.aws)
           oversize == Cardinality(DOMAIN a.segs) > MaxReassembly
           repeated == ~inw /\ duplicate_in_window(seq, r.exp % SeqSpace, r.aws, r.pws)
           moved    == [a EXCEPT !.win = a.exp]
           res      == receive_segment(r, seq, slice, more)
<1>1. IsReceiver(a, slices) /\ Contiguous(a)
  BY AcceptedFact
<1>2. /\ IsReceiver(moved, slices) /\ Contiguous(moved)
      /\ receiver_complete(moved) <=> receiver_complete(a)
  <2>. HIDE DEF a
  <2>1. moved = [segs |-> a.segs, exp |-> a.exp, aws |-> a.aws, pws |-> a.pws,
                 final |-> a.final, last_ack |-> a.last_ack, win |-> a.exp]
    BY <1>1 DEF IsReceiver
  <2>. HIDE DEF moved
  <2>. QED  BY <1>1, <2>1 DEF IsReceiver, Contiguous, receiver_complete
<1>3. IsReceiver([r EXCEPT !.segs = a.segs], slices)
  <2>. HIDE DEF a
  <2>1. [r EXCEPT !.segs = a.segs] =
          [segs |-> a.segs, exp |-> r.exp, aws |-> r.aws, pws |-> r.pws,
           final |-> r.final, last_ack |-> r.last_ack, win |-> r.win]
    BY DEF IsReceiver
  <2>. QED  BY <1>1, <2>1 DEF IsReceiver
<1>4. CASE inw /\ ~oversize /\ receiver_complete(a)
  <2>1. res = [action |-> "COMPLETE", ack |-> seq, rcv |-> moved]
    BY <1>4 DEF receive_segment
  <2>. HIDE DEF moved, a
  <2>. QED  BY <1>2, <1>4, <2>1
<1>5. CASE inw /\ ~oversize /\ ~receiver_complete(a) /\ WindowFilled(a)
  <2>1. res = [action |-> "SEND_ACK", ack |-> seq, rcv |-> moved]
    BY <1>5 DEF receive_segment
  <2>. HIDE DEF moved, a
  <2>. QED  BY <1>2, <1>5, <2>1
<1>6. CASE inw /\ ~oversize /\ ~receiver_complete(a) /\ ~WindowFilled(a)
  <2>1. res = [action |-> "CONTINUE", ack |-> seq, rcv |-> a]
    BY <1>6 DEF receive_segment
  <2>. HIDE DEF moved, a
  <2>. QED  BY <1>1, <1>6, <2>1
<1>7. CASE repeated
  <2>1. res = [action |-> "RESEND_LAST_ACK", ack |-> r.last_ack, rcv |-> r]
    BY <1>7 DEF receive_segment
  <2>. HIDE DEF moved, a
  <2>. QED  BY <2>1
<1>8. CASE ~repeated /\ (~inw \/ oversize)
  <2>1. res = [action |-> "ABORT", ack |-> -1,
               rcv |-> IF inw THEN [r EXCEPT !.segs = a.segs] ELSE r]
    BY <1>8 DEF receive_segment
  <2>. HIDE DEF moved, a, inw
  <2>. QED  BY <1>3, <2>1
<1>. QED  BY <1>4, <1>5, <1>6, <1>7, <1>8

\* A complete receiver reassembles a sequence of the slices it was given.
LEMMA ReassembleFact ==
  ASSUME NEW slices, NEW r, IsReceiver(r, slices), Contiguous(r),
         receiver_complete(r)
  PROVE  reassemble(r) \in Seq(slices)
<1>1. r.final \in Nat /\ r.exp > r.final /\ r.exp \in Nat
  BY DEF receiver_complete, IsReceiver
<1>2. \A i \in 1 .. (r.final + 1) : (i - 1) \in DOMAIN r.segs
  BY <1>1 DEF Contiguous
<1>3. \A i \in 1 .. (r.final + 1) : r.segs[i - 1] \in slices
  BY <1>2 DEF IsReceiver
<1>. QED  BY <1>1, <1>3 DEF reassemble

\* What has been received in order is final: no later segment, duplicate or
\* retransmission changes a slice before _expected_idx, and _expected_idx
\* never moves back.
THEOREM PrefixIsStable ==
  ASSUME NEW slices, NEW r, IsReceiver(r, slices), Contiguous(r),
         NEW seq \in Nat, NEW slice \in slices, NEW more \in BOOLEAN
  PROVE  LET a == Accepted(r, seq, slice, more)
         IN  /\ a.exp >= r.exp
             /\ \A i \in 0 .. (r.exp - 1) : a.segs[i] = r.segs[i]
<1> DEFINE idx  == receiver_seq_to_abs_idx(r, seq)
           segs == Store(r.segs, idx, slice)
<1>1. idx \in Nat /\ idx >= r.exp /\ r.exp \in Nat
  BY AbsIdxFact DEF IsReceiver
<1>2. /\ Accepted(r, seq, slice, more).segs = segs
      /\ Accepted(r, seq, slice, more).exp = FirstMissing(segs, r.exp)
  <2>1. r = [segs |-> r.segs, exp |-> r.exp, aws |-> r.aws, pws |-> r.pws,
             final |-> r.final, last_ack |-> r.last_ack, win |-> r.win]
    BY DEF IsReceiver
  <2>. QED  BY <2>1 DEF Accepted
<1>3. DOMAIN segs \subseteq Nat /\ IsFiniteSet(DOMAIN segs)
  BY <1>1, FS_AddElement DEF IsReceiver, Store
<1>4. FirstMissing(segs, r.exp) >= r.exp
  <2>. HIDE DEF segs
  <2>. QED  BY <1>1, <1>3, FirstMissingFact
<1>5. \A i \in 0 .. (r.exp - 1) : segs[i] = r.segs[i]
  BY <1>1 DEF Store, Contiguous
<1>. QED  BY <1>2, <1>4, <1>5
=============================================================================
