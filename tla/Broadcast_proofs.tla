--------------------------- MODULE Broadcast_proofs ---------------------------
(***************************************************************************)
(* Proofs of the safety properties of Broadcast, in both families and for  *)
(* any number of subnets, BBMDs, foreign devices and broadcasts, whatever  *)
(* is lost or overtaken, restarted or written to the tables.               *)
(*                                                                         *)
(* Base (types, and what the datagrams on the way must be) holds without   *)
(* hypotheses.  Each property adds an invariant to it: CallsOK that what is *)
(* on the way between a caller and the station it asked is of the call, if *)
(* it is not crossed, OnceInv that no two datagrams    *)
(* can still get to the same station, RenewalInv that a renewal is on the  *)
(* way or due before the entry expires, ReachInv that whoever has not got  *)
(* a broadcast is ahead of a datagram that carries it.                     *)
(***************************************************************************)
EXTENDS Broadcast, FiniteSetTheorems, TLAPS

-----------------------------------------------------------------------------
(* Bags of datagrams and of deliveries.                                    *)

Copies(B, e) == IF e \in DOMAIN B THEN B[e] ELSE 0

LEMMA AddedToBag ==
  ASSUME NEW B, IsABag(B), NEW S
  PROVE  /\ IsABag(B (+) SetToBag(S))
         /\ DOMAIN (B (+) SetToBag(S)) = DOMAIN B \cup S
         /\ \A e : Copies(B (+) SetToBag(S), e) = Copies(B, e) + (IF e \in S THEN 1 ELSE 0)
BY DEF IsABag, SetToBag, (+), Copies

LEMMA TakenFromBag ==
  ASSUME NEW B, IsABag(B), NEW x
  PROVE  /\ IsABag(B (-) SetToBag({x}))
         /\ DOMAIN (B (-) SetToBag({x})) \subseteq DOMAIN B
         /\ DOMAIN B \subseteq DOMAIN (B (-) SetToBag({x})) \cup {x}
         /\ Copies(B, x) = 1 => x \notin DOMAIN (B (-) SetToBag({x}))
         /\ \A e : e # x => Copies(B (-) SetToBag({x}), e) = Copies(B, e)
BY DEF IsABag, SetToBag, (-), Copies

-----------------------------------------------------------------------------
(* What holds without further hypotheses.                                  *)

Carries(f) == f.fn \in {"original", "forwarded", "distribute"}

(* A datagram on the way is one that a station may have sent.              *)
FrameOK(f) ==
  /\ f.src \in Stations /\ f.dst \in Stations /\ f.src # f.dst
  /\ Carries(f) => f.npdu \in DOMAIN origin
  /\ f.fn = "original" => origin[f.npdu] = f.src /\ Home[f.dst] = Home[f.src]
  /\ f.fn = "forwarded" => origin[f.npdu] = f.orig /\ f.src \in BBMDs
  /\ f.fn = "distribute" => origin[f.npdu] = f.src
  /\ f.fn \in {"distribute", "register"} => f.src \in Foreign /\ f.dst = BBMDOf[f.src]
  /\ f.fn = "write" => family = "v4" /\ f.orig \in Tables[directed]

(* The calls, and what is pending                                          *)
CallsTyped ==
  /\ \A c \in DOMAIN call :
       /\ call[c] = [caller |-> call[c].caller, station |-> call[c].station,
                     op |-> call[c].op, answer |-> call[c].answer]
       /\ call[c].caller \in Managers /\ call[c].station \in Stations
  /\ \A k \in DOMAIN pending : pending[k] \in DOMAIN call /\ Key(pending[k]) = k
  /\ crossed \subseteq DOMAIN call
  /\ events \in Nat /\ DOMAIN call \subseteq 1 .. events

(* What a BBMD uses is what it has saved.                                  *)
BackupIsCurrent == \A b \in BBMDs : bdt[b] = backup[b]

TypesOK ==
  /\ family \in {"v4", "v6"}
  /\ IF family = "v4" THEN directed \in Masks ELSE directed = {}
  /\ bdt \in [BBMDs -> SUBSET BBMDs] /\ BackupIsCurrent
  /\ DOMAIN fdt = BBMDs
  /\ \A b \in BBMDs : \A t \in DOMAIN fdt[b] :
       t \in Foreign /\ BBMDOf[t] = b /\ fdt[b][t] \in Nat
  /\ backup \in [BBMDs -> SUBSET BBMDs] /\ cleanup \in [BBMDs -> Nat]
  /\ attached \subseteq Foreign /\ registered \subseteq attached
  /\ renewal \in [Foreign -> Nat]
  /\ dropped \subseteq Foreign

SentOK ==
  /\ IsFiniteSet(DOMAIN origin) /\ DOMAIN origin = 1 .. Cardinality(DOMAIN origin)
  /\ \A i \in DOMAIN origin : origin[i] \in Stations
  /\ IsABag(frames) /\ \A f \in DOMAIN frames : FrameOK(f)
  /\ IsABag(got) /\ \A g \in DOMAIN got : g.npdu \in DOMAIN origin
  /\ OriginIsTold
  /\ calm \subseteq DOMAIN origin

Base == TypesOK /\ SentOK

LEMMA BaseIsTyped == Base /\ CallsTyped => TypeOK
BY StationsAssumption DEF Base, TypesOK, CallsTyped, SentOK, TypeOK, FrameOK, BagToSet

-----------------------------------------------------------------------------
(* Datagrams that are added and taken away.                                *)

LEMMA SendingAdds ==
  ASSUME IsABag(frames), NEW out, Sending(out)
  PROVE  /\ IsABag(frames') /\ DOMAIN frames' = DOMAIN frames \cup out
         /\ \A e : Copies(frames', e) = Copies(frames, e) + (IF e \in out THEN 1 ELSE 0)
BY AddedToBag DEF Sending

LEMMA AnsweringReplaces ==
  ASSUME IsABag(frames), NEW f, NEW out, Answering(f, out)
  PROVE  /\ IsABag(frames') /\ DOMAIN frames' \subseteq DOMAIN frames \cup out
         /\ (DOMAIN frames \ {f}) \cup out \subseteq DOMAIN frames'
         /\ Copies(frames, f) = 1 => DOMAIN frames' = (DOMAIN frames \ {f}) \cup out
         /\ \A e : e # f =>
              Copies(frames', e) = Copies(frames, e) + (IF e \in out THEN 1 ELSE 0)
         /\ Copies(frames, f) = 1 => Copies(frames', f) = (IF f \in out THEN 1 ELSE 0)
<1>. DEFINE rest == frames (-) SetToBag({f})
<1>1. /\ IsABag(rest) /\ DOMAIN rest \subseteq DOMAIN frames
      /\ DOMAIN frames \subseteq DOMAIN rest \cup {f}
      /\ Copies(frames, f) = 1 => f \notin DOMAIN rest
      /\ \A e : e # f => Copies(rest, e) = Copies(frames, e)
  BY TakenFromBag
<1>2. /\ IsABag(frames') /\ DOMAIN frames' = DOMAIN rest \cup out
      /\ \A e : Copies(frames', e) = Copies(rest, e) + (IF e \in out THEN 1 ELSE 0)
  <2>1. frames' = rest (+) SetToBag(out)
    BY DEF Answering, rest
  <2>. HIDE DEF rest
  <2>2. IsABag(rest)
    BY <1>1
  <2>3. /\ IsABag(rest (+) SetToBag(out))
        /\ DOMAIN (rest (+) SetToBag(out)) = DOMAIN rest \cup out
        /\ \A e : Copies(rest (+) SetToBag(out), e)
                    = Copies(rest, e) + (IF e \in out THEN 1 ELSE 0)
    BY <2>2, AddedToBag
  <2>. QED  BY <2>1, <2>3
<1>3. Copies(frames, f) = 1 => Copies(rest, f) = 0
  BY <1>1 DEF Copies
<1>. HIDE DEF rest
<1>. QED  BY <1>1, <1>2, <1>3

LEMMA DeliverAdds ==
  ASSUME IsABag(got), NEW s, NEW n, NEW src, Deliver(s, n, src)
  PROVE  /\ IsABag(got')
         /\ DOMAIN got' = DOMAIN got \cup {[to |-> s, npdu |-> n, src |-> src]}
         /\ \A e : Copies(got', e) =
                     Copies(got, e) + (IF e = [to |-> s, npdu |-> n, src |-> src] THEN 1 ELSE 0)
<1>. DEFINE d == [to |-> s, npdu |-> n, src |-> src]
<1>1. /\ IsABag(got (+) SetToBag({d})) /\ DOMAIN (got (+) SetToBag({d})) = DOMAIN got \cup {d}
      /\ \A e : Copies(got (+) SetToBag({d}), e) = Copies(got, e) + (IF e \in {d} THEN 1 ELSE 0)
  BY AddedToBag
<1>. QED  BY <1>1 DEF Deliver

LEMMA SentStays ==
  ASSUME SentOK, UNCHANGED <<config, origin>>, calm' \subseteq calm,
         IsABag(frames'), NEW out, DOMAIN frames' \subseteq DOMAIN frames \cup out,
         \A e \in out : FrameOK(e),
         \/ got' = got
         \/ \E s, src : \E n \in DOMAIN origin :
              Deliver(s, n, src) /\ (family = "v4" => src = origin[n])
  PROVE  SentOK'
<1>1. \A f \in DOMAIN frames' : FrameOK(f)'
  BY DEF SentOK, FrameOK, Carries, config
<1>2. /\ IsABag(got')
      /\ \A g \in DOMAIN got' : /\ g.npdu \in DOMAIN origin
                                /\ family = "v4" => g.src = origin[g.npdu]
  <2>1. CASE got' = got
    BY <2>1 DEF SentOK, OriginIsTold, BagToSet
  <2>2. ASSUME NEW s, NEW src, NEW n \in DOMAIN origin, Deliver(s, n, src),
               family = "v4" => src = origin[n]
        PROVE  /\ IsABag(got')
               /\ \A g \in DOMAIN got' : /\ g.npdu \in DOMAIN origin
                                         /\ family = "v4" => g.src = origin[g.npdu]
    <3>1. IsABag(got)
      BY DEF SentOK
    <3>2. /\ IsABag(got')
          /\ DOMAIN got' = DOMAIN got \cup {[to |-> s, npdu |-> n, src |-> src]}
      BY <2>2, <3>1, DeliverAdds
    <3>. QED  BY <2>2, <3>2 DEF SentOK, OriginIsTold, BagToSet
  <2>. QED  BY <2>1, <2>2
<1>3. OriginIsTold'
  BY <1>2 DEF OriginIsTold, config, BagToSet
<1>. QED  BY <1>1, <1>2, <1>3 DEF SentOK

-----------------------------------------------------------------------------
(* What a BBMD sends on.                                                   *)

LEMMA WireFrames ==
  ASSUME NEW fn, NEW src, NEW s, NEW orig, NEW n, NEW e \in Wire(fn, src, s, orig, n)
  PROVE  /\ e.fn = fn /\ e.src = src /\ e.orig = orig /\ e.npdu = n
         /\ e.dst \in Stations /\ Home[e.dst] = Home[s] /\ e.dst # src
<1>1. PICK t \in Subnet(s) \ {src} : e = Datagram(fn, src, t, orig, n, "")
  BY DEF Wire
<1>. QED  BY <1>1 DEF Datagram, Subnet

Onward(b, orig, n, exclude) ==
  forward_to_peers_and_fds(b, orig, n, exclude)
    \cup forward_to_peers_and_fds6(b, orig, n, exclude)

LEMMA OnwardFrames ==
  ASSUME TypesOK, NEW b \in BBMDs, NEW orig, NEW n, NEW exclude,
         NEW e \in Onward(b, orig, n, exclude)
  PROVE  /\ e.fn = "forwarded" /\ e.src = b /\ e.orig = orig /\ e.npdu = n
         /\ e.dst \in Stations \ {b}
         /\ \/ e.dst \in DOMAIN fdt[b] \ {exclude}
            \/ \E p \in bdt[b] \ {b} :
                 \/ e.dst = p /\ p # orig
                 \/ e \in Wire("forwarded", b, p, orig, n) /\ p \in directed
<1>0. bdt[b] \subseteq Stations /\ DOMAIN fdt[b] \subseteq Stations \ {b}
  BY StationsAssumption DEF TypesOK
<1>1. ASSUME e \in ForwardToFDs(b, orig, n, exclude)
      PROVE  /\ e.fn = "forwarded" /\ e.src = b /\ e.orig = orig /\ e.npdu = n
             /\ e.dst \in Stations \ {b} /\ e.dst \in DOMAIN fdt[b] \ {exclude}
  <2>1. PICK t \in DOMAIN fdt[b] \ {exclude} : e = Datagram("forwarded", b, t, orig, n, "")
    BY <1>1 DEF ForwardToFDs
  <2>. QED  BY <1>0, <2>1 DEF Datagram
<1>2. ASSUME NEW p \in bdt[b] \ {b},
             \/ p # orig /\ e = Datagram("forwarded", b, p, orig, n, "")
             \/ p \in directed /\ e \in Wire("forwarded", b, p, orig, n)
      PROVE  /\ e.fn = "forwarded" /\ e.src = b /\ e.orig = orig /\ e.npdu = n
             /\ e.dst \in Stations \ {b}
             /\ \/ e.dst = p /\ p # orig
                \/ e \in Wire("forwarded", b, p, orig, n) /\ p \in directed
  <2>1. CASE p # orig /\ e = Datagram("forwarded", b, p, orig, n, "")
    BY <1>0, <2>1 DEF Datagram
  <2>2. CASE p \in directed /\ e \in Wire("forwarded", b, p, orig, n)
    <3>1. /\ e.fn = "forwarded" /\ e.src = b /\ e.orig = orig /\ e.npdu = n
          /\ e.dst \in Stations /\ Home[e.dst] = Home[p] /\ e.dst # b
      BY <2>2, WireFrames
    <3>. QED  BY <2>2, <3>1
  <2>. QED  BY <1>2, <2>1, <2>2
<1>3. CASE e \in forward_to_peers_and_fds(b, orig, n, exclude)
  <2>1. CASE \E p \in bdt[b] \ {b} :
               (p # orig \/ p \in directed) /\ e \in compute_forward_address(b, p, orig, n)
    BY <2>1, <1>2 DEF compute_forward_address
  <2>. QED  BY <1>1, <1>3, <2>1 DEF forward_to_peers_and_fds
<1>4. CASE e \in forward_to_peers_and_fds6(b, orig, n, exclude)
  <2>1. CASE \E p \in bdt[b] \ {b} : p # orig /\ e = Datagram("forwarded", b, p, orig, n, "")
    BY <2>1, <1>2
  <2>. QED  BY <1>1, <1>4, <2>1 DEF forward_to_peers_and_fds6
<1>. QED  BY <1>3, <1>4 DEF Onward

LEMMA OnwardOK ==
  ASSUME TypesOK, NEW b \in BBMDs, NEW n \in DOMAIN origin, NEW exclude,
         NEW e \in Onward(b, origin[n], n, exclude)
  PROVE  FrameOK(e) /\ e.fn = "forwarded" /\ e.npdu = n
<1>1. /\ e.fn = "forwarded" /\ e.src = b /\ e.orig = origin[n] /\ e.npdu = n
      /\ e.dst \in Stations \ {b}
  BY OnwardFrames
<1>. QED  BY <1>1, StationsAssumption DEF FrameOK

LEMMA RewiredOK ==
  ASSUME NEW b \in BBMDs, NEW n \in DOMAIN origin,
         NEW e \in Wire("forwarded", b, b, origin[n], n)
  PROVE  FrameOK(e) /\ e.fn = "forwarded" /\ e.npdu = n
<1>1. /\ e.fn = "forwarded" /\ e.src = b /\ e.orig = origin[n] /\ e.npdu = n
      /\ e.dst \in Stations /\ e.dst # b
  BY WireFrames
<1>. QED  BY <1>1, StationsAssumption DEF FrameOK

LEMMA ResultOK ==
  ASSUME NEW n, NEW b \in Stations, NEW s \in Stations \ {b}, NEW code, NEW re,
         NEW e \in ResultOf(n, b, s, code, re)
  PROVE  /\ FrameOK(e) /\ e.fn = "result" /\ e.src = b /\ e.dst = s /\ e.npdu = n
         /\ e.orig = code /\ e.arg = re
BY DEF FrameOK, ResultOf, Datagram, Carries

-----------------------------------------------------------------------------
(* Each action keeps Base.                                                 *)

LEMMA Config ==
  ASSUME TypesOK, UNCHANGED <<config, tables, devices, dropped>>
  PROVE  TypesOK'
BY DEF TypesOK, config, tables, devices, BackupIsCurrent

(* A datagram f is replaced by others, and what it carried may be given to *)
(* the network layer.                                                      *)
LEMMA ReplacedStays ==
  ASSUME SentOK, UNCHANGED <<config, origin>>, calm' \subseteq calm,
         NEW f, NEW out, Answering(f, out), \A e \in out : FrameOK(e),
         \/ got' = got
         \/ \E s, src : \E n \in DOMAIN origin :
              Deliver(s, n, src) /\ (family = "v4" => src = origin[n])
  PROVE  SentOK'
<1>1. IsABag(frames') /\ DOMAIN frames' \subseteq DOMAIN frames \cup out
  BY AnsweringReplaces DEF SentOK
<1>. QED  BY <1>1, SentStays

LEMMA AddedStays ==
  ASSUME SentOK, UNCHANGED <<config, origin, got>>, calm' \subseteq calm,
         NEW out, Sending(out), \A e \in out : FrameOK(e)
  PROVE  SentOK'
<1>1. IsABag(frames') /\ DOMAIN frames' \subseteq DOMAIN frames \cup out
  BY SendingAdds DEF SentOK
<1>. QED  BY <1>1, SentStays

LEMMA OriginalKeepsBase ==
  ASSUME Base, NEW f \in Arrived("original"), handle_original_broadcast(f)
  PROVE  Base'
<1>1. f \in DOMAIN frames /\ f.fn = "original" /\ FrameOK(f)
  BY DEF Arrived, BagToSet, Base, SentOK
<1>2. f.npdu \in DOMAIN origin /\ origin[f.npdu] = f.src
  BY <1>1 DEF FrameOK, Carries
<1>3. TypesOK'
  BY Config DEF Base, handle_original_broadcast
<1>4. PICK out : Answering(f, out) /\ \A e \in out : FrameOK(e)
  <2>1. CASE f.dst \in BBMDs
    <3>1. \A e \in Forwarding(f.dst, f.src, f.npdu, NULL) : FrameOK(e)
      BY <1>2, <2>1, OnwardOK DEF Forwarding, Onward, Base
    <3>. QED  BY <2>1, <3>1 DEF handle_original_broadcast
  <2>2. CASE f.dst \notin BBMDs
    BY <2>2 DEF handle_original_broadcast
  <2>. QED  BY <2>1, <2>2
<1>5. SentOK'
  BY <1>2, <1>4, ReplacedStays DEF Base, handle_original_broadcast
<1>. QED  BY <1>3, <1>5 DEF Base

LEMMA ForwardedKeepsBase ==
  ASSUME Base, NEW f \in Arrived("forwarded"),
         \/ family = "v4" /\ handle_forwarded_npdu(f) /\ f.dst \in BBMDs
         \/ family = "v6" /\ handle_forwarded_npdu6(f) /\ f.dst \in BBMDs
         \/ family = "v4" /\ receive_forwarded(f)
         \/ family = "v6" /\ receive_forwarded6(f)
  PROVE  Base'
<1>1. f \in DOMAIN frames /\ f.fn = "forwarded" /\ FrameOK(f)
  BY DEF Arrived, BagToSet, Base, SentOK
<1>2. f.npdu \in DOMAIN origin /\ origin[f.npdu] = f.orig
  BY <1>1 DEF FrameOK, Carries
<1>3. TypesOK'
  BY Config DEF Base, handle_forwarded_npdu, handle_forwarded_npdu6,
                receive_forwarded, receive_forwarded6
<1>4. PICK out : Answering(f, out) /\ \A e \in out : FrameOK(e)
  <2>1. CASE f.dst \in BBMDs
    <3>1. \A e \in ForwardToFDs(f.dst, f.orig, f.npdu, f.orig) : FrameOK(e)
      BY <1>2, <2>1, OnwardOK DEF Onward, forward_to_peers_and_fds6, Base
    <3>2. \A e \in Wire("forwarded", f.dst, f.dst, f.orig, f.npdu) : FrameOK(e)
      BY <1>2, <2>1, RewiredOK
    <3>3. \/ Answering(f, {})
          \/ Answering(f, ForwardToFDs(f.dst, f.orig, f.npdu, f.orig))
          \/ Answering(f, ForwardToFDs(f.dst, f.orig, f.npdu, f.orig)
                            \cup Wire("forwarded", f.dst, f.dst, f.orig, f.npdu))
      BY DEF handle_forwarded_npdu, handle_forwarded_npdu6, receive_forwarded, receive_forwarded6
    <3>. QED  BY <3>1, <3>2, <3>3
  <2>2. CASE f.dst \notin BBMDs
    BY <2>2 DEF receive_forwarded, receive_forwarded6
  <2>. QED  BY <2>1, <2>2
<1>5. \/ got' = got
      \/ \E s, src : \E n \in DOMAIN origin :
           Deliver(s, n, src) /\ (family = "v4" => src = origin[n])
  BY <1>2 DEF handle_forwarded_npdu, handle_forwarded_npdu6, receive_forwarded, receive_forwarded6
<1>6. UNCHANGED <<config, origin, calm>>
  BY DEF handle_forwarded_npdu, handle_forwarded_npdu6, receive_forwarded, receive_forwarded6
<1>7. SentOK'
  BY <1>4, <1>5, <1>6, ReplacedStays DEF Base
<1>. QED  BY <1>3, <1>7 DEF Base

LEMMA DistributeKeepsBase ==
  ASSUME Base, NEW f \in Arrived("distribute"),
         handle_distribute_broadcast(f) \/ handle_distribute_broadcast6(f)
  PROVE  Base'
<1>1. f \in DOMAIN frames /\ f.fn = "distribute" /\ FrameOK(f)
  BY DEF Arrived, BagToSet, Base, SentOK
<1>2. /\ f.npdu \in DOMAIN origin /\ origin[f.npdu] = f.src
      /\ f.dst \in BBMDs /\ f.src \in Stations /\ f.dst \in Stations \ {f.src}
  BY <1>1, StationsAssumption DEF FrameOK, Carries
<1>3. TypesOK'
  BY Config DEF Base, handle_distribute_broadcast, handle_distribute_broadcast6
<1>4. PICK out : Answering(f, out) /\ \A e \in out : FrameOK(e)
  <2>1. \A e \in Result(f.dst, f.src, "nak", "distribute") : FrameOK(e)
    BY <1>2, ResultOK DEF Result
  <2>2. \A e \in Onward(f.dst, f.src, f.npdu, f.src) : FrameOK(e)
    BY <1>2, OnwardOK DEF Base
  <2>3. \A e \in Wire("forwarded", f.dst, f.dst, f.src, f.npdu) : FrameOK(e)
    BY <1>2, RewiredOK
  <2>4. \/ Answering(f, Result(f.dst, f.src, "nak", "distribute"))
        \/ Answering(f, forward_to_peers_and_fds(f.dst, f.src, f.npdu, f.src))
        \/ Answering(f, forward_to_peers_and_fds6(f.dst, f.src, f.npdu, f.src)
                          \cup Wire("forwarded", f.dst, f.dst, f.src, f.npdu))
    BY DEF handle_distribute_broadcast, handle_distribute_broadcast6
  <2>. QED  BY <2>1, <2>2, <2>3, <2>4 DEF Onward
<1>5. \/ got' = got
      \/ \E s, src : \E n \in DOMAIN origin :
           Deliver(s, n, src) /\ (family = "v4" => src = origin[n])
  BY <1>2 DEF handle_distribute_broadcast, handle_distribute_broadcast6
<1>6. UNCHANGED <<config, origin, calm>>
  BY DEF handle_distribute_broadcast, handle_distribute_broadcast6
<1>7. SentOK'
  BY <1>4, <1>5, <1>6, ReplacedStays DEF Base
<1>. QED  BY <1>3, <1>7 DEF Base

(* Handlers that give nothing to the network layer                         *)
LEMMA AnswerKeepsBase ==
  ASSUME Base, TypesOK', UNCHANGED <<config, origin, got>>, calm' \subseteq calm,
         NEW f, NEW out, Answering(f, out), \A e \in out : FrameOK(e)
  PROVE  Base'
BY ReplacedStays DEF Base

LEMMA RegisterKeepsBase ==
  ASSUME Base, NEW f \in Arrived("register"),
         handle_register_foreign_device(f) \/ handle_register_foreign_device6(f)
  PROVE  Base'
<1>1. f \in DOMAIN frames /\ f.fn = "register" /\ FrameOK(f)
  BY DEF Arrived, BagToSet, Base, SentOK
<1>2. f.src \in Foreign /\ f.dst = BBMDOf[f.src] /\ f.dst \in BBMDs
      /\ f.src \in Stations /\ f.dst \in Stations \ {f.src}
  BY <1>1, StationsAssumption DEF FrameOK, Carries
<1>3. PICK lifetime \in Nat : Entered(f, lifetime)
  BY <1>2, TimesAssumption DEF handle_register_foreign_device, handle_register_foreign_device6
<1>4. PICK out : Answering(f, out) /\ \A e \in out : FrameOK(e)
  <2>1. \A e \in Result(f.dst, f.src, "nak", "register") \cup
                 Result(f.dst, f.src, "ok", "register") : FrameOK(e)
    BY <1>2, ResultOK DEF Result
  <2>. QED  BY <1>3, <2>1 DEF Entered
<1>5. TypesOK'
  <2>1. UNCHANGED <<config, bdt, backup, cleanup, devices>> /\ dropped' \subseteq dropped
    BY <1>3 DEF Entered
  <2>2. /\ DOMAIN fdt' = BBMDs
        /\ \A b \in BBMDs : \A t \in DOMAIN fdt'[b] :
             t \in Foreign /\ BBMDOf[t] = b /\ fdt'[b][t] \in Nat
    <3>1. CASE fdt' = fdt
      BY <3>1 DEF Base, TypesOK
    <3>2. CASE fdt' = [fdt EXCEPT ![f.dst] = [t \in DOMAIN @ \cup {f.src} |->
                                         IF t = f.src THEN lifetime ELSE @[t]]]
      BY <1>2, <3>2 DEF Base, TypesOK
    <3>. QED  BY <1>3, <3>1, <3>2 DEF Entered
  <2>. QED  BY <2>1, <2>2 DEF Base, TypesOK, config, devices, BackupIsCurrent
<1>6. UNCHANGED <<config, origin, got>> /\ calm' \subseteq calm
  BY <1>3 DEF Entered
<1>. QED  BY <1>4, <1>5, <1>6, AnswerKeepsBase

LEMMA DeleteKeepsBase ==
  ASSUME Base, NEW f \in Arrived("delete"), f.dst \in BBMDs, handle_delete_fdt_entry(f)
  PROVE  Base'
<1>1. f \in DOMAIN frames /\ FrameOK(f)
  BY DEF Arrived, BagToSet, Base, SentOK
<1>2. f.dst \in Stations /\ f.src \in Stations \ {f.dst}
  BY <1>1 DEF FrameOK
<1>3. PICK out : Answering(f, out) /\ \A e \in out : FrameOK(e)
  <2>1. PICK code : Answering(f, ResultOf(f.npdu, f.dst, f.src, code, "delete"))
    BY DEF handle_delete_fdt_entry
  <2>. QED  BY <1>2, <2>1, ResultOK
<1>4. TypesOK'
  <2>1. UNCHANGED <<config, bdt, backup, cleanup, devices>>
    BY DEF handle_delete_fdt_entry
  <2>2. /\ DOMAIN fdt' = BBMDs
        /\ \A b \in BBMDs : \A t \in DOMAIN fdt'[b] :
             t \in Foreign /\ BBMDOf[t] = b /\ fdt'[b][t] \in Nat
    BY DEF Base, TypesOK, handle_delete_fdt_entry, Without
  <2>3. dropped' \subseteq Foreign
    BY DEF Base, TypesOK, handle_delete_fdt_entry
  <2>. QED  BY <2>1, <2>2, <2>3 DEF Base, TypesOK, config, devices, BackupIsCurrent
<1>5. UNCHANGED <<config, origin, got>> /\ calm' \subseteq calm
  BY DEF handle_delete_fdt_entry
<1>. QED  BY <1>3, <1>4, <1>5, AnswerKeepsBase

LEMMA WriteKeepsBase ==
  ASSUME Base, NEW f \in Arrived("write"), f.dst \in BBMDs, handle_write_bdt(f)
  PROVE  Base'
<1>1. f \in DOMAIN frames /\ f.fn = "write" /\ FrameOK(f)
  BY DEF Arrived, BagToSet, Base, SentOK
<1>2. /\ f.dst \in Stations /\ f.src \in Stations \ {f.dst}
      /\ f.orig \in Tables[directed] /\ directed \in Masks
  BY <1>1 DEF FrameOK, Base, TypesOK
<1>3. PICK out : Answering(f, out) /\ \A e \in out : FrameOK(e)
  <2>1. PICK code : Answering(f, ResultOf(f.npdu, f.dst, f.src, code, "write"))
    BY DEF handle_write_bdt
  <2>. QED  BY <1>2, <2>1, ResultOK
<1>4. TypesOK'
  <2>1. UNCHANGED <<config, fdt, cleanup, devices, dropped>>
    BY DEF handle_write_bdt
  <2>2. /\ bdt' \in [BBMDs -> SUBSET BBMDs] /\ backup' \in [BBMDs -> SUBSET BBMDs]
        /\ \A b \in BBMDs : bdt'[b] = backup'[b]
    <3>1. f.orig \in SUBSET BBMDs
      BY <1>2, StationsAssumption
    <3>2. CASE UNCHANGED <<bdt, backup>>
      BY <3>2 DEF Base, TypesOK, BackupIsCurrent
    <3>3. CASE /\ bdt' = [bdt EXCEPT ![f.dst] = f.orig]
               /\ backup' = [backup EXCEPT ![f.dst] = f.orig]
      BY <3>1, <3>3 DEF Base, TypesOK, BackupIsCurrent
    <3>. QED  BY <3>2, <3>3 DEF handle_write_bdt
  <2>. QED  BY <2>1, <2>2 DEF Base, TypesOK, config, devices, BackupIsCurrent
<1>5. UNCHANGED <<config, origin, got>> /\ calm' \subseteq calm
  BY DEF handle_write_bdt
<1>. QED  BY <1>3, <1>4, <1>5, AnswerKeepsBase

LEMMA RequestFrame ==
  ASSUME Base, NEW fn \in {"read", "write", "delete"}, NEW f \in Arrived(fn)
  PROVE  /\ f \in DOMAIN frames /\ f.fn = fn
         /\ f.dst \in Stations /\ f.src \in Stations \ {f.dst}
BY DEF Arrived, BagToSet, Base, SentOK, FrameOK

LEMMA ReadKeepsBase ==
  ASSUME Base, NEW fn \in {"read", "write", "delete"}, NEW f \in Arrived(fn),
         handle_read(f) \/ send_bvlc_nak(f)
  PROVE  Base'
<1>1. f.dst \in Stations /\ f.src \in Stations \ {f.dst}
  BY RequestFrame
<1>2. PICK out : Answering(f, out) /\ \A e \in out : FrameOK(e)
  <2>1. FrameOK(Datagram("ack", f.dst, f.src, NULL, f.npdu, f.arg))
    BY <1>1 DEF FrameOK, Datagram, Carries
  <2>2. \A e \in ResultOf(f.npdu, f.dst, f.src, "nak", f.arg) : FrameOK(e)
    BY <1>1, ResultOK
  <2>. QED  BY <2>1, <2>2 DEF handle_read, send_bvlc_nak
<1>3. TypesOK'
  BY Config DEF Base, handle_read, send_bvlc_nak
<1>4. UNCHANGED <<config, origin, got>> /\ calm' \subseteq calm
  BY DEF handle_read, send_bvlc_nak
<1>. QED  BY <1>2, <1>3, <1>4, AnswerKeepsBase

LEMMA ResultKeepsBase ==
  ASSUME Base, NEW f, handle_bvlc_result(f)
  PROVE  Base'
<1>1. Answering(f, {}) /\ UNCHANGED <<config, tables, attached, renewal, origin, got, dropped>>
      /\ calm' \subseteq calm
  BY DEF handle_bvlc_result
<1>2. registered' \subseteq attached
  BY DEF handle_bvlc_result, Base, TypesOK
<1>4. TypesOK'
  BY <1>1, <1>2 DEF Base, TypesOK, config, tables, BackupIsCurrent
<1>. QED  BY <1>1, <1>4, AnswerKeepsBase

(* A broadcast gets the next number.                                       *)
LEMMA NextNPDU ==
  ASSUME SentOK, NEW s \in Stations, send_broadcast(s)
  PROVE  LET n == Cardinality(DOMAIN origin) + 1
         IN  /\ n \notin DOMAIN origin
             /\ DOMAIN origin' = DOMAIN origin \cup {n}
             /\ origin'[n] = s
             /\ \A i \in DOMAIN origin : origin'[i] = origin[i]
             /\ IsFiniteSet(DOMAIN origin')
             /\ DOMAIN origin' = 1 .. Cardinality(DOMAIN origin')
<1>. DEFINE k == Cardinality(DOMAIN origin)
            n == k + 1
<1>1. k \in Nat /\ DOMAIN origin = 1 .. k
  BY FS_CardinalityType DEF SentOK
<1>2. origin' = [i \in 1 .. n |-> IF i = n THEN s ELSE origin[i]]
  BY DEF send_broadcast
<1>3. n \notin DOMAIN origin /\ DOMAIN origin' = DOMAIN origin \cup {n}
  BY <1>1, <1>2
<1>4. IsFiniteSet(DOMAIN origin') /\ Cardinality(DOMAIN origin') = n
  <2>. HIDE DEF n, k
  <2>1. IsFiniteSet(DOMAIN origin) /\ IsFiniteSet(DOMAIN origin \cup {n})
        /\ Cardinality(DOMAIN origin \cup {n}) = Cardinality(DOMAIN origin) + 1
    BY <1>3, FS_AddElement DEF SentOK
  <2>. QED  BY <1>3, <2>1 DEF n, k
<1>. QED  BY <1>1, <1>2, <1>3, <1>4

LEMMA BroadcastFrames ==
  ASSUME Base, NEW s \in Stations, send_broadcast(s),
         NEW n, n = Cardinality(DOMAIN origin) + 1
  PROVE  \E out :
           /\ Sending(out)
           /\ \A e \in out : FrameOK(e)' /\ Carries(e) /\ e.npdu = n
           /\ \/ /\ s \in attached \cap registered
                 /\ out = {Datagram("distribute", s, BBMDOf[s], s, n, "")}
              \/ /\ s \notin attached \cap registered
                 /\ out = Wire("original", s, s, s, n) \cup
                          (IF s \in BBMDs THEN Forwarding(s, s, n, NULL) ELSE {})
<1>. n \in DOMAIN origin' /\ origin'[n] = s
  BY NextNPDU DEF Base
<1>0. UNCHANGED config
  BY DEF send_broadcast
<1>1. CASE s \in attached \cap registered
  <2>. DEFINE e == Datagram("distribute", s, BBMDOf[s], s, n, "")
  <2>1. s \in Foreign /\ BBMDOf[s] \in BBMDs \ {s}
    BY <1>1, StationsAssumption DEF Base, TypesOK
  <2>2. FrameOK(e)' /\ Carries(e) /\ e.npdu = n
    <3>1. /\ e.fn = "distribute" /\ e.src = s /\ e.dst = BBMDOf[s] /\ e.npdu = n
      BY DEF Datagram
    <3>. HIDE DEF e
    <3>. QED  BY <2>1, <3>1, StationsAssumption DEF FrameOK, Carries
  <2>3. Sending({e})
    BY <1>1 DEF send_broadcast
  <2>. QED  BY <1>1, <2>2, <2>3
<1>2. CASE s \notin attached \cap registered
  <2>. DEFINE out == Wire("original", s, s, s, n) \cup
                     (IF s \in BBMDs THEN Forwarding(s, s, n, NULL) ELSE {})
  <2>1. ASSUME NEW e \in Wire("original", s, s, s, n)
        PROVE  FrameOK(e)' /\ Carries(e) /\ e.npdu = n
    <3>1. /\ e.fn = "original" /\ e.src = s /\ e.orig = s /\ e.npdu = n
          /\ e.dst \in Stations /\ Home[e.dst] = Home[s] /\ e.dst # s
      BY WireFrames
    <3>. QED  BY <3>1 DEF FrameOK, Carries
  <2>2. ASSUME s \in BBMDs, NEW e \in Forwarding(s, s, n, NULL)
        PROVE  FrameOK(e)' /\ Carries(e) /\ e.npdu = n
    <3>1. e \in Onward(s, s, n, NULL)
      BY <2>2 DEF Forwarding, Onward
    <3>2. /\ e.fn = "forwarded" /\ e.src = s /\ e.orig = s /\ e.npdu = n
          /\ e.dst \in Stations \ {s}
      BY <2>2, <3>1, OnwardFrames DEF Base
    <3>. QED  BY <2>2, <3>2, StationsAssumption DEF FrameOK, Carries
  <2>3. Sending(out)
    BY <1>2 DEF send_broadcast
  <2>. QED  BY <1>2, <2>1, <2>2, <2>3
<1>. QED  BY <1>1, <1>2

LEMMA BroadcastKeepsBase ==
  ASSUME Base, NEW s \in Stations, send_broadcast(s)
  PROVE  Base'
<1>. DEFINE n == Cardinality(DOMAIN origin) + 1
<1>1. /\ DOMAIN origin' = DOMAIN origin \cup {n} /\ origin'[n] = s
      /\ \A i \in DOMAIN origin : origin'[i] = origin[i]
      /\ IsFiniteSet(DOMAIN origin')
      /\ DOMAIN origin' = 1 .. Cardinality(DOMAIN origin')
  BY NextNPDU DEF Base
<1>2. PICK out : Sending(out) /\ \A e \in out : FrameOK(e)'
  BY BroadcastFrames
<1>3. UNCHANGED <<config, tables, devices, got, dropped>> /\ calm' = calm \cup {n}
  BY DEF send_broadcast
<1>. HIDE DEF n
<1>4. \A f \in DOMAIN frames : FrameOK(f)'
  BY <1>1, <1>3 DEF Base, SentOK, FrameOK, Carries, config
<1>5. IsABag(frames') /\ \A f \in DOMAIN frames' : FrameOK(f)'
  <2>1. IsABag(frames') /\ DOMAIN frames' = DOMAIN frames \cup out
    BY <1>2, SendingAdds DEF Base, SentOK
  <2>. QED  BY <1>2, <1>4, <2>1
<1>6. OriginIsTold' /\ \A g \in DOMAIN got' : g.npdu \in DOMAIN origin'
  BY <1>1, <1>3 DEF Base, SentOK, OriginIsTold, config, BagToSet
<1>7. \A i \in DOMAIN origin' : origin'[i] \in Stations
  BY <1>1 DEF Base, SentOK
<1>8. SentOK'
  BY <1>1, <1>3, <1>5, <1>6, <1>7 DEF Base, SentOK
<1>9. TypesOK'
  BY <1>3, Config DEF Base
<1>. QED  BY <1>8, <1>9 DEF Base

(* Actions that neither receive a datagram nor give one to the network     *)
(* layer                                                                   *)
LEMMA QuietKeepsBase ==
  ASSUME Base, TypesOK', UNCHANGED <<config, origin, got>>, calm' \subseteq calm,
         IsABag(frames'), DOMAIN frames' \subseteq DOMAIN frames
  PROVE  Base'
<1>. DEFINE none == {}
<1>1. DOMAIN frames' \subseteq DOMAIN frames \cup none
  OBVIOUS
<1>2. \A e \in none : FrameOK(e)
  OBVIOUS
<1>. HIDE DEF none
<1>3. SentOK'
  BY <1>1, <1>2, SentStays DEF Base
<1>. QED  BY <1>3 DEF Base

LEMMA SendingKeepsBase ==
  ASSUME Base, TypesOK', UNCHANGED <<config, origin, got>>, calm' \subseteq calm,
         NEW out, Sending(out), \A e \in out : FrameOK(e)
  PROVE  Base'
BY AddedStays DEF Base

LEMMA PurgeKeepsBase ==
  ASSUME Base, NEW b \in BBMDs, purge_expired_fdt_entries(b)
  PROVE  Base'
<1>1. UNCHANGED <<config, bdt, backup, devices, frames, origin, got, dropped>>
      /\ calm' \subseteq calm
  BY DEF purge_expired_fdt_entries
<1>2. /\ DOMAIN fdt' = BBMDs
      /\ \A c \in BBMDs : \A t \in DOMAIN fdt'[c] :
           t \in Foreign /\ BBMDOf[t] = c /\ fdt'[c][t] \in Nat
  BY DEF Base, TypesOK, purge_expired_fdt_entries, Without
<1>3. cleanup' \in [BBMDs -> Nat]
  BY TimesAssumption DEF Base, TypesOK, purge_expired_fdt_entries
<1>4. TypesOK'
  BY <1>1, <1>2, <1>3 DEF Base, TypesOK, config, devices, BackupIsCurrent
<1>5. IsABag(frames') /\ DOMAIN frames' \subseteq DOMAIN frames
  BY <1>1 DEF Base, SentOK
<1>. QED  BY <1>1, <1>4, <1>5, QuietKeepsBase

LEMMA RestartKeepsBase ==
  ASSUME Base, NEW b \in BBMDs, restart_bbmd(b)
  PROVE  Base'
<1>1. UNCHANGED <<config, devices, origin, got>> /\ calm' \subseteq calm
  BY DEF restart_bbmd
<1>2. /\ DOMAIN fdt' = BBMDs
      /\ \A c \in BBMDs : \A t \in DOMAIN fdt'[c] :
           t \in Foreign /\ BBMDOf[t] = c /\ fdt'[c][t] \in Nat
  BY DEF Base, TypesOK, restart_bbmd, Without
<1>3. cleanup' \in [BBMDs -> Nat] /\ dropped' \subseteq Foreign
  BY TimesAssumption DEF Base, TypesOK, restart_bbmd
<1>4. /\ bdt' \in [BBMDs -> SUBSET BBMDs] /\ backup' \in [BBMDs -> SUBSET BBMDs]
      /\ \A c \in BBMDs : bdt'[c] = backup'[c]
  <2>1. load_bdt_backup(b, backup[b]) \in SUBSET BBMDs
    BY StationsAssumption DEF load_bdt_backup, Base, TypesOK
  <2>2. /\ bdt' = [bdt EXCEPT ![b] = load_bdt_backup(b, backup[b])]
        /\ backup' = [backup EXCEPT ![b] = bdt'[b]]
    BY DEF restart_bbmd
  <2>3. bdt' \in [BBMDs -> SUBSET BBMDs]
    BY <2>1, <2>2 DEF Base, TypesOK
  <2>. QED  BY <2>2, <2>3 DEF Base, TypesOK, BackupIsCurrent
<1>5. TypesOK'
  BY <1>1, <1>2, <1>3, <1>4 DEF Base, TypesOK, config, devices, BackupIsCurrent
<1>6. IsABag(frames') /\ DOMAIN frames' \subseteq DOMAIN frames
  BY DEF Base, SentOK, IsABag, restart_bbmd
<1>. QED  BY <1>1, <1>5, <1>6, QuietKeepsBase

LEMMA RenewalKeepsNat ==
  ASSUME NEW f \in Foreign
  PROVE  RenewalInterval(f) \in Nat
BY TimesAssumption DEF RenewalInterval

LEMMA AttachKeepsBase ==
  ASSUME Base, NEW f \in Foreign, attach_foreign_device(f)
  PROVE  Base'
<1>1. UNCHANGED <<config, tables, registered, frames, origin, got, dropped, calm>>
  BY DEF attach_foreign_device
<1>2. /\ attached' \subseteq Foreign /\ registered' \subseteq attached'
      /\ renewal' \in [Foreign -> Nat]
  BY DEF Base, TypesOK, attach_foreign_device
<1>3. TypesOK'
  BY <1>1, <1>2 DEF Base, TypesOK, config, tables, BackupIsCurrent
<1>4. IsABag(frames') /\ DOMAIN frames' \subseteq DOMAIN frames
  BY <1>1 DEF Base, SentOK
<1>. QED  BY <1>1, <1>3, <1>4, QuietKeepsBase

LEMMA RegistrationKeepsBase ==
  ASSUME Base, NEW f \in Foreign, registration_loop(f)
  PROVE  Base'
<1>. DEFINE e == Datagram("register", f, BBMDOf[f], NULL, 0, "register")
<1>1. /\ UNCHANGED <<config, tables, attached, registered, origin, got, dropped, calm>>
      /\ Sending({e})
  BY DEF registration_loop
<1>2. renewal' \in [Foreign -> Nat]
  BY RenewalKeepsNat DEF Base, TypesOK, registration_loop
<1>3. TypesOK'
  BY <1>1, <1>2 DEF Base, TypesOK, config, tables, BackupIsCurrent
<1>4. FrameOK(e)
  <2>1. e.fn = "register" /\ e.src = f /\ e.dst = BBMDOf[f]
    BY DEF Datagram
  <2>. HIDE DEF e
  <2>. QED  BY <2>1, StationsAssumption DEF FrameOK, Carries
<1>. HIDE DEF e
<1>. QED  BY <1>1, <1>3, <1>4, SendingKeepsBase

LEMMA DeregisterKeepsBase ==
  ASSUME Base, NEW f \in Foreign, deregister_foreign_device(f)
  PROVE  Base'
<1>. DEFINE e == Datagram("delete", f, BBMDOf[f], f, 0, "delete")
            out == IF f \in registered THEN {e} ELSE {}
<1>1. /\ UNCHANGED <<config, tables, renewal, origin, got, dropped>> /\ calm' \subseteq calm
      /\ Sending(out)
  BY DEF deregister_foreign_device
<1>2. attached' \subseteq Foreign /\ registered' \subseteq attached'
  BY DEF Base, TypesOK, deregister_foreign_device
<1>3. TypesOK'
  BY <1>1, <1>2 DEF Base, TypesOK, config, tables, BackupIsCurrent
<1>4. FrameOK(e)
  <2>1. e.fn = "delete" /\ e.src = f /\ e.dst = BBMDOf[f] /\ e.arg = "delete"
    BY DEF Datagram
  <2>. HIDE DEF e
  <2>. QED  BY <2>1, StationsAssumption DEF FrameOK, Carries
<1>. HIDE DEF e
<1>5. \A d \in out : FrameOK(d)
  BY <1>4
<1>. HIDE DEF out
<1>. QED  BY <1>1, <1>3, <1>5, SendingKeepsBase

(* client_call                                                             *)
Call(m, b, op, what) ==
  /\ m \in Managers /\ b \in Stations \ (Foreign \cup {m})
  /\ op \in Reads \cup {"write", "delete"}
  /\ op = "write" => what \in Tables[directed]
  /\ bvlc_request(m, b, op, what)

LEMMA CallCases ==
  ASSUME NEW m \in Managers, client_call(m)
  PROVE  \E b, op, what : Call(m, b, op, what)
<1>1. PICK b \in Stations \ (Foreign \cup {m}) :
        \/ \E op \in Reads : bvlc_request(m, b, op, NULL)
        \/ \E t \in Tables[directed] : bvlc_request(m, b, "write", t)
        \/ \E s \in Foreign : bvlc_request(m, b, "delete", s)
  BY DEF client_call
<1>2. ASSUME NEW op \in Reads, bvlc_request(m, b, op, NULL)
      PROVE  Call(m, b, op, NULL)
  BY <1>2 DEF Call, Reads
<1>3. ASSUME NEW t \in Tables[directed], bvlc_request(m, b, "write", t)
      PROVE  Call(m, b, "write", t)
  BY <1>3 DEF Call
<1>4. ASSUME NEW s \in Foreign, bvlc_request(m, b, "delete", s)
      PROVE  Call(m, b, "delete", s)
  BY <1>4 DEF Call
<1>. QED  BY <1>1, <1>2, <1>3, <1>4

(* What a call sends                                                       *)
LEMMA CallSends ==
  ASSUME NEW m, NEW b, NEW op, NEW what, Call(m, b, op, what),
         NEW e, e = Datagram(Function(op), m, b, what, events + 1, op)
  PROVE  /\ Sending({e})
         /\ e.fn \in {"read", "write", "delete"}
         /\ e.src = m /\ e.dst = b /\ e.npdu = events + 1 /\ e.orig = what
         /\ e.fn = "write" => what \in Tables[directed]
<1>1. Sending({e})
  BY DEF Call, bvlc_request
<1>2. /\ e.fn = Function(op) /\ e.src = m /\ e.dst = b /\ e.npdu = events + 1
      /\ e.orig = what
  BY DEF Datagram
<1>3. /\ Function(op) \in {"read", "write", "delete"}
      /\ Function(op) = "write" => what \in Tables[directed]
  BY DEF Call, Function, Reads
<1>. QED  BY <1>1, <1>2, <1>3

LEMMA CallKeepsBase ==
  ASSUME Base, NEW m, NEW b, NEW op, NEW what, Call(m, b, op, what)
  PROVE  Base'
<1>1. /\ UNCHANGED <<config, tables, devices, origin, got, dropped, calm>>
      /\ family = "v4"
  BY DEF Call, bvlc_request
<1>2. m \in Stations /\ b \in Stations \ {m}
  BY StationsAssumption DEF Call
<1>3. TypesOK'
  BY <1>1, Config DEF Base
<1>4. PICK e : e = Datagram(Function(op), m, b, what, events + 1, op)
  OBVIOUS
<1>5. Sending({e}) /\ FrameOK(e)
  BY <1>1, <1>2, <1>4, CallSends DEF FrameOK, Carries
<1>6. PICK out : out = {e} /\ Sending(out)
  BY <1>5
<1>. QED  BY <1>1, <1>3, <1>5, <1>6, SendingKeepsBase

LEMMA FinishKeepsBase ==
  ASSUME Base, NEW c, finish_bvlc_request(c)
  PROVE  Base'
<1>1. UNCHANGED <<config, tables, devices, frames, origin, got, dropped, calm>>
  BY DEF finish_bvlc_request
<1>2. TypesOK'
  BY <1>1, Config DEF Base
<1>3. IsABag(frames') /\ DOMAIN frames' \subseteq DOMAIN frames
  BY <1>1 DEF Base, SentOK
<1>. QED  BY <1>1, <1>2, <1>3, QuietKeepsBase

LEMMA LoseKeepsBase ==
  ASSUME Base, NEW f, Lose(f)
  PROVE  Base'
<1>1. UNCHANGED <<config, tables, devices, origin, got, dropped>>
      /\ calm' \subseteq calm /\ Answering(f, {})
  BY DEF Lose
<1>2. TypesOK'
  BY <1>1, Config DEF Base
<1>. QED  BY <1>1, <1>2, AnswerKeepsBase

LEMMA SoonerIsNat ==
  ASSUME NEW t \in Nat
  PROVE  Sooner(t) \in Nat
BY DEF Sooner

LEMMA TickKeepsBase ==
  ASSUME Base, Tick
  PROVE  Base'
<1>1. UNCHANGED <<config, bdt, backup, attached, registered, frames, origin, got,
                  dropped, calm>>
  BY DEF Tick
<1>2. DOMAIN fdt' = BBMDs /\ \A b \in BBMDs : DOMAIN fdt'[b] = DOMAIN fdt[b]
      /\ \A t \in DOMAIN fdt[b] : fdt'[b][t] = Sooner(fdt[b][t])
  BY DEF Tick
<1>3. \A b \in BBMDs : \A t \in DOMAIN fdt'[b] :
        t \in Foreign /\ BBMDOf[t] = b /\ fdt'[b][t] \in Nat
  BY <1>2, SoonerIsNat DEF Base, TypesOK
<1>4. cleanup' \in [BBMDs -> Nat] /\ renewal' \in [Foreign -> Nat]
  BY SoonerIsNat DEF Tick, Base, TypesOK
<1>5. TypesOK'
  BY <1>1, <1>2, <1>3, <1>4 DEF Base, TypesOK, config, BackupIsCurrent
<1>6. IsABag(frames') /\ DOMAIN frames' \subseteq DOMAIN frames
  BY <1>1 DEF Base, SentOK
<1>. QED  BY <1>1, <1>5, <1>6, QuietKeepsBase

LEMMA InitBase == Init => Base
<1>. SUFFICES ASSUME Init PROVE Base
  OBVIOUS
<1>1. IsABag(EmptyBag) /\ DOMAIN EmptyBag = {}
  BY DEF IsABag, EmptyBag, SetToBag
<1>2. \A b \in BBMDs : load_bdt_backup(b, Saved[b]) \in SUBSET BBMDs
  BY StationsAssumption DEF load_bdt_backup
<1>3. TypesOK
  BY <1>2, StationsAssumption, TimesAssumption DEF Init, TypesOK, BackupIsCurrent
<1>4. DOMAIN origin = {} /\ IsFiniteSet({}) /\ Cardinality({}) = 0
  BY FS_EmptySet DEF Init
<1>5. DOMAIN origin = 1 .. Cardinality(DOMAIN origin)
  BY <1>4
<1>6. SentOK
  BY <1>1, <1>4, <1>5 DEF Init, SentOK, OriginIsTold, BagToSet
<1>. QED  BY <1>3, <1>6 DEF Base

LEMMA ReceivingKeepsBase ==
  ASSUME Base, on_datagram_received
  PROVE  Base'
<1>1. CASE \E f \in Arrived("original") : handle_original_broadcast(f)
  BY <1>1, OriginalKeepsBase
<1>2. CASE family = "v4" /\ \E f \in Arrived("forwarded") :
             IF f.dst \in BBMDs THEN handle_forwarded_npdu(f) ELSE receive_forwarded(f)
  BY <1>2, ForwardedKeepsBase
<1>3. CASE family = "v6" /\ \E f \in Arrived("forwarded") :
             IF f.dst \in BBMDs THEN handle_forwarded_npdu6(f) ELSE receive_forwarded6(f)
  BY <1>3, ForwardedKeepsBase
<1>4. CASE \E f \in Arrived("distribute") :
             handle_distribute_broadcast(f) \/ handle_distribute_broadcast6(f)
  BY <1>4, DistributeKeepsBase
<1>5. CASE \E f \in Arrived("register") :
             handle_register_foreign_device(f) \/ handle_register_foreign_device6(f)
  BY <1>5, RegisterKeepsBase
<1>6. CASE \E f \in Arrived("delete") :
             IF f.dst \in BBMDs THEN handle_delete_fdt_entry(f) ELSE send_bvlc_nak(f)
  BY <1>6, DeleteKeepsBase, ReadKeepsBase
<1>7. CASE \E f \in Arrived("write") :
             IF f.dst \in BBMDs THEN handle_write_bdt(f) ELSE send_bvlc_nak(f)
  BY <1>7, WriteKeepsBase, ReadKeepsBase
<1>8. CASE \E f \in Arrived("read") :
             IF f.dst \in BBMDs THEN handle_read(f) ELSE send_bvlc_nak(f)
  BY <1>8, ReadKeepsBase
<1>9. CASE \E f \in Arrived("result") \cup Arrived("ack") : handle_bvlc_result(f)
  BY <1>9, ResultKeepsBase
<1>. QED
  BY <1>1, <1>2, <1>3, <1>4, <1>5, <1>6, <1>7, <1>8, <1>9 DEF on_datagram_received

LEMMA NextBase == Base /\ [Next]_vars => Base'
<1>. SUFFICES ASSUME Base, [Next]_vars PROVE Base'
  OBVIOUS
<1>1. CASE \E s \in Stations : send_broadcast(s)
  BY <1>1, BroadcastKeepsBase
<1>2. CASE on_datagram_received
  BY <1>2, ReceivingKeepsBase
<1>3. CASE \E b \in BBMDs : purge_expired_fdt_entries(b) \/ restart_bbmd(b)
  BY <1>3, PurgeKeepsBase, RestartKeepsBase
<1>4. CASE \E f \in Foreign :
             attach_foreign_device(f) \/ registration_loop(f) \/ deregister_foreign_device(f)
  BY <1>4, AttachKeepsBase, RegistrationKeepsBase, DeregisterKeepsBase
<1>5. CASE \E m \in Managers : client_call(m)
  BY <1>5, CallCases, CallKeepsBase
<1>6. CASE \E c \in DOMAIN call : finish_bvlc_request(c)
  BY <1>6, FinishKeepsBase
<1>7. CASE \E f \in BagToSet(frames) : Lose(f)
  BY <1>7, LoseKeepsBase
<1>8. CASE Tick
  BY <1>8, TickKeepsBase
<1>9. CASE UNCHANGED vars
  <2>1. UNCHANGED <<config, tables, devices, origin, got, dropped, calm, frames>>
    BY <1>9 DEF vars
  <2>2. TypesOK'
    BY <2>1, Config DEF Base
  <2>3. IsABag(frames') /\ DOMAIN frames' \subseteq DOMAIN frames
    BY <2>1 DEF Base, SentOK
  <2>. QED  BY <2>1, <2>2, <2>3, QuietKeepsBase
<1>. QED
  BY <1>1, <1>2, <1>3, <1>4, <1>5, <1>6, <1>7, <1>8, <1>9 DEF Next

-----------------------------------------------------------------------------
(* Calls.  What is on the way between a caller and the station it asked is *)
(* of the call, if it is not crossed, or of the caller's registration.     *)

Asks(f) == f.fn \in {"read", "write", "delete", "result", "ack"}

CallFrame(f) ==
  Asks(f) =>
    /\ f.npdu \in 0 .. events
    /\ f.npdu = 0 => Caller(f) \in Foreign /\ BBMDOf[Caller(f)] = Callee(f)
    /\ \A c \in DOMAIN call \ crossed :
         f.npdu # 0 /\ Caller(f) = call[c].caller /\ Callee(f) = call[c].station
           => f.npdu = c

CallsOK ==
  /\ CallsTyped
  /\ \A f \in DOMAIN frames : CallFrame(f)
  /\ AnswersOwnCall

Later == events' \in {events, events + 1}

(* No call is made, answered or ended.                                     *)
LEMMA QuietCalls ==
  ASSUME CallsOK, UNCHANGED calls, Later, NEW out,
         DOMAIN frames' \subseteq DOMAIN frames \cup out, \A e \in out : CallFrame(e)
  PROVE  CallsOK'
<1>1. UNCHANGED <<call, pending, crossed>>
  BY DEF calls
<1>2. events' \in Nat /\ 0 .. events \subseteq 0 .. events' /\ 1 .. events \subseteq 1 .. events'
  BY DEF CallsOK, CallsTyped, Later
<1>3. CallsTyped'
  BY <1>1, <1>2 DEF CallsOK, CallsTyped, Key
<1>4. AnswersOwnCall'
  BY <1>1 DEF CallsOK, AnswersOwnCall
<1>5. \A f : CallFrame(f) => CallFrame(f)'
  BY <1>1, <1>2 DEF CallFrame
<1>. QED  BY <1>3, <1>4, <1>5 DEF CallsOK

LEMMA NoCallSent ==
  ASSUME CallsOK, UNCHANGED calls, Later, DOMAIN frames' \subseteq DOMAIN frames
  PROVE  CallsOK'
<1>1. PICK out : out = {}
  OBVIOUS
<1>. QED  BY <1>1, QuietCalls

LEMMA CallsAnswered ==
  ASSUME Base, CallsOK, UNCHANGED calls, Later, NEW f, NEW out, Answering(f, out),
         \A e \in out : CallFrame(e)
  PROVE  CallsOK'
<1>1. DOMAIN frames' \subseteq DOMAIN frames \cup out
  BY AnsweringReplaces DEF Base, SentOK
<1>. QED  BY <1>1, QuietCalls

LEMMA CallsAdded ==
  ASSUME Base, CallsOK, UNCHANGED calls, Later, NEW out, Sending(out),
         \A e \in out : CallFrame(e)
  PROVE  CallsOK'
<1>1. DOMAIN frames' \subseteq DOMAIN frames \cup out
  BY SendingAdds DEF Base, SentOK
<1>. QED  BY <1>1, QuietCalls

(* A BBMD tells a foreign device about its registration.                   *)
LEMMA ToldDevice ==
  ASSUME CallsOK, NEW s \in Foreign, NEW code, NEW re,
         NEW e \in Result(BBMDOf[s], s, code, re)
  PROVE  CallFrame(e)
<1>1. e.fn = "result" /\ e.src = BBMDOf[s] /\ e.dst = s /\ e.npdu = 0
  BY DEF Result, ResultOf, Datagram
<1>. QED  BY <1>1 DEF CallFrame, Caller, Callee, CallsOK, CallsTyped

(* The answer to a request is as much of its call.                         *)
LEMMA AnswerOfCall ==
  ASSUME NEW f, CallFrame(f), f.fn \in {"read", "write", "delete"},
         NEW e, e.fn \in {"result", "ack"}, e.src = f.dst, e.dst = f.src, e.npdu = f.npdu
  PROVE  CallFrame(e)
<1>1. Asks(f) /\ Caller(e) = Caller(f) /\ Callee(e) = Callee(f)
  BY DEF Asks, Caller, Callee
<1>. QED  BY <1>1 DEF CallFrame

LEMMA ResultKeepsCalls ==
  ASSUME Base, CallsOK, NEW f \in Arrived("result") \cup Arrived("ack"), handle_bvlc_result(f)
  PROVE  CallsOK'
<1>. DEFINE answer == [call |-> f.npdu, op |-> f.arg, from |-> f.src]
            heard == <<f.dst, IF f.fn = "ack" THEN f.arg ELSE "result", f.src>>
            refused == <<f.dst, f.arg, f.src>>
            Settled(k) == k \in DOMAIN pending
                            /\ (k = heard \/ (k = refused /\ f.arg \in Reads))
<1>1. f \in DOMAIN frames /\ f.fn \in {"result", "ack"} /\ CallFrame(f)
  BY DEF Arrived, BagToSet, CallsOK
<1>2. PICK done :
        /\ call' = [c \in DOMAIN call |->
                      IF c \in done THEN [call[c] EXCEPT !.answer = answer] ELSE call[c]]
        /\ \A c \in done : \E k : Settled(k) /\ c = pending[k]
  <2>. DEFINE settled == resolve_pending_bvlc(f)
              done == {pending[k] : k \in settled \cup (IF settled = {} THEN FailedRead(f) ELSE {})}
  <2>1. \A k \in settled \cup FailedRead(f) : Settled(k)
    BY DEF resolve_pending_bvlc, FailedRead, Waiting
  <2>2. call' = [c \in DOMAIN call |->
                   IF c \in done THEN [call[c] EXCEPT !.answer = answer] ELSE call[c]]
    BY DEF handle_bvlc_result
  <2>3. \A c \in done : \E k : Settled(k) /\ c = pending[k]
    BY <2>1
  <2>. HIDE DEF done
  <2>. QED  BY <2>2, <2>3
<1>a. PICK out : out = {} /\ Answering(f, out)
  BY DEF handle_bvlc_result
<1>3. UNCHANGED <<pending, crossed, events>>
  BY DEF handle_bvlc_result
<1>4. DOMAIN frames' \subseteq DOMAIN frames
  <2>1. IsABag(frames)
    BY DEF Base, SentOK
  <2>2. DOMAIN frames' \subseteq DOMAIN frames \cup out
    BY <1>a, <2>1, AnsweringReplaces
  <2>. QED  BY <1>a, <2>2
<1>5. /\ DOMAIN call' = DOMAIN call
      /\ \A c \in DOMAIN call :
           /\ call'[c] = [caller |-> call'[c].caller, station |-> call'[c].station,
                          op |-> call'[c].op, answer |-> call'[c].answer]
           /\ call'[c].caller = call[c].caller /\ call'[c].station = call[c].station
           /\ call'[c].op = call[c].op
           /\ call'[c].answer = IF c \in done THEN answer ELSE call[c].answer
  <2>. HIDE DEF answer
  <2>. QED  BY <1>2 DEF CallsOK, CallsTyped
<1>6. CallsTyped'
  BY <1>3, <1>5 DEF CallsOK, CallsTyped, Key
<1>7. \A g : CallFrame(g) => CallFrame(g)'
  BY <1>3, <1>5 DEF CallFrame
<1>8. ASSUME NEW c \in DOMAIN call, c \in done
      PROVE  /\ answer.from = call[c].station
             /\ call[c].op \in Reads => answer.op = call[c].op
             /\ \/ answer.call = c
                \/ answer.call = 0 /\ call[c].caller \in Foreign
                   /\ BBMDOf[call[c].caller] = answer.from
                \/ c \in crossed
  <2>1. PICK k : Settled(k) /\ c = pending[k]
    BY <1>2, <1>8
  <2>2. Key(c) = k
    BY <2>1 DEF CallsOK, CallsTyped
  <2>3. call[c].caller = f.dst /\ call[c].station = f.src
    BY <2>1, <2>2 DEF Key
  <2>4. call[c].op \in Reads => f.arg = call[c].op
    <3>1. Expected(call[c].op) = k[2]
      BY <2>2 DEF Key
    <3>2. k[2] = f.arg \/ k[2] = "result"
      BY <2>1
    <3>. QED  BY <3>1, <3>2 DEF Expected, Reads
  <2>5. Asks(f) /\ Caller(f) = f.dst /\ Callee(f) = f.src
    BY <1>1 DEF Asks, Caller, Callee
  <2>. QED  BY <1>1, <2>3, <2>4, <2>5 DEF CallFrame
<1>9. AnswersOwnCall'
  <2>. HIDE DEF answer
  <2>1. ASSUME NEW c \in DOMAIN call, c \in done
        PROVE  /\ call'[c].answer.from = call'[c].station
               /\ call'[c].op \in Reads => call'[c].answer.op = call'[c].op
               /\ \/ call'[c].answer.call = c
                  \/ call'[c].answer.call = 0 /\ call'[c].caller \in Foreign
                     /\ BBMDOf[call'[c].caller] = call'[c].answer.from
                  \/ c \in crossed'
    BY <1>3, <1>5, <1>8, <2>1
  <2>2. ASSUME NEW c \in DOMAIN call, c \notin done
        PROVE  call'[c].answer = call[c].answer
    BY <1>5, <2>2
  <2>. QED  BY <1>3, <1>5, <2>1, <2>2 DEF AnswersOwnCall, CallsOK
<1>. QED  BY <1>4, <1>6, <1>7, <1>9 DEF CallsOK

(* A call that meets no other starts with nothing on the way.              *)
LEMMA CallKeepsCalls ==
  ASSUME Base, CallsOK, NEW m, NEW b, NEW op, NEW what, Call(m, b, op, what)
  PROVE  CallsOK'
<1>. DEFINE key == <<m, Expected(op), b>>
<1>b. PICK n : n = events + 1
  OBVIOUS
<1>1. /\ DOMAIN call' = DOMAIN call \cup {n}
      /\ call'[n] = [caller |-> m, station |-> b, op |-> op, answer |-> NULL]
      /\ \A c \in DOMAIN call : c # n => call'[c] = call[c]
  BY <1>b DEF Call, bvlc_request
<1>2. /\ DOMAIN pending' = DOMAIN pending \cup {key} /\ pending'[key] = n
      /\ \A k \in DOMAIN pending : k # key => pending'[k] = pending[k]
  BY <1>b DEF Call, bvlc_request
<1>3. /\ crossed \subseteq crossed' /\ crossed' \subseteq crossed \cup DOMAIN call \cup {n}
      /\ n \notin crossed' => /\ Between(m, b) = {} /\ Underway(m, b) = {}
  BY <1>b DEF Call, bvlc_request, Between
<1>4. Between(m, b) # {} => Between(m, b) \subseteq crossed'
  BY <1>b DEF Call, bvlc_request
<1>a. PICK e : e = Datagram(Function(op), m, b, what, n, op)
  OBVIOUS
<1>5. /\ Sending({e}) /\ e.fn \in {"read", "write", "delete"}
      /\ e.src = m /\ e.dst = b /\ e.npdu = n
  BY <1>a, <1>b, CallSends
<1>6. events' = n /\ m \in Managers /\ b \in Stations
  BY <1>b DEF Call, bvlc_request, Event
<1>7. /\ n \notin DOMAIN call /\ n \in Nat /\ n # 0 /\ n \in 1 .. n
      /\ \A i \in 0 .. events : i # n /\ i \in 0 .. n
      /\ \A i \in 1 .. events : i \in 1 .. n
  BY <1>b DEF CallsOK, CallsTyped
<1>8. CallsTyped'
  <2>1. Key(n)' = key
    BY <1>1 DEF Key
  <2>2. \A k \in DOMAIN pending : k # key => Key(pending[k])' = k
    BY <1>1, <1>2, <1>7 DEF CallsOK, CallsTyped, Key
  <2>3. (\A k \in DOMAIN pending : pending[k] \in DOMAIN call /\ Key(pending[k]) = k)'
    BY <1>1, <1>2, <2>1, <2>2 DEF CallsOK, CallsTyped, Key
  <2>4. \A c \in DOMAIN call' :
          /\ call'[c] = [caller |-> call'[c].caller, station |-> call'[c].station,
                         op |-> call'[c].op, answer |-> call'[c].answer]
          /\ call'[c].caller \in Managers /\ call'[c].station \in Stations
    BY <1>1, <1>6 DEF CallsOK, CallsTyped
  <2>5. events' \in Nat /\ DOMAIN call' \subseteq 1 .. events'
    BY <1>1, <1>6, <1>7 DEF CallsOK, CallsTyped
  <2>. QED  BY <1>1, <1>3, <2>3, <2>4, <2>5 DEF CallsOK, CallsTyped
<1>9. \A f \in DOMAIN frames : CallFrame(f)'
  <2>. SUFFICES ASSUME NEW f \in DOMAIN frames, Asks(f) PROVE CallFrame(f)'
    BY DEF CallFrame
  <2>1. CallFrame(f)
    BY DEF CallsOK
  <2>2. n \notin crossed' /\ f.npdu # 0 => ~(Caller(f) = m /\ Callee(f) = b)
    BY <1>3 DEF Underway, OfCall, Asks, BagToSet
  <2>3. \A c \in DOMAIN call : c # n
    BY <1>7
  <2>. QED  BY <1>1, <1>3, <1>6, <1>7, <2>1, <2>2, <2>3 DEF CallFrame
<1>10. CallFrame(e)'
  <2>1. Caller(e) = m /\ Callee(e) = b
    BY <1>5 DEF Caller, Callee
  <2>2. \A c \in DOMAIN call \ crossed' : ~(call[c].caller = m /\ call[c].station = b)
    BY <1>4 DEF Between
  <2>. QED  BY <1>1, <1>5, <1>6, <1>7, <2>1, <2>2 DEF CallFrame
<1>11. DOMAIN frames' = DOMAIN frames \cup {e}
  BY <1>5, SendingAdds DEF Base, SentOK
<1>12. AnswersOwnCall'
  BY <1>1, <1>3, <1>7 DEF CallsOK, AnswersOwnCall
<1>. QED  BY <1>8, <1>9, <1>10, <1>11, <1>12 DEF CallsOK

LEMMA FinishKeepsCalls ==
  ASSUME Base, CallsOK, NEW c \in DOMAIN call, finish_bvlc_request(c)
  PROVE  CallsOK'
<1>1. /\ DOMAIN call' = DOMAIN call \ {c} /\ crossed' = crossed \ {c}
      /\ \A d \in DOMAIN call' : call'[d] = call[d]
      /\ DOMAIN pending' = DOMAIN pending \ {Key(c)}
      /\ \A k \in DOMAIN pending' : pending'[k] = pending[k]
      /\ UNCHANGED <<frames, events>>
  BY DEF finish_bvlc_request
<1>2. CallsTyped'
  <2>1. \A k \in DOMAIN pending' : pending[k] # c
    BY <1>1 DEF CallsOK, CallsTyped
  <2>. QED  BY <1>1, <2>1 DEF CallsOK, CallsTyped, Key
<1>3. \A f : CallFrame(f) => CallFrame(f)'
  BY <1>1 DEF CallFrame
<1>4. AnswersOwnCall'
  BY <1>1 DEF CallsOK, AnswersOwnCall
<1>. QED  BY <1>1, <1>2, <1>3, <1>4 DEF CallsOK

(* What goes on to peers, to foreign devices and on the wire               *)
LEMMA OnwardIsNoCall ==
  ASSUME TypesOK, NEW b \in BBMDs, NEW orig, NEW n, NEW exclude, NEW e,
         \/ e \in Onward(b, orig, n, exclude)
         \/ e \in Wire("forwarded", b, b, orig, n)
  PROVE  CallFrame(e)
<1>1. CASE e \in Onward(b, orig, n, exclude)
  BY <1>1, OnwardFrames DEF CallFrame, Asks
<1>2. CASE e \in Wire("forwarded", b, b, orig, n)
  <2>1. e.fn = "forwarded"
    BY <1>2, WireFrames
  <2>. QED  BY <2>1 DEF CallFrame, Asks
<1>. QED  BY <1>1, <1>2

LEMMA BroadcastKeepsCalls ==
  ASSUME Base, CallsOK, NEW s \in Stations, send_broadcast(s)
  PROVE  CallsOK'
<1>1. PICK out : Sending(out) /\ \A e \in out : Carries(e)
  BY BroadcastFrames
<1>2. \A e \in out : CallFrame(e)
  BY <1>1 DEF Carries, CallFrame, Asks
<1>3. UNCHANGED calls /\ Later
  BY DEF send_broadcast, Event, Later
<1>. QED  BY <1>1, <1>2, <1>3, CallsAdded

LEMMA CarriedKeepsCalls ==
  ASSUME Base, CallsOK, NEW f \in DOMAIN frames, Carries(f),
         \/ handle_original_broadcast(f)
         \/ (handle_forwarded_npdu(f) \/ handle_forwarded_npdu6(f)) /\ f.dst \in BBMDs
         \/ receive_forwarded(f) \/ receive_forwarded6(f)
         \/ /\ handle_distribute_broadcast(f) \/ handle_distribute_broadcast6(f)
            /\ f.fn = "distribute"
  PROVE  CallsOK'
<1>0. UNCHANGED calls /\ Later
  BY DEF Later, handle_original_broadcast, handle_forwarded_npdu, handle_forwarded_npdu6,
         receive_forwarded, receive_forwarded6, handle_distribute_broadcast,
         handle_distribute_broadcast6
<1>1. CASE receive_forwarded(f) \/ receive_forwarded6(f)
  <2>1. Answering(f, {}) /\ \A e \in {} : CallFrame(e)
    BY <1>1 DEF receive_forwarded, receive_forwarded6
  <2>. QED  BY <1>0, <2>1, CallsAnswered
<1>2. CASE handle_original_broadcast(f)
  <2>1. PICK out : /\ Answering(f, out)
                   /\ \A e \in out : e \in Onward(f.dst, f.src, f.npdu, NULL) /\ f.dst \in BBMDs
    BY <1>2 DEF handle_original_broadcast, Forwarding, Onward
  <2>2. \A e \in out : CallFrame(e)
    BY <2>1, OnwardIsNoCall DEF Base
  <2>. QED  BY <1>0, <2>1, <2>2, CallsAnswered
<1>3. CASE (handle_forwarded_npdu(f) \/ handle_forwarded_npdu6(f)) /\ f.dst \in BBMDs
  <2>1. PICK out : /\ Answering(f, out)
                   /\ \A e \in out : \/ e \in Onward(f.dst, f.orig, f.npdu, f.orig)
                                     \/ e \in Wire("forwarded", f.dst, f.dst, f.orig, f.npdu)
    <3>1. \/ Answering(f, {})
          \/ Answering(f, ForwardToFDs(f.dst, f.orig, f.npdu, f.orig))
          \/ Answering(f, ForwardToFDs(f.dst, f.orig, f.npdu, f.orig)
                            \cup Wire("forwarded", f.dst, f.dst, f.orig, f.npdu))
      BY <1>3 DEF handle_forwarded_npdu, handle_forwarded_npdu6
    <3>2. ForwardToFDs(f.dst, f.orig, f.npdu, f.orig) \subseteq Onward(f.dst, f.orig, f.npdu, f.orig)
      BY DEF Onward, forward_to_peers_and_fds6
    <3>. QED  BY <3>1, <3>2
  <2>2. \A e \in out : CallFrame(e)
    BY <1>3, <2>1, OnwardIsNoCall DEF Base
  <2>. QED  BY <1>0, <2>1, <2>2, CallsAnswered
<1>4. CASE /\ handle_distribute_broadcast(f) \/ handle_distribute_broadcast6(f)
           /\ f.fn = "distribute"
  <2>1. f.src \in Foreign /\ f.dst = BBMDOf[f.src] /\ f.dst \in BBMDs
    BY <1>4, StationsAssumption DEF Base, SentOK, FrameOK
  <2>2. PICK out : /\ Answering(f, out)
                   /\ \A e \in out : \/ e \in Onward(f.dst, f.src, f.npdu, f.src)
                                     \/ e \in Wire("forwarded", f.dst, f.dst, f.src, f.npdu)
                                     \/ e \in Result(f.dst, f.src, "nak", "distribute")
    BY <1>4 DEF handle_distribute_broadcast, handle_distribute_broadcast6, Onward
  <2>3. \A e \in Result(f.dst, f.src, "nak", "distribute") : CallFrame(e)
    BY <2>1, ToldDevice
  <2>4. \A e \in out : CallFrame(e)
    BY <2>1, <2>2, <2>3, OnwardIsNoCall DEF Base
  <2>. QED  BY <1>0, <2>2, <2>4, CallsAnswered
<1>. QED  BY <1>1, <1>2, <1>3, <1>4

LEMMA RegisterKeepsCalls ==
  ASSUME Base, CallsOK, NEW f \in Arrived("register"),
         handle_register_foreign_device(f) \/ handle_register_foreign_device6(f)
  PROVE  CallsOK'
<1>1. f.src \in Foreign /\ f.dst = BBMDOf[f.src]
  BY DEF Arrived, BagToSet, Base, SentOK, FrameOK
<1>2. PICK code : Answering(f, Result(f.dst, f.src, code, "register"))
                  /\ UNCHANGED calls /\ Later
  BY DEF handle_register_foreign_device, handle_register_foreign_device6, Entered, Later
<1>3. \A e \in Result(f.dst, f.src, code, "register") : CallFrame(e)
  BY <1>1, ToldDevice
<1>. QED  BY <1>1, <1>2, <1>3, CallsAnswered

(* A request is answered by the station that got it, with its function.    *)
LEMMA RequestKeepsCalls ==
  ASSUME Base, CallsOK, NEW fn \in {"read", "write", "delete"}, NEW f \in Arrived(fn),
         \/ handle_delete_fdt_entry(f) /\ fn = "delete"
         \/ handle_write_bdt(f) /\ fn = "write"
         \/ handle_read(f) \/ send_bvlc_nak(f)
  PROVE  CallsOK'
<1>1. f \in DOMAIN frames /\ f.fn = fn
  BY RequestFrame
<1>2. PICK kind \in {"result", "ack"} : \E code, re :
        Answering(f, {Datagram(kind, f.dst, f.src, code, f.npdu, re)})
  BY DEF handle_delete_fdt_entry, handle_write_bdt, handle_read, send_bvlc_nak, ResultOf
<1>3. PICK code, re : Answering(f, {Datagram(kind, f.dst, f.src, code, f.npdu, re)})
  BY <1>2
<1>4. PICK e : e = Datagram(kind, f.dst, f.src, code, f.npdu, re)
  OBVIOUS
<1>5. e.fn \in {"result", "ack"} /\ e.src = f.dst /\ e.dst = f.src /\ e.npdu = f.npdu
  BY <1>4 DEF Datagram
<1>6. PICK out : out = {e} /\ Answering(f, out)
  BY <1>3, <1>4
<1>7. UNCHANGED calls /\ Later
  BY DEF handle_delete_fdt_entry, handle_write_bdt, handle_read, send_bvlc_nak, Later
<1>8. CallFrame(e)
  BY <1>1, <1>5, AnswerOfCall DEF CallsOK
<1>. QED  BY <1>6, <1>7, <1>8, CallsAnswered

LEMMA DeviceKeepsCalls ==
  ASSUME Base, CallsOK, NEW f \in Foreign,
         attach_foreign_device(f) \/ registration_loop(f) \/ deregister_foreign_device(f)
  PROVE  CallsOK'
<1>0. UNCHANGED calls /\ Later
  BY DEF attach_foreign_device, registration_loop, deregister_foreign_device, Event, Later
<1>1. CASE attach_foreign_device(f)
  BY <1>0, <1>1, NoCallSent DEF attach_foreign_device
<1>2. CASE registration_loop(f) \/ deregister_foreign_device(f)
  <2>1. PICK out : Sending(out) /\ \A e \in out : \E fn, w, arg :
                                     /\ e = Datagram(fn, f, BBMDOf[f], w, 0, arg)
                                     /\ fn \in {"register", "delete"}
    BY <1>2 DEF registration_loop, deregister_foreign_device
  <2>2. \A e \in out : CallFrame(e)
    BY <2>1 DEF Datagram, CallFrame, Asks, Caller, Callee, CallsOK, CallsTyped
  <2>. QED  BY <1>0, <2>1, <2>2, CallsAdded
<1>. QED  BY <1>1, <1>2

LEMMA NextCalls == Base /\ CallsOK /\ [Next]_vars => CallsOK'
<1>. SUFFICES ASSUME Base, CallsOK, [Next]_vars PROVE CallsOK'
  OBVIOUS
<1>1. CASE \E s \in Stations : send_broadcast(s)
  BY <1>1, BroadcastKeepsCalls
<1>2. CASE on_datagram_received
  <2>1. CASE \E f \in Arrived("original") : handle_original_broadcast(f)
    BY <2>1, CarriedKeepsCalls DEF Arrived, BagToSet, Carries
  <2>2. CASE \E f \in Arrived("forwarded") :
               \/ (handle_forwarded_npdu(f) \/ handle_forwarded_npdu6(f)) /\ f.dst \in BBMDs
               \/ receive_forwarded(f) \/ receive_forwarded6(f)
    BY <2>2, CarriedKeepsCalls DEF Arrived, BagToSet, Carries
  <2>3. CASE \E f \in Arrived("distribute") :
               handle_distribute_broadcast(f) \/ handle_distribute_broadcast6(f)
    BY <2>3, CarriedKeepsCalls DEF Arrived, BagToSet, Carries
  <2>4. CASE \E f \in Arrived("register") :
               handle_register_foreign_device(f) \/ handle_register_foreign_device6(f)
    BY <2>4, RegisterKeepsCalls
  <2>5. CASE \E fn \in {"read", "write", "delete"} : \E f \in Arrived(fn) :
               \/ handle_delete_fdt_entry(f) /\ fn = "delete"
               \/ handle_write_bdt(f) /\ fn = "write"
               \/ handle_read(f) \/ send_bvlc_nak(f)
    BY <2>5, RequestKeepsCalls
  <2>6. CASE \E f \in Arrived("result") \cup Arrived("ack") : handle_bvlc_result(f)
    BY <2>6, ResultKeepsCalls
  <2>. QED
    BY <1>2, <2>1, <2>2, <2>3, <2>4, <2>5, <2>6 DEF on_datagram_received
<1>3. CASE \E b \in BBMDs : purge_expired_fdt_entries(b) \/ restart_bbmd(b)
  <2>1. UNCHANGED calls /\ Later /\ DOMAIN frames' \subseteq DOMAIN frames
    BY <1>3 DEF purge_expired_fdt_entries, restart_bbmd, Event, Later
  <2>. QED  BY <2>1, NoCallSent
<1>4. CASE \E f \in Foreign :
             attach_foreign_device(f) \/ registration_loop(f) \/ deregister_foreign_device(f)
  BY <1>4, DeviceKeepsCalls
<1>5. CASE \E m \in Managers : client_call(m)
  BY <1>5, CallCases, CallKeepsCalls
<1>6. CASE \E c \in DOMAIN call : finish_bvlc_request(c)
  BY <1>6, FinishKeepsCalls
<1>7. CASE \E f \in BagToSet(frames) : Lose(f)
  <2>1. PICK f \in DOMAIN frames : Answering(f, {}) /\ UNCHANGED calls /\ Later
    BY <1>7 DEF Lose, BagToSet, Event, Later
  <2>2. \A e \in {} : CallFrame(e)
    OBVIOUS
  <2>. QED  BY <2>1, <2>2, CallsAnswered
<1>8. CASE Tick \/ UNCHANGED vars
  <2>1. UNCHANGED <<calls, events, frames>>
    BY <1>8 DEF Tick, vars
  <2>. QED  BY <2>1, NoCallSent DEF Later
<1>. QED
  BY <1>1, <1>2, <1>3, <1>4, <1>5, <1>6, <1>7, <1>8 DEF Next
LEMMA InitCalls == Init => CallsOK
<1>. SUFFICES ASSUME Init PROVE CallsOK
  OBVIOUS
<1>1. /\ DOMAIN call = {} /\ DOMAIN pending = {} /\ crossed = {} /\ events = 0
      /\ DOMAIN frames = {}
  BY DEF Init, EmptyBag, SetToBag
<1>. QED  BY <1>1 DEF CallsOK, CallsTyped, AnswersOwnCall

(* What a manager asks with Read- or Write-Broadcast-Distribution-Table,   *)
(* Read-Foreign-Device-Table or Delete-Foreign-Device-Table-Entry is       *)
(* answered by the station it asked, and for the table it asked; and it is *)
(* the answer to this very call unless the caller had another call to the  *)
(* same station beside it, or one before whose answer was still to come,   *)
(* although BVLC messages do not say what they answer and any call may     *)
(* time out at any moment (bip.py, _bvlc_request and                       *)
(* _resolve_pending_bvlc).                                                 *)
THEOREM AnswersOwnCallTheorem == Spec => []AnswersOwnCall
<1>. DEFINE Inv == Base /\ CallsOK
<1>1. Init => Inv
  BY InitBase, InitCalls
<1>2. Inv /\ [Next]_vars => Inv'
  BY NextBase, NextCalls
<1>3. Inv => AnswersOwnCall
  BY DEF CallsOK
<1>. QED  BY <1>1, <1>2, <1>3, PTL DEF Spec

-----------------------------------------------------------------------------
(* Each broadcast goes round once: the parts of the network that two       *)
(* datagrams with the same NPDU can still get to do not overlap.           *)

Devices(b) == {t \in Foreign : BBMDOf[t] = b}
Area(b) == Subnet(b) \cup Devices(b)
Beyond(b) == UNION {Area(p) : p \in BBMDs \ {b}}

(* The stations that the NPDU of a datagram may still get to by way of it  *)
Reach(f) ==
  IF f.fn = "distribute" THEN (Area(f.dst) \cup Beyond(f.dst)) \ {f.src}
  ELSE {f.dst} \cup
       (IF f.dst \notin BBMDs THEN {}
        ELSE Devices(f.dst) \cup
             (IF f.fn = "original" THEN Beyond(f.dst)
              ELSE IF directed = {} THEN Subnet(f.dst) ELSE {}))

(* It does not go back to where it came from.                              *)
Outbound(f) ==
  Carries(f) =>
    /\ f.dst # origin[f.npdu]
    /\ f.fn = "forwarded" /\ f.dst \in BBMDs => Home[f.orig] # Home[f.dst]

MeshOK == directed # {} => directed = BBMDs /\ \A b \in BBMDs : bdt[b] = BBMDs

(* No two datagrams, and no datagram and no delivery, are for one station. *)
Once ==
  /\ \A f \in DOMAIN frames : Carries(f) =>
       /\ frames[f] = 1
       /\ \A g \in DOMAIN frames :
            Carries(g) /\ g.npdu = f.npdu /\ g # f => Reach(f) \cap Reach(g) = {}
       /\ \A d \in DOMAIN got : d.npdu = f.npdu => d.to \notin Reach(f)
  /\ OnceEach

OnceInv == MeshOK /\ (\A f \in DOMAIN frames : Outbound(f)) /\ Once

LEMMA AreaOf ==
  ASSUME Apart, NEW b \in BBMDs
  PROVE  /\ b \in Subnet(b) /\ Subnet(b) \cap BBMDs = {b} /\ Devices(b) \cap BBMDs = {}
         /\ \A p \in BBMDs : Subnet(b) \cap Devices(p) = {}
         /\ Area(b) \cap Beyond(b) = {}
         /\ \A p \in BBMDs \ {b} : Area(p) \subseteq Beyond(b) /\ Area(b) \cap Area(p) = {}
<1>1. /\ b \in Subnet(b) /\ Subnet(b) \cap BBMDs = {b} /\ Devices(b) \cap BBMDs = {}
      /\ \A p \in BBMDs : Subnet(b) \cap Devices(p) = {}
  BY StationsAssumption DEF Subnet, Devices, Apart
<1>2. ASSUME NEW p \in BBMDs \ {b}
      PROVE  Area(p) \subseteq Beyond(b) /\ Area(b) \cap Area(p) = {}
  <2>1. Area(p) \subseteq Beyond(b)
    BY DEF Beyond
  <2>2. /\ Subnet(b) \cap Subnet(p) = {} /\ Devices(b) \cap Devices(p) = {}
        /\ Subnet(b) \cap Devices(p) = {} /\ Subnet(p) \cap Devices(b) = {}
    BY StationsAssumption DEF Subnet, Devices, Apart
  <2>. QED  BY <2>1, <2>2 DEF Area
<1>3. Area(b) \cap Beyond(b) = {}
  BY <1>2 DEF Beyond
<1>. QED  BY <1>1, <1>2, <1>3

LEMMA WireIsDatagrams ==
  ASSUME NEW fn, NEW src, NEW s, NEW orig, NEW n, NEW e \in Wire(fn, src, s, orig, n)
  PROVE  e = Datagram(fn, src, e.dst, orig, n, "")
<1>1. PICK t : e = Datagram(fn, src, t, orig, n, "")
  BY DEF Wire
<1>2. e.dst = t
  BY <1>1 DEF Datagram
<1>. QED  BY <1>1, <1>2

LEMMA OnwardIsDatagrams ==
  ASSUME NEW b, NEW orig, NEW n, NEW exclude, NEW e \in Onward(b, orig, n, exclude)
  PROVE  e = Datagram("forwarded", b, e.dst, orig, n, "")
<1>1. \/ \E t : e = Datagram("forwarded", b, t, orig, n, "")
      \/ \E p : e \in Wire("forwarded", b, p, orig, n)
  BY DEF Onward, forward_to_peers_and_fds, forward_to_peers_and_fds6, ForwardToFDs,
         compute_forward_address
<1>2. CASE \E t : e = Datagram("forwarded", b, t, orig, n, "")
  <2>1. PICK t : e = Datagram("forwarded", b, t, orig, n, "")
    BY <1>2
  <2>2. e.dst = t
    BY <2>1 DEF Datagram
  <2>. QED  BY <2>1, <2>2
<1>3. CASE \E p : e \in Wire("forwarded", b, p, orig, n)
  <2>1. PICK p : e \in Wire("forwarded", b, p, orig, n)
    BY <1>3
  <2>. QED  BY <2>1, WireIsDatagrams
<1>. QED  BY <1>1, <1>2, <1>3

(* Where a datagram sent on by a BBMD goes: to a device of its own, or     *)
(* into the subnet of one other BBMD                                       *)
LEMMA OnwardWhere ==
  ASSUME TypesOK, NEW b \in BBMDs, NEW orig, NEW n, NEW exclude,
         NEW e \in Onward(b, orig, n, exclude)
  PROVE  \/ e.dst \in Devices(b) \ {exclude}
         \/ \E p \in BBMDs \ {b} : e.dst \in Subnet(p) /\ (directed = {} => e.dst = p)
<1>1. CASE e.dst \in DOMAIN fdt[b] \ {exclude}
  BY <1>1 DEF TypesOK, Devices
<1>2. ASSUME NEW p \in bdt[b] \ {b}, e.dst = p
      PROVE  p \in BBMDs \ {b} /\ e.dst \in Subnet(p) /\ e.dst = p
  BY <1>2, StationsAssumption DEF TypesOK, Subnet
<1>3. ASSUME NEW p \in bdt[b] \ {b}, e \in Wire("forwarded", b, p, orig, n), p \in directed
      PROVE  p \in BBMDs \ {b} /\ e.dst \in Subnet(p) /\ directed # {}
  <2>1. e.dst \in Stations /\ Home[e.dst] = Home[p]
    BY <1>3, WireFrames
  <2>. QED  BY <1>3, <2>1 DEF TypesOK, Subnet
<1>4. \/ e.dst \in DOMAIN fdt[b] \ {exclude}
      \/ \E p \in bdt[b] \ {b} :
           \/ e.dst = p /\ p # orig
           \/ e \in Wire("forwarded", b, p, orig, n) /\ p \in directed
  BY OnwardFrames
<1>. QED  BY <1>1, <1>2, <1>3, <1>4

LEMMA ReachOfOne ==
  ASSUME NEW e, e.fn \in {"original", "forwarded"}, e.dst \notin BBMDs
  PROVE  Reach(e) = {e.dst}
BY DEF Reach

LEMMA ReachOfPeer ==
  ASSUME Apart, NEW e, e.fn = "forwarded", NEW p \in BBMDs, e.dst \in Subnet(p),
         directed = {} => e.dst = p
  PROVE  Reach(e) \subseteq Area(p)
<1>1. e.dst \in BBMDs => e.dst = p
  BY AreaOf
<1>. QED  BY <1>1 DEF Reach, Area

LEMMA OnwardReach ==
  ASSUME Apart, TypesOK, NEW b \in BBMDs, NEW orig, NEW n, NEW exclude,
         NEW e \in Onward(b, orig, n, exclude)
  PROVE  /\ Reach(e) \subseteq (Devices(b) \cup Beyond(b)) \ {exclude} \/ exclude \notin Devices(b)
         /\ Reach(e) \subseteq Devices(b) \cup Beyond(b)
<1>0. e.fn = "forwarded"
  BY OnwardFrames
<1>1. CASE e.dst \in Devices(b) \ {exclude}
  <2>1. Reach(e) = {e.dst}
    BY <1>0, <1>1, AreaOf, ReachOfOne
  <2>. QED  BY <1>1, <2>1
<1>2. ASSUME NEW p \in BBMDs \ {b}, e.dst \in Subnet(p), directed = {} => e.dst = p
      PROVE  Reach(e) \subseteq Beyond(b)
  BY <1>0, <1>2, AreaOf, ReachOfPeer
<1>3. Devices(b) \cap Beyond(b) = {}
  BY AreaOf DEF Area
<1>. QED  BY <1>1, <1>2, <1>3, OnwardWhere

LEMMA OnwardApart ==
  ASSUME Apart, TypesOK, NEW b \in BBMDs, NEW orig, NEW n, NEW exclude,
         NEW e \in Onward(b, orig, n, exclude), NEW g \in Onward(b, orig, n, exclude), e # g
  PROVE  Reach(e) \cap Reach(g) = {}
<1>0. e.fn = "forwarded" /\ g.fn = "forwarded"
  BY OnwardFrames
<1>1. e.dst # g.dst
  BY OnwardIsDatagrams
<1>2. Devices(b) \cap Beyond(b) = {} /\ Devices(b) \cap BBMDs = {}
  BY AreaOf DEF Area
<1>3. ASSUME NEW d, NEW h, d.fn = "forwarded", h.fn = "forwarded", d.dst # h.dst,
             d.dst \in Devices(b),
             \/ h.dst \in Devices(b)
             \/ \E p \in BBMDs \ {b} : h.dst \in Subnet(p) /\ (directed = {} => h.dst = p)
      PROVE  Reach(d) \cap Reach(h) = {}
  <2>1. Reach(d) = {d.dst}
    BY <1>2, <1>3, ReachOfOne
  <2>2. CASE h.dst \in Devices(b)
    <3>1. Reach(h) = {h.dst}
      BY <1>2, <1>3, <2>2, ReachOfOne
    <3>. QED  BY <1>3, <2>1, <3>1
  <2>3. ASSUME NEW p \in BBMDs \ {b}, h.dst \in Subnet(p), directed = {} => h.dst = p
        PROVE  Reach(h) \subseteq Beyond(b)
    BY <1>3, <2>3, AreaOf, ReachOfPeer
  <2>. QED  BY <1>2, <1>3, <2>1, <2>2, <2>3
<1>4. ASSUME NEW p \in BBMDs \ {b}, e.dst \in Subnet(p), directed = {} => e.dst = p,
             NEW q \in BBMDs \ {b}, g.dst \in Subnet(q), directed = {} => g.dst = q
      PROVE  Reach(e) \cap Reach(g) = {}
  <2>1. CASE p # q
    <3>1. Reach(e) \subseteq Area(p) /\ Reach(g) \subseteq Area(q)
      BY <1>0, <1>4, ReachOfPeer
    <3>2. Area(p) \cap Area(q) = {}
      BY <2>1, AreaOf
    <3>. QED  BY <3>1, <3>2
  <2>2. CASE p = q
    <3>1. directed # {}
      BY <1>1, <1>4, <2>2
    <3>2. /\ Subnet(p) \cap BBMDs = {p} /\ Subnet(p) \cap Devices(p) = {}
      BY AreaOf
    <3>. QED  BY <1>0, <1>1, <1>4, <2>2, <3>1, <3>2 DEF Reach
  <2>. QED  BY <2>1, <2>2
<1>5. /\ \/ e.dst \in Devices(b)
         \/ \E p \in BBMDs \ {b} : e.dst \in Subnet(p) /\ (directed = {} => e.dst = p)
      /\ \/ g.dst \in Devices(b)
         \/ \E p \in BBMDs \ {b} : g.dst \in Subnet(p) /\ (directed = {} => g.dst = p)
  BY OnwardWhere
<1>. QED  BY <1>0, <1>1, <1>3, <1>4, <1>5

(* The datagrams out, among those of one broadcast, go to different places *)
(* that are all within a set.                                              *)
Within(out, n, where) ==
  /\ \A e \in out : Carries(e) =>
       /\ e.npdu = n /\ e.dst \in Reach(e) /\ Reach(e) \subseteq where
       /\ Outbound(e)
  /\ \A e, g \in out : Carries(e) /\ Carries(g) /\ e # g => Reach(e) \cap Reach(g) = {}

(* One datagram is replaced by others that cover less, and its NPDU is     *)
(* given to the station it came to.                                        *)
LEMMA RelayKeepsOnce ==
  ASSUME Base, OnceInv, UNCHANGED <<config, origin>>, MeshOK',
         NEW f \in DOMAIN frames, Carries(f), f.dst \in Reach(f),
         NEW out, Answering(f, out), Within(out, f.npdu, Reach(f) \ {f.dst}),
         NEW src, got' = got \/ Deliver(f.dst, f.npdu, src)
  PROVE  OnceInv'
<1>1. /\ frames[f] = 1 /\ f.dst # origin[f.npdu]
      /\ \A g \in DOMAIN frames :
           Carries(g) /\ g.npdu = f.npdu /\ g # f => Reach(f) \cap Reach(g) = {}
      /\ \A d \in DOMAIN got : d.npdu = f.npdu => d.to \notin Reach(f)
  BY DEF OnceInv, Once, Outbound
<1>2. /\ DOMAIN frames' = (DOMAIN frames \ {f}) \cup out
      /\ \A e : e # f =>
           Copies(frames', e) = Copies(frames, e) + (IF e \in out THEN 1 ELSE 0)
  <2>1. Copies(frames, f) = 1 /\ IsABag(frames)
    BY <1>1 DEF Copies, Base, SentOK
  <2>. QED  BY <2>1, AnsweringReplaces
<1>3. \A e \in out : Carries(e) =>
        /\ e.npdu = f.npdu /\ e.dst \in Reach(e) /\ Reach(e) \subseteq Reach(f) \ {f.dst}
        /\ Outbound(e) /\ e # f
  BY DEF Within
<1>4. \A e \in out : Carries(e) => e \notin DOMAIN frames
  <2>. SUFFICES ASSUME NEW e \in out, Carries(e), e \in DOMAIN frames PROVE FALSE
    OBVIOUS
  <2>1. Reach(f) \cap Reach(e) = {}
    BY <1>1, <1>3
  <2>. QED  BY <1>3, <2>1
<1>5. \A e : Reach(e)' = Reach(e)
  BY DEF Reach, config, Area, Beyond, Devices, Subnet
<1>6. \A e \in DOMAIN frames' : Carries(e) => frames'[e] = 1
  <2>. SUFFICES ASSUME NEW e \in DOMAIN frames', Carries(e) PROVE Copies(frames', e) = 1
    BY DEF Copies
  <2>1. e # f
    BY <1>2, <1>3
  <2>2. CASE e \in out
    BY <1>2, <1>4, <2>1, <2>2 DEF Copies
  <2>3. CASE e \notin out
    BY <1>2, <2>1, <2>3 DEF OnceInv, Once, Copies
  <2>. QED  BY <2>2, <2>3
<1>7. ASSUME NEW e \in DOMAIN frames', Carries(e), NEW g \in DOMAIN frames', Carries(g),
             g.npdu = e.npdu, g # e
      PROVE  Reach(e) \cap Reach(g) = {}
  <2>1. CASE e \in out /\ g \in out
    BY <1>7, <2>1 DEF Within
  <2>2. CASE e \notin out /\ g \notin out
    BY <1>2, <1>7, <2>2 DEF OnceInv, Once
  <2>3. ASSUME NEW c \in out, NEW d \in DOMAIN frames', d \notin out, Carries(c), Carries(d),
               c.npdu = d.npdu
        PROVE  Reach(c) \cap Reach(d) = {}
    <3>1. Reach(f) \cap Reach(d) = {} /\ Reach(c) \subseteq Reach(f)
      BY <1>1, <1>2, <1>3, <2>3
    <3>. QED  BY <3>1
  <2>4. CASE e \in out /\ g \notin out
    BY <1>7, <2>3, <2>4
  <2>5. CASE e \notin out /\ g \in out
    <3>1. Reach(g) \cap Reach(e) = {}
      BY <1>7, <2>3, <2>5
    <3>. QED  BY <3>1
  <2>. QED  BY <2>1, <2>2, <2>4, <2>5
<1>8. /\ got' = got \/ DOMAIN got' = DOMAIN got \cup {[to |-> f.dst, npdu |-> f.npdu, src |-> src]}
      /\ got' = got \/ \A e : Copies(got', e) =
           Copies(got, e) + (IF e = [to |-> f.dst, npdu |-> f.npdu, src |-> src] THEN 1 ELSE 0)
  BY DeliverAdds DEF Base, SentOK
<1>9. ASSUME NEW e \in DOMAIN frames', Carries(e), NEW d \in DOMAIN got', d.npdu = e.npdu
      PROVE  d.to \notin Reach(e)
  <2>1. CASE e \in out /\ d \in DOMAIN got
    BY <1>1, <1>3, <1>9, <2>1
  <2>2. CASE e \notin out /\ d \in DOMAIN got
    BY <1>2, <1>9, <2>2 DEF OnceInv, Once
  <2>3. CASE d \notin DOMAIN got
    <3>1. d.to = f.dst /\ d.npdu = f.npdu
      BY <1>8, <2>3
    <3>2. CASE e \in out
      BY <1>3, <1>9, <3>1, <3>2
    <3>3. CASE e \notin out
      <4>1. Reach(f) \cap Reach(e) = {}
        BY <1>1, <1>2, <1>9, <3>1, <3>3
      <4>. QED  BY <3>1, <4>1
    <3>. QED  BY <3>2, <3>3
  <2>. QED  BY <2>1, <2>2, <2>3
<1>10. OnceEach'
  <2>1. CASE got' = got
    BY <2>1 DEF OnceInv, Once, OnceEach
  <2>2. CASE got' # got
    <3>. DEFINE new == [to |-> f.dst, npdu |-> f.npdu, src |-> src]
    <3>1. new.to = f.dst /\ new.npdu = f.npdu
      OBVIOUS
    <3>. HIDE DEF new
    <3>2. \A d \in DOMAIN got : ~(d.npdu = f.npdu /\ d.to = f.dst)
      BY <1>1
    <3>3. /\ DOMAIN got' = DOMAIN got \cup {new} /\ new \notin DOMAIN got
          /\ \A e : Copies(got', e) = Copies(got, e) + (IF e = new THEN 1 ELSE 0)
      BY <1>8, <2>2, <3>1, <3>2 DEF new
    <3>4. \A d \in DOMAIN got : /\ d.to # origin[d.npdu] /\ got[d] = 1
                                /\ \A h \in DOMAIN got : d.to = h.to /\ d.npdu = h.npdu => d = h
      BY DEF OnceInv, Once, OnceEach, BagToSet
    <3>5. \A d \in DOMAIN got' : got'[d] = 1
      BY <3>3, <3>4 DEF Copies
    <3>. QED  BY <1>1, <3>1, <3>2, <3>3, <3>4, <3>5 DEF OnceEach, BagToSet
  <2>. QED  BY <2>1, <2>2
<1>11. \A e \in DOMAIN frames' : Outbound(e)'
  BY <1>2, <1>3 DEF OnceInv, Outbound
<1>. QED  BY <1>5, <1>6, <1>7, <1>9, <1>10, <1>11 DEF OnceInv, Once

(* A datagram that carries nothing is replaced by such, or one is lost.    *)
LEMMA QuietKeepsOnce ==
  ASSUME Base, OnceInv, UNCHANGED <<config, origin, got>>, MeshOK',
         \A e \in DOMAIN frames' : Carries(e) => e \in DOMAIN frames /\ frames'[e] = frames[e]
  PROVE  OnceInv'
<1>1. \A e : Reach(e)' = Reach(e)
  BY DEF Reach, config, Area, Beyond, Devices, Subnet
<1>2. \A e \in DOMAIN frames' : Outbound(e)'
  BY DEF OnceInv, Outbound
<1>3. OnceEach'
  BY DEF OnceInv, Once, OnceEach
<1>4. \A f \in DOMAIN frames' : Carries(f) =>
       /\ frames'[f] = 1
       /\ \A g \in DOMAIN frames' :
            Carries(g) /\ g.npdu = f.npdu /\ g # f => Reach(f) \cap Reach(g) = {}
       /\ \A d \in DOMAIN got' : d.npdu = f.npdu => d.to \notin Reach(f)
  BY DEF OnceInv, Once
<1>. QED  BY <1>1, <1>2, <1>3, <1>4 DEF OnceInv, Once

LEMMA AnswerKeepsOnce ==
  ASSUME Base, OnceInv, UNCHANGED <<config, origin, got>>, MeshOK',
         NEW f, NEW out, Answering(f, out), \A e \in out : ~Carries(e)
  PROVE  OnceInv'
<1>. SUFFICES ASSUME NEW e \in DOMAIN frames', Carries(e)
              PROVE  e \in DOMAIN frames /\ frames'[e] = frames[e]
  BY QuietKeepsOnce
<1>1. /\ DOMAIN frames' \subseteq DOMAIN frames \cup out
      /\ Copies(frames, f) = 1 => Copies(frames', f) = (IF f \in out THEN 1 ELSE 0)
      /\ Copies(frames, f) = 1 => DOMAIN frames' = (DOMAIN frames \ {f}) \cup out
      /\ e # f => Copies(frames', e) = Copies(frames, e) + (IF e \in out THEN 1 ELSE 0)
  BY AnsweringReplaces DEF Base, SentOK
<1>2. e \in DOMAIN frames /\ e \notin out /\ frames[e] = 1
  BY <1>1 DEF OnceInv, Once
<1>3. e # f
  BY <1>1, <1>2 DEF Copies
<1>. QED  BY <1>1, <1>2, <1>3 DEF Copies

LEMMA AdditionKeepsOnce ==
  ASSUME Base, OnceInv, UNCHANGED <<config, origin, got>>, MeshOK',
         NEW out, Sending(out), \A e \in out : ~Carries(e)
  PROVE  OnceInv'
<1>. SUFFICES ASSUME NEW e \in DOMAIN frames', Carries(e)
              PROVE  e \in DOMAIN frames /\ frames'[e] = frames[e]
  BY QuietKeepsOnce
<1>1. /\ DOMAIN frames' = DOMAIN frames \cup out
      /\ Copies(frames', e) = Copies(frames, e) + (IF e \in out THEN 1 ELSE 0)
  BY SendingAdds DEF Base, SentOK
<1>2. e \in DOMAIN frames /\ e \notin out /\ frames[e] = 1
  BY <1>1 DEF OnceInv, Once
<1>. QED  BY <1>1, <1>2 DEF Copies

LEMMA MeshStays ==
  ASSUME MeshOK, UNCHANGED <<config, bdt>>
  PROVE  MeshOK'
BY DEF MeshOK, config

(* What a BBMD b sends on for an originator that is neither one of its     *)
(* devices that are sent to nor anywhere beyond b                          *)
LEMMA OnwardWithin ==
  ASSUME Apart, TypesOK, NEW b \in BBMDs, NEW n \in DOMAIN origin, NEW exclude,
         origin[n] \in Subnet(b) \cup Devices(b), origin[n] \in Devices(b) => exclude = origin[n]
  PROVE  Within(Onward(b, origin[n], n, exclude), n, (Devices(b) \cup Beyond(b)) \ {origin[n]})
<1>. DEFINE out == Onward(b, origin[n], n, exclude)
<1>0. /\ Subnet(b) \cap BBMDs = {b} /\ Area(b) \cap Beyond(b) = {}
      /\ Subnet(b) \cap Devices(b) = {} /\ Devices(b) \cap BBMDs = {}
  BY AreaOf
<1>1. ASSUME NEW e \in out
      PROVE  /\ e.npdu = n /\ e.dst \in Reach(e)
             /\ Reach(e) \subseteq (Devices(b) \cup Beyond(b)) \ {origin[n]}
             /\ Outbound(e)
  <2>1. e.fn = "forwarded" /\ e.orig = origin[n] /\ e.npdu = n
    BY OnwardFrames
  <2>2. e.dst \in Reach(e)
    BY <2>1 DEF Reach
  <2>3. Reach(e) \subseteq (Devices(b) \cup Beyond(b)) \ {origin[n]}
    <3>1. /\ Reach(e) \subseteq (Devices(b) \cup Beyond(b)) \ {exclude} \/ exclude \notin Devices(b)
          /\ Reach(e) \subseteq Devices(b) \cup Beyond(b)
      BY OnwardReach
    <3>. QED  BY <1>0, <3>1 DEF Area
  <2>4. e.dst \in BBMDs => Home[origin[n]] # Home[e.dst]
    <3>. SUFFICES ASSUME e.dst \in BBMDs, Home[origin[n]] = Home[e.dst] PROVE FALSE
      OBVIOUS
    <3>1. e.dst \in Beyond(b)
      BY <1>0, <2>2, <2>3
    <3>2. e.dst \notin Subnet(b)
      BY <1>0, <3>1 DEF Area
    <3>. QED  BY <3>2, StationsAssumption DEF Apart, Devices, Subnet
  <2>5. Outbound(e)
    BY <2>1, <2>2, <2>3, <2>4 DEF Outbound
  <2>. QED  BY <2>1, <2>2, <2>3, <2>5
<1>2. \A e, g \in out : e # g => Reach(e) \cap Reach(g) = {}
  BY OnwardApart
<1>. HIDE DEF out
<1>. QED  BY <1>1, <1>2 DEF Within, out

(* What a BBMD puts on the wire of its own subnet                          *)
LEMMA RewiredWithin ==
  ASSUME Apart, NEW b \in BBMDs, NEW n \in DOMAIN origin, origin[n] \notin Subnet(b)
  PROVE  Within(Wire("forwarded", b, b, origin[n], n), n, Subnet(b) \ {b})
<1>. DEFINE out == Wire("forwarded", b, b, origin[n], n)
<1>0. Subnet(b) \cap BBMDs = {b}
  BY AreaOf
<1>1. ASSUME NEW e \in out
      PROVE  /\ e.fn = "forwarded" /\ e.npdu = n /\ e.dst \in Subnet(b) \ {b}
             /\ Reach(e) = {e.dst} /\ Outbound(e)
  <2>1. /\ e.fn = "forwarded" /\ e.orig = origin[n] /\ e.npdu = n
        /\ e.dst \in Stations /\ Home[e.dst] = Home[b] /\ e.dst # b
    BY WireFrames
  <2>2. e.dst \in Subnet(b) \ {b} /\ e.dst \notin BBMDs
    BY <1>0, <2>1 DEF Subnet
  <2>. QED  BY <2>1, <2>2, ReachOfOne DEF Outbound
<1>2. \A e, g \in out : e # g => e.dst # g.dst
  BY WireIsDatagrams
<1>. HIDE DEF out
<1>. QED  BY <1>1, <1>2 DEF Within, out

LEMMA DevicesWithin ==
  ASSUME Apart, TypesOK, NEW b \in BBMDs, NEW n \in DOMAIN origin
  PROVE  Within(ForwardToFDs(b, origin[n], n, origin[n]), n, Devices(b))
<1>. DEFINE out == ForwardToFDs(b, origin[n], n, origin[n])
<1>1. ASSUME NEW e \in out
      PROVE  /\ e.fn = "forwarded" /\ e.npdu = n /\ e.dst # origin[n]
             /\ e.dst \in Devices(b) /\ e.dst \notin BBMDs
             /\ e = Datagram("forwarded", b, e.dst, origin[n], n, "")
  <2>1. PICK t \in DOMAIN fdt[b] \ {origin[n]} : e = Datagram("forwarded", b, t, origin[n], n, "")
    BY DEF ForwardToFDs
  <2>2. e.fn = "forwarded" /\ e.dst = t /\ e.npdu = n
    BY <2>1 DEF Datagram
  <2>3. t \in Devices(b) /\ t \notin BBMDs
    BY AreaOf DEF TypesOK, Devices
  <2>. QED  BY <2>1, <2>2, <2>3
<1>2. \A e, g \in out : e # g => e.dst # g.dst
  BY <1>1
<1>3. \A e \in out : /\ e.npdu = n /\ e.dst \in Devices(b)
                     /\ Reach(e) = {e.dst} /\ Outbound(e)
  <2>1. \A e \in out : Reach(e) = {e.dst}
    BY <1>1 DEF Reach
  <2>2. \A e \in out : Outbound(e)
    BY <1>1 DEF Outbound
  <2>. QED  BY <1>1, <2>1, <2>2
<1>. HIDE DEF out
<1>4. Within(out, n, Devices(b))
  BY <1>2, <1>3 DEF Within
<1>. QED  BY <1>4 DEF out

LEMMA WithinBoth ==
  ASSUME NEW A, NEW B, NEW n, NEW S, NEW T, Within(A, n, S), Within(B, n, T), S \cap T = {}
  PROVE  Within(A \cup B, n, S \cup T)
<1>1. \A e \in A, g \in B : Carries(e) /\ Carries(g) =>
        Reach(e) \cap Reach(g) = {} /\ Reach(g) \cap Reach(e) = {}
  BY DEF Within
<1>2. \A e \in A \cup B : Carries(e) =>
        /\ e.npdu = n /\ e.dst \in Reach(e) /\ Reach(e) \subseteq S \cup T /\ Outbound(e)
  BY DEF Within
<1>3. \A e, g \in A \cup B : Carries(e) /\ Carries(g) /\ e # g => Reach(e) \cap Reach(g) = {}
  BY <1>1 DEF Within
<1>. QED  BY <1>2, <1>3 DEF Within

LEMMA WithinLess ==
  ASSUME NEW A, NEW B, NEW n, NEW S, NEW T, Within(A, n, S), B \subseteq A, S \subseteq T
  PROVE  Within(B, n, T)
BY DEF Within

LEMMA NothingWithin ==
  ASSUME NEW out, out = {}, NEW n, NEW S
  PROVE  Within(out, n, S)
BY DEF Within

LEMMA OriginalKeepsOnce ==
  ASSUME Apart, Base, OnceInv, NEW f \in Arrived("original"), handle_original_broadcast(f)
  PROVE  OnceInv'
<1>1. f \in DOMAIN frames /\ f.fn = "original" /\ FrameOK(f) /\ Carries(f)
  BY DEF Arrived, BagToSet, Base, SentOK, Carries
<1>2. /\ f.npdu \in DOMAIN origin /\ origin[f.npdu] = f.src
      /\ f.src \in Stations /\ Home[f.dst] = Home[f.src]
  BY <1>1 DEF FrameOK, Carries
<1>3. /\ UNCHANGED <<config, origin, bdt>> /\ Deliver(f.dst, f.npdu, f.src)
      /\ Answering(f, IF f.dst \in BBMDs THEN Forwarding(f.dst, f.src, f.npdu, NULL) ELSE {})
  BY DEF handle_original_broadcast, tables
<1>4. MeshOK'
  BY <1>3, MeshStays DEF OnceInv
<1>5. f.dst \in Reach(f)
  BY <1>1 DEF Reach
<1>6. PICK out : Answering(f, out) /\ Within(out, f.npdu, Reach(f) \ {f.dst})
  <2>1. CASE f.dst \in BBMDs
    <3>1. /\ f.src \in Subnet(f.dst) /\ f.src \notin Devices(f.dst)
          /\ f.dst \notin Devices(f.dst) \cup Beyond(f.dst)
      BY <1>2, <2>1, AreaOf DEF Subnet, Area
    <3>. DEFINE D == Devices(f.dst) \cup Beyond(f.dst)
                all == Onward(f.dst, origin[f.npdu], f.npdu, NULL)
    <3>2. Within(all, f.npdu, D \ {origin[f.npdu]})
      BY <1>2, <2>1, <3>1, OnwardWithin DEF Base, OnceInv
    <3>3. D \ {origin[f.npdu]} \subseteq Reach(f) \ {f.dst}
      BY <1>1, <2>1, <3>1 DEF Reach
    <3>4. Forwarding(f.dst, f.src, f.npdu, NULL) \subseteq all
      BY <1>2 DEF Forwarding, Onward
    <3>. HIDE DEF D, all
    <3>5. Within(Forwarding(f.dst, f.src, f.npdu, NULL), f.npdu, Reach(f) \ {f.dst})
      BY <3>2, <3>3, <3>4, WithinLess
    <3>. QED  BY <1>3, <2>1, <3>5
  <2>2. CASE f.dst \notin BBMDs
    BY <1>3, <2>2, NothingWithin
  <2>. QED  BY <2>1, <2>2
<1>. QED  BY <1>1, <1>3, <1>4, <1>5, <1>6, RelayKeepsOnce

LEMMA ForwardedKeepsOnce ==
  ASSUME Apart, Base, OnceInv, NEW f \in Arrived("forwarded"),
         \/ family = "v4" /\ handle_forwarded_npdu(f) /\ f.dst \in BBMDs
         \/ family = "v6" /\ handle_forwarded_npdu6(f) /\ f.dst \in BBMDs
         \/ receive_forwarded(f)
         \/ receive_forwarded6(f)
  PROVE  OnceInv'
<1>1. f \in DOMAIN frames /\ f.fn = "forwarded" /\ FrameOK(f) /\ Carries(f)
  BY DEF Arrived, BagToSet, Base, SentOK, Carries
<1>2. f.npdu \in DOMAIN origin /\ origin[f.npdu] = f.orig /\ f.src \in BBMDs
  BY <1>1 DEF FrameOK, Carries
<1>3. UNCHANGED <<config, origin, bdt>>
  BY DEF handle_forwarded_npdu, handle_forwarded_npdu6, receive_forwarded, receive_forwarded6,
         tables
<1>4. MeshOK'
  BY <1>3, MeshStays DEF OnceInv
<1>5. f.dst \in Reach(f)
  BY <1>1 DEF Reach
<1>6. PICK src : got' = got \/ Deliver(f.dst, f.npdu, src)
  BY DEF handle_forwarded_npdu, handle_forwarded_npdu6, receive_forwarded, receive_forwarded6
<1>7. PICK out : Answering(f, out) /\ Within(out, f.npdu, Reach(f) \ {f.dst})
  <2>1. CASE Answering(f, {})
    BY <2>1, NothingWithin
  <2>2. CASE ~Answering(f, {})
    <3>. DEFINE b == f.dst
                toDevices == ForwardToFDs(b, origin[f.npdu], f.npdu, origin[f.npdu])
                onWire == Wire("forwarded", b, b, origin[f.npdu], f.npdu)
    <3>1. /\ b \in BBMDs
          /\ \/ Answering(f, toDevices)
             \/ Answering(f, toDevices \cup onWire) /\ directed = {}
      <4>1. CASE family = "v4" /\ handle_forwarded_npdu(f) /\ f.dst \in BBMDs
        <5>1. is_unicast_bdt_mask(b, f.src) => directed = {}
          BY <1>2, <4>1 DEF is_unicast_bdt_mask, OnceInv, MeshOK
        <5>. QED  BY <1>2, <2>2, <4>1, <5>1 DEF handle_forwarded_npdu
      <4>2. CASE family = "v6" /\ handle_forwarded_npdu6(f) /\ f.dst \in BBMDs
        BY <1>2, <2>2, <4>2 DEF handle_forwarded_npdu6, Base, TypesOK
      <4>. QED  BY <2>2, <4>1, <4>2 DEF receive_forwarded, receive_forwarded6
    <3>2. /\ origin[f.npdu] \notin Subnet(b) /\ b \in Subnet(b)
          /\ Subnet(b) \cap Devices(b) = {} /\ Reach(f) = {b} \cup Devices(b) \cup
                                                (IF directed = {} THEN Subnet(b) ELSE {})
      BY <1>1, <1>2, <3>1, AreaOf DEF OnceInv, Outbound, Subnet, Reach
    <3>3. Within(toDevices, f.npdu, Devices(b))
      BY <1>2, <3>1, DevicesWithin DEF Base
    <3>4. Within(onWire, f.npdu, Subnet(b) \ {b})
      BY <1>2, <3>1, <3>2, RewiredWithin
    <3>. HIDE DEF b, toDevices, onWire
    <3>5. Within(toDevices \cup onWire, f.npdu, Devices(b) \cup (Subnet(b) \ {b}))
      BY <3>2, <3>3, <3>4, WithinBoth
    <3>6. CASE Answering(f, toDevices)
      <4>1. Devices(b) \subseteq Reach(f) \ {f.dst}
        BY <3>2 DEF b
      <4>2. Within(toDevices, f.npdu, Reach(f) \ {f.dst})
        BY <3>3, <4>1, WithinLess
      <4>. QED  BY <3>6, <4>2
    <3>7. CASE Answering(f, toDevices \cup onWire) /\ directed = {}
      <4>1. Devices(b) \cup (Subnet(b) \ {b}) \subseteq Reach(f) \ {f.dst}
        BY <3>2, <3>7 DEF b
      <4>2. Within(toDevices \cup onWire, f.npdu, Reach(f) \ {f.dst})
        BY <3>5, <4>1, WithinLess
      <4>. QED  BY <3>7, <4>2
    <3>. QED  BY <3>1, <3>6, <3>7
  <2>. QED  BY <2>1, <2>2
<1>. QED  BY <1>1, <1>3, <1>4, <1>5, <1>6, <1>7, RelayKeepsOnce

LEMMA DistributeKeepsOnce ==
  ASSUME Apart, Base, OnceInv, NEW f \in Arrived("distribute"),
         handle_distribute_broadcast(f) \/ handle_distribute_broadcast6(f)
  PROVE  OnceInv'
<1>1. f \in DOMAIN frames /\ f.fn = "distribute" /\ FrameOK(f) /\ Carries(f)
  BY DEF Arrived, BagToSet, Base, SentOK, Carries
<1>2. /\ f.npdu \in DOMAIN origin /\ origin[f.npdu] = f.src
      /\ f.dst \in BBMDs /\ f.src \in Devices(f.dst)
  BY <1>1, StationsAssumption DEF FrameOK, Carries, Devices
<1>3. UNCHANGED <<config, origin, bdt>>
  BY DEF handle_distribute_broadcast, handle_distribute_broadcast6, tables
<1>4. MeshOK'
  BY <1>3, MeshStays DEF OnceInv
<1>5. /\ f.dst \in Subnet(f.dst) /\ Subnet(f.dst) \cap Devices(f.dst) = {}
      /\ Area(f.dst) \cap Beyond(f.dst) = {}
  BY <1>2, AreaOf
<1>6. f.dst \in Reach(f)
  BY <1>1, <1>2, <1>5 DEF Reach, Area
<1>7. PICK src : got' = got \/ Deliver(f.dst, f.npdu, src)
  BY DEF handle_distribute_broadcast, handle_distribute_broadcast6
<1>8. PICK out : Answering(f, out) /\ Within(out, f.npdu, Reach(f) \ {f.dst})
  <2>. DEFINE b == f.dst
              onward == Onward(b, origin[f.npdu], f.npdu, origin[f.npdu])
              onWire == Wire("forwarded", b, b, origin[f.npdu], f.npdu)
              far == (Devices(b) \cup Beyond(b)) \ {origin[f.npdu]}
              near == Subnet(b) \ {b}
  <2>1. Within(onward, f.npdu, far)
    BY <1>2, OnwardWithin DEF Base, OnceInv
  <2>2. Within(onWire, f.npdu, near)
    BY <1>2, <1>5, RewiredWithin
  <2>3. far \cap near = {} /\ far \cup near \subseteq Reach(f) \ {f.dst}
    BY <1>1, <1>2, <1>5 DEF Reach, Area
  <2>4. PICK out : /\ Answering(f, out)
                   /\ \/ out \subseteq onward \cup onWire
                      \/ out = Result(b, f.src, "nak", "distribute")
    <3>1. \/ Answering(f, Result(b, f.src, "nak", "distribute"))
          \/ Answering(f, forward_to_peers_and_fds(b, f.src, f.npdu, f.src))
          \/ Answering(f, forward_to_peers_and_fds6(b, f.src, f.npdu, f.src) \cup onWire)
      BY <1>2 DEF handle_distribute_broadcast, handle_distribute_broadcast6
    <3>2. /\ forward_to_peers_and_fds(b, f.src, f.npdu, f.src) \subseteq onward
          /\ forward_to_peers_and_fds6(b, f.src, f.npdu, f.src) \subseteq onward
      BY <1>2 DEF Onward
    <3>. HIDE DEF b, onward, onWire
    <3>. QED  BY <3>1, <3>2
  <2>. HIDE DEF b, onward, onWire, far, near
  <2>5. Within(onward \cup onWire, f.npdu, far \cup near)
    BY <2>1, <2>2, <2>3, WithinBoth
  <2>6. CASE out \subseteq onward \cup onWire
    BY <2>3, <2>4, <2>5, <2>6, WithinLess
  <2>7. CASE out = Result(b, f.src, "nak", "distribute")
    BY <2>4, <2>7 DEF Within, Result, ResultOf, Datagram, Carries
  <2>. QED  BY <2>4, <2>6, <2>7
<1>. QED  BY <1>1, <1>3, <1>4, <1>6, <1>7, <1>8, RelayKeepsOnce

(* What a station sends for a broadcast of its own                         *)
LEMMA OriginalsApart ==
  ASSUME Apart, NEW s \in Stations, NEW n,
         NEW e \in Wire("original", s, s, s, n), NEW g \in Wire("original", s, s, s, n), e # g
  PROVE  Reach(e) \cap Reach(g) = {}
<1>1. /\ e.fn = "original" /\ e.dst \in Stations /\ Home[e.dst] = Home[s]
      /\ g.fn = "original" /\ g.dst \in Stations /\ Home[g.dst] = Home[s]
  BY WireFrames
<1>2. e.dst # g.dst
  BY WireIsDatagrams
<1>3. ASSUME NEW c, NEW d, c.fn = "original", d.fn = "original", c.dst # d.dst,
             c.dst \in Stations, d.dst \in Stations, Home[c.dst] = Home[d.dst], c.dst \in BBMDs
      PROVE  Reach(c) \cap Reach(d) = {}
  <2>1. d.dst \in Subnet(c.dst) \ {c.dst}
    BY <1>3 DEF Subnet
  <2>2. d.dst \notin BBMDs /\ d.dst \notin Devices(c.dst) \cup Beyond(c.dst)
    BY <1>3, <2>1, AreaOf DEF Area
  <2>3. Reach(d) = {d.dst}
    BY <1>3, <2>2, ReachOfOne
  <2>4. Reach(c) = {c.dst} \cup Devices(c.dst) \cup Beyond(c.dst)
    BY <1>3 DEF Reach
  <2>. QED  BY <2>1, <2>2, <2>3, <2>4
<1>4. CASE e.dst \in BBMDs
  BY <1>1, <1>2, <1>3, <1>4
<1>5. CASE g.dst \in BBMDs
  <2>1. Reach(g) \cap Reach(e) = {}
    BY <1>1, <1>2, <1>3, <1>5
  <2>. QED  BY <2>1
<1>6. CASE e.dst \notin BBMDs /\ g.dst \notin BBMDs
  <2>1. Reach(e) = {e.dst} /\ Reach(g) = {g.dst}
    BY <1>1, <1>6, ReachOfOne
  <2>. QED  BY <1>2, <2>1
<1>. QED  BY <1>4, <1>5, <1>6

LEMMA BroadcastApart ==
  ASSUME Apart, TypesOK, NEW s \in Stations, NEW n, NEW out,
         out = Wire("original", s, s, s, n) \cup
               (IF s \in BBMDs THEN Forwarding(s, s, n, NULL) ELSE {})
  PROVE  /\ \A e, g \in out : e # g => Reach(e) \cap Reach(g) = {}
         /\ \A e \in out : /\ e.dst \in Reach(e) /\ e.dst # s
                           /\ e.fn = "forwarded" /\ e.dst \in BBMDs => Home[e.orig] # Home[e.dst]
<1>. DEFINE local == Wire("original", s, s, s, n)
            onward == Forwarding(s, s, n, NULL)
<1>1. ASSUME NEW e \in local
      PROVE  /\ e.fn = "original" /\ e.dst \in Reach(e) /\ e.dst # s
             /\ e.dst \in Subnet(s)
  <2>1. e.fn = "original" /\ e.dst \in Stations /\ Home[e.dst] = Home[s] /\ e.dst # s
    BY WireFrames
  <2>. QED  BY <2>1 DEF Reach, Subnet
<1>2. ASSUME s \in BBMDs, NEW e \in onward
      PROVE  /\ e.fn = "forwarded" /\ e.dst \in Reach(e) /\ e.orig = s
             /\ Reach(e) \subseteq Devices(s) \cup Beyond(s)
             /\ e \in Onward(s, s, n, NULL)
  <2>1. e \in Onward(s, s, n, NULL)
    BY <1>2 DEF Forwarding, Onward
  <2>2. e.fn = "forwarded" /\ e.orig = s
    BY <1>2, <2>1, OnwardFrames
  <2>3. Reach(e) \subseteq Devices(s) \cup Beyond(s)
    BY <1>2, <2>1, OnwardReach
  <2>. QED  BY <2>1, <2>2, <2>3 DEF Reach
<1>3. s \in BBMDs => /\ s \in Subnet(s) /\ Subnet(s) \cap BBMDs = {s}
                     /\ Subnet(s) \cap (Devices(s) \cup Beyond(s)) = {}
                     /\ Devices(s) \cap BBMDs = {}
  BY AreaOf DEF Area
<1>4. ASSUME s \in BBMDs, NEW e \in local, NEW g \in onward
      PROVE  Reach(e) \cap Reach(g) = {}
  <2>1. e.dst \in Subnet(s) /\ e.dst \notin BBMDs
    BY <1>1, <1>3, <1>4
  <2>2. Reach(e) = {e.dst}
    BY <1>1, <2>1, ReachOfOne
  <2>. QED  BY <1>2, <1>3, <1>4, <2>1, <2>2
<1>5. ASSUME NEW e \in out, NEW g \in out, e # g
      PROVE  Reach(e) \cap Reach(g) = {}
  <2>1. CASE e \in local /\ g \in local
    BY <1>5, <2>1, OriginalsApart
  <2>2. CASE s \in BBMDs /\ e \in local /\ g \in onward
    BY <1>4, <2>2
  <2>3. CASE s \in BBMDs /\ e \in onward /\ g \in local
    <3>1. Reach(g) \cap Reach(e) = {}
      BY <1>4, <2>3
    <3>. QED  BY <3>1
  <2>4. CASE s \in BBMDs /\ e \in onward /\ g \in onward
    <3>1. e \in Onward(s, s, n, NULL) /\ g \in Onward(s, s, n, NULL)
      BY <1>2, <2>4
    <3>. QED  BY <1>5, <2>4, <3>1, OnwardApart
  <2>. QED  BY <1>5, <2>1, <2>2, <2>3, <2>4
<1>6. ASSUME NEW e \in out
      PROVE  /\ e.dst \in Reach(e) /\ e.dst # s
             /\ e.fn = "forwarded" /\ e.dst \in BBMDs => Home[e.orig] # Home[e.dst]
  <2>1. CASE e \in local
    BY <1>1, <2>1
  <2>2. CASE s \in BBMDs /\ e \in onward
    <3>1. e.dst \in Devices(s) \cup Beyond(s) /\ e.orig = s
      BY <1>2, <2>2
    <3>2. e.dst \notin Subnet(s)
      BY <1>3, <2>2, <3>1
    <3>3. e.dst \in BBMDs => Home[s] # Home[e.dst]
      BY <2>2, <3>2, StationsAssumption DEF Subnet
    <3>. QED  BY <1>2, <1>3, <2>2, <3>1, <3>2, <3>3
  <2>. QED  BY <1>6, <2>1, <2>2
<1>. QED  BY <1>5, <1>6

LEMMA BroadcastKeepsOnce ==
  ASSUME Apart, Base, OnceInv, NEW s \in Stations, send_broadcast(s)
  PROVE  OnceInv'
<1>. DEFINE n == Cardinality(DOMAIN origin) + 1
<1>1. /\ n \notin DOMAIN origin /\ DOMAIN origin' = DOMAIN origin \cup {n} /\ origin'[n] = s
      /\ \A i \in DOMAIN origin : origin'[i] = origin[i]
  BY NextNPDU DEF Base
<1>2. UNCHANGED <<config, bdt, got>>
  BY DEF send_broadcast, tables
<1>3. PICK out : /\ Sending(out)
                 /\ \A e \in out : FrameOK(e)' /\ Carries(e) /\ e.npdu = n
                 /\ \/ /\ s \in attached \cap registered
                       /\ out = {Datagram("distribute", s, BBMDOf[s], s, n, "")}
                    \/ /\ s \notin attached \cap registered
                       /\ out = Wire("original", s, s, s, n) \cup
                                (IF s \in BBMDs THEN Forwarding(s, s, n, NULL) ELSE {})
  BY BroadcastFrames
<1>. HIDE DEF n
<1>4. /\ \A e, g \in out : e # g => Reach(e) \cap Reach(g) = {}
      /\ \A e \in out : /\ e.dst # s
                        /\ e.fn = "forwarded" /\ e.dst \in BBMDs => Home[e.orig] # Home[e.dst]
  <2>1. CASE /\ s \in attached \cap registered
             /\ out = {Datagram("distribute", s, BBMDOf[s], s, n, "")}
    <3>1. PICK e : out = {e} /\ e = Datagram("distribute", s, BBMDOf[s], s, n, "")
      BY <2>1
    <3>2. e.dst = BBMDOf[s] /\ e.fn = "distribute"
      BY <3>1 DEF Datagram
    <3>3. s \in Foreign
      BY <2>1 DEF Base, TypesOK
    <3>4. BBMDOf[s] # s
      BY <3>3, StationsAssumption
    <3>. QED  BY <3>1, <3>2, <3>4
  <2>2. CASE out = Wire("original", s, s, s, n) \cup
                   (IF s \in BBMDs THEN Forwarding(s, s, n, NULL) ELSE {})
    BY <2>2, BroadcastApart DEF Base, OnceInv
  <2>. QED  BY <1>3, <2>1, <2>2
<1>5. \A e \in DOMAIN frames : Carries(e) => e.npdu \in DOMAIN origin /\ e.npdu # n /\ e \notin out
  BY <1>1, <1>3 DEF Base, SentOK, FrameOK
<1>6. \A d \in DOMAIN got : d.npdu \in DOMAIN origin /\ d.npdu # n
  BY <1>1 DEF Base, SentOK
<1>7. /\ DOMAIN frames' = DOMAIN frames \cup out
      /\ \A e : Copies(frames', e) = Copies(frames, e) + (IF e \in out THEN 1 ELSE 0)
  BY <1>3, SendingAdds DEF Base, SentOK
<1>8. \A e : Reach(e)' = Reach(e)
  BY <1>2 DEF Reach, config, Area, Beyond, Devices, Subnet
<1>9. \A e \in DOMAIN frames' : Carries(e) => frames'[e] = 1
  <2>. SUFFICES ASSUME NEW e \in DOMAIN frames', Carries(e) PROVE Copies(frames', e) = 1
    BY DEF Copies
  <2>1. CASE e \in out
    <3>1. e \notin DOMAIN frames
      BY <1>5, <2>1
    <3>. QED  BY <1>7, <2>1, <3>1 DEF Copies
  <2>2. CASE e \notin out
    BY <1>7, <2>2 DEF OnceInv, Once, Copies
  <2>. QED  BY <2>1, <2>2
<1>10. \A e, g \in DOMAIN frames' :
         Carries(e) /\ Carries(g) /\ g.npdu = e.npdu /\ g # e => Reach(e) \cap Reach(g) = {}
  BY <1>3, <1>4, <1>5, <1>7 DEF OnceInv, Once
<1>11. \A e \in DOMAIN frames' : Carries(e) =>
         \A d \in DOMAIN got' : d.npdu = e.npdu => d.to \notin Reach(e)
  BY <1>2, <1>3, <1>6, <1>7 DEF OnceInv, Once
<1>12. OnceEach'
  BY <1>1, <1>2, <1>6 DEF OnceInv, Once, OnceEach, BagToSet
<1>13. \A e \in DOMAIN frames' : Outbound(e)'
  <2>1. \A e \in DOMAIN frames : Outbound(e)'
    BY <1>1, <1>5 DEF OnceInv, Outbound
  <2>2. \A e \in out : Outbound(e)'
    BY <1>1, <1>3, <1>4 DEF Outbound
  <2>. QED  BY <1>7, <2>1, <2>2
<1>14. MeshOK'
  BY <1>2, MeshStays DEF OnceInv
<1>. QED  BY <1>8, <1>9, <1>10, <1>11, <1>12, <1>13, <1>14 DEF OnceInv, Once

(* Everything but broadcasts and what is done with them                    *)
LEMMA OtherKeepsOnce ==
  ASSUME Base, OnceInv, UNCHANGED <<config, origin, got>>, MeshOK',
         \/ \E f, out : Answering(f, out) /\ \A e \in out : ~Carries(e)
         \/ \E out : Sending(out) /\ \A e \in out : ~Carries(e)
  PROVE  OnceInv'
BY AnswerKeepsOnce, AdditionKeepsOnce

LEMMA NoneCarried ==
  ASSUME NEW fn, fn \notin {"original", "forwarded", "distribute"},
         NEW src, NEW dst, NEW orig, NEW n, NEW arg,
         NEW e \in {Datagram(fn, src, dst, orig, n, arg)}
  PROVE  ~Carries(e)
<1>1. PICK d : d = Datagram(fn, src, dst, orig, n, arg) /\ e = d
  OBVIOUS
<1>2. d.fn = fn
  BY <1>1 DEF Datagram
<1>. QED  BY <1>1, <1>2 DEF Carries

LEMMA ControlKeepsOnce ==
  ASSUME Base, OnceInv, NEW f,
         \/ \E lifetime : Entered(f, lifetime)
         \/ handle_delete_fdt_entry(f) \/ handle_read(f) \/ send_bvlc_nak(f)
         \/ handle_bvlc_result(f) \/ Lose(f)
  PROVE  OnceInv'
<1>1. UNCHANGED <<config, origin, got, bdt>>
  BY DEF Entered, handle_delete_fdt_entry, handle_read, send_bvlc_nak, handle_bvlc_result, Lose,
         tables
<1>2. MeshOK'
  BY <1>1, MeshStays DEF OnceInv
<1>3. PICK out : Answering(f, out) /\ \A e \in out : ~Carries(e)
  <2>1. CASE Answering(f, {})
    BY <2>1
  <2>2. CASE \E n, code, re : Answering(f, ResultOf(n, f.dst, f.src, code, re))
    BY <2>2, NoneCarried DEF ResultOf
  <2>3. CASE \E n : Answering(f, {Datagram("ack", f.dst, f.src, NULL, n, f.arg)})
    BY <2>3, NoneCarried
  <2>. QED
    BY <2>1, <2>2, <2>3 DEF Entered, Result, handle_delete_fdt_entry, handle_read, send_bvlc_nak,
                            handle_bvlc_result, Lose
<1>. QED  BY <1>1, <1>2, <1>3, AnswerKeepsOnce

(* A BDT that is written with masks is the whole mesh.                     *)
LEMMA WriteKeepsOnce ==
  ASSUME UniformMasks, Meshed, Base, OnceInv,
         NEW f \in Arrived("write"), f.dst \in BBMDs, handle_write_bdt(f)
  PROVE  OnceInv'
<1>1. UNCHANGED <<config, origin, got>>
  BY DEF handle_write_bdt
<1>2. f.orig \in Tables[directed] /\ (directed # {} => directed \in Masks \ {{}})
  BY DEF Arrived, BagToSet, Base, TypesOK, SentOK, FrameOK
<1>3. MeshOK'
  <2>1. directed # {} => f.orig = BBMDs
    BY <1>2 DEF Meshed
  <2>2. bdt' = bdt \/ bdt' = [bdt EXCEPT ![f.dst] = f.orig]
    BY DEF handle_write_bdt
  <2>3. bdt \in [BBMDs -> SUBSET BBMDs]
    BY DEF Base, TypesOK
  <2>. QED  BY <1>1, <2>1, <2>2, <2>3 DEF OnceInv, MeshOK, config
<1>4. PICK code : Answering(f, ResultOf(f.npdu, f.dst, f.src, code, "write"))
  BY DEF handle_write_bdt
<1>5. \A e \in ResultOf(f.npdu, f.dst, f.src, code, "write") : ~Carries(e)
  BY NoneCarried DEF ResultOf
<1>. QED  BY <1>1, <1>3, <1>4, <1>5, AnswerKeepsOnce

(* One that is read back after a restart, too                              *)
LEMMA RestartKeepsOnce ==
  ASSUME UniformMasks, Meshed, Base, OnceInv, NEW b \in BBMDs, restart_bbmd(b)
  PROVE  OnceInv'
<1>1. UNCHANGED <<config, origin, got>>
  BY DEF restart_bbmd
<1>2. MeshOK'
  <2>1. directed # {} => directed \in Masks \ {{}}
    BY DEF Base, TypesOK
  <2>2. directed # {} => load_bdt_backup(b, backup[b]) = BBMDs
    <3>. SUFFICES ASSUME directed # {} PROVE load_bdt_backup(b, backup[b]) = BBMDs
      OBVIOUS
    <3>1. load_bdt_backup(b, Saved[b]) = BBMDs
      BY <2>1 DEF Meshed
    <3>2. backup[b] = BBMDs
      BY DEF OnceInv, MeshOK, Base, TypesOK, BackupIsCurrent
    <3>. QED  BY <3>1, <3>2 DEF load_bdt_backup
  <2>3. bdt' = [bdt EXCEPT ![b] = load_bdt_backup(b, backup[b])]
    BY DEF restart_bbmd
  <2>4. bdt \in [BBMDs -> SUBSET BBMDs]
    BY DEF Base, TypesOK
  <2>. QED  BY <1>1, <2>2, <2>3, <2>4 DEF OnceInv, MeshOK, config
<1>3. \A e \in DOMAIN frames' : e \in DOMAIN frames /\ frames'[e] = frames[e]
  BY DEF restart_bbmd
<1>. QED  BY <1>1, <1>2, <1>3, QuietKeepsOnce

LEMMA DeviceKeepsOnce ==
  ASSUME Base, OnceInv,
         \/ \E f \in Foreign : registration_loop(f) \/ deregister_foreign_device(f)
         \/ \E m, b, op, what : Call(m, b, op, what)
  PROVE  OnceInv'
<1>1. UNCHANGED <<config, origin, got, bdt>>
  BY DEF registration_loop, deregister_foreign_device, Call, bvlc_request, tables
<1>2. MeshOK'
  BY <1>1, MeshStays DEF OnceInv
<1>3. PICK out : Sending(out) /\ \A e \in out : ~Carries(e)
  <2>1. CASE Sending({})
    BY <2>1
  <2>2. CASE \E f : Sending({Datagram("register", f, BBMDOf[f], NULL, 0, "register")})
    BY <2>2, NoneCarried
  <2>3. CASE \E f : Sending({Datagram("delete", f, BBMDOf[f], f, 0, "delete")})
    BY <2>3, NoneCarried
  <2>4. CASE \E m, b, op, what : Call(m, b, op, what)
    <3>1. PICK m, b, op, what : Call(m, b, op, what)
      BY <2>4
    <3>a. PICK e : e = Datagram(Function(op), m, b, what, events + 1, op)
      OBVIOUS
    <3>2. Sending({e}) /\ e.fn \in {"read", "write", "delete"}
      BY <3>1, <3>a, CallSends
    <3>3. PICK out : out = {e} /\ Sending(out)
      BY <3>2
    <3>. QED  BY <3>2, <3>3 DEF Carries
  <2>. QED
    BY <2>1, <2>2, <2>3, <2>4 DEF registration_loop, deregister_foreign_device
<1>. QED  BY <1>1, <1>2, <1>3, AdditionKeepsOnce

LEMMA NextOnce ==
  ASSUME Apart, UniformMasks, Meshed, Base, OnceInv, [Next]_vars
  PROVE  OnceInv'
<1>1. CASE \E s \in Stations : send_broadcast(s)
  BY <1>1, BroadcastKeepsOnce
<1>2. CASE on_datagram_received
  <2>1. CASE \E f \in Arrived("original") : handle_original_broadcast(f)
    BY <2>1, OriginalKeepsOnce
  <2>2. CASE family = "v4" /\ \E f \in Arrived("forwarded") :
               IF f.dst \in BBMDs THEN handle_forwarded_npdu(f) ELSE receive_forwarded(f)
    BY <2>2, ForwardedKeepsOnce
  <2>3. CASE family = "v6" /\ \E f \in Arrived("forwarded") :
               IF f.dst \in BBMDs THEN handle_forwarded_npdu6(f) ELSE receive_forwarded6(f)
    BY <2>3, ForwardedKeepsOnce
  <2>4. CASE \E f \in Arrived("distribute") :
               handle_distribute_broadcast(f) \/ handle_distribute_broadcast6(f)
    BY <2>4, DistributeKeepsOnce
  <2>5. CASE \E f \in Arrived("write") : f.dst \in BBMDs /\ handle_write_bdt(f)
    BY <2>5, WriteKeepsOnce
  <2>6. CASE \E f : \/ \E lifetime : Entered(f, lifetime)
                    \/ handle_delete_fdt_entry(f) \/ handle_read(f) \/ send_bvlc_nak(f)
                    \/ handle_bvlc_result(f)
    BY <2>6, ControlKeepsOnce
  <2>. QED
    BY <1>2, <2>1, <2>2, <2>3, <2>4, <2>5, <2>6
       DEF on_datagram_received, handle_register_foreign_device, handle_register_foreign_device6
<1>3. CASE \E b \in BBMDs : restart_bbmd(b)
  BY <1>3, RestartKeepsOnce
<1>4. CASE \E f \in Foreign : registration_loop(f) \/ deregister_foreign_device(f)
  BY <1>4, DeviceKeepsOnce
<1>5. CASE \E m \in Managers : client_call(m)
  BY <1>5, CallCases, DeviceKeepsOnce
<1>6. CASE \E f : Lose(f)
  BY <1>6, ControlKeepsOnce
<1>7. CASE \/ \E b \in BBMDs : purge_expired_fdt_entries(b)
           \/ \E f \in Foreign : attach_foreign_device(f)
           \/ \E c \in DOMAIN call : finish_bvlc_request(c)
           \/ Tick \/ UNCHANGED vars
  <2>1. UNCHANGED <<config, origin, got, bdt, frames>>
    BY <1>7 DEF purge_expired_fdt_entries, attach_foreign_device, finish_bvlc_request, Tick, vars,
                tables
  <2>2. MeshOK'
    BY <2>1, MeshStays DEF OnceInv
  <2>. QED  BY <2>1, <2>2, QuietKeepsOnce
<1>. QED
  BY <1>1, <1>2, <1>3, <1>4, <1>5, <1>6, <1>7 DEF Next

LEMMA InitOnce ==
  ASSUME UniformMasks, Meshed, Init
  PROVE  OnceInv
<1>1. DOMAIN frames = {} /\ DOMAIN got = {}
  BY DEF Init, EmptyBag, SetToBag
<1>2. MeshOK
  BY StationsAssumption DEF Init, MeshOK, UniformMasks, Meshed
<1>. QED  BY <1>1, <1>2 DEF OnceInv, Once, OnceEach, BagToSet

(* Whichever BBMDs and foreign devices pass a broadcast on, and whenever   *)
(* they register, time out, restart or have their tables written, no       *)
(* network layer is given it twice and none is given what it sent itself   *)
(* (handle_original_broadcast, handle_forwarded_npdu and                   *)
(* handle_distribute_broadcast of bbmd.py and bbmd6.py); in IPv4 all are   *)
(* told who sent it.                                                       *)
THEOREM DeliveredOnceTheorem ==
  ASSUME Apart, UniformMasks, Meshed
  PROVE  Spec => []DeliveredOnce
<1>. DEFINE Inv == Base /\ CallsOK /\ OnceInv
<1>1. Init => Inv
  BY InitBase, InitCalls, InitOnce
<1>2. Inv /\ [Next]_vars => Inv'
  BY NextBase, NextCalls, NextOnce
<1>3. Inv => DeliveredOnce
  BY BaseIsTyped DEF DeliveredOnce, OnceInv, Once, Base, SentOK, CallsOK
<1>. QED  BY <1>1, <1>2, <1>3, PTL DEF Spec

-----------------------------------------------------------------------------
(* Renewals come in time: an entry lives longer than it takes until the    *)
(* next renewal, or the one after if a datagram was lost, has arrived.     *)

Life(f) == TTL[f] + Grace
Left(f) == fdt[BBMDOf[f]][f]
Listed(f) == f \in DOMAIN fdt[BBMDOf[f]]
Missed(f) == IF losses = 0 THEN RenewalInterval(f) ELSE 2 * RenewalInterval(f)

Registering(f) == \E g \in DOMAIN frames : g.fn = "register" /\ g.src = f
Confirms(g, f) == g.fn = "result" /\ g.orig = "ok" /\ g.dst = f
Confirming(f) == \E g \in DOMAIN frames : Confirms(g, f)

(* What is left of the time to live, after the renewals that were missed   *)
InTime(f) ==
  /\ renewal[f] <= RenewalInterval(f)
  /\ Confirming(f) /\ f \notin dropped => Listed(f) /\ Left(f) = Life(f)
  /\ f \in registered /\ f \notin dropped =>
       /\ Listed(f)
       /\ Left(f) >= Life(f) - Missed(f) + (IF Registering(f) THEN 0 ELSE renewal[f])

(* Foreign devices have only their own entries deleted.                    *)
AskedOK(g) ==
  /\ g.fn \in {"read", "write"} => g.src \notin Foreign
  /\ g.fn = "delete" /\ g.src \in Foreign => g.orig = g.src

RenewalInv ==
  /\ losses \in Nat
  /\ \A g \in DOMAIN frames : AskedOK(g)
  /\ \A b \in BBMDs : DOMAIN fdt[b] # {} => b \in Accepting
  /\ \A f \in Foreign : InTime(f)

LEMMA Times ==
  ASSUME RenewedInTime, NEW f \in Foreign
  PROVE  /\ RenewalInterval(f) \in Nat /\ Life(f) \in Nat
         /\ 2 * RenewalInterval(f) < Life(f) /\ BBMDOf[f] \in BBMDs
         /\ Missed(f) \in Nat /\ RenewalInterval(f) <= Missed(f) /\ Missed(f) < Life(f)
<1>1. RenewalInterval(f) \in Nat /\ TTL[f] \in Nat /\ Grace \in Nat
  BY RenewalKeepsNat, TimesAssumption
<1>2. 2 * RenewalInterval(f) < TTL[f] + Grace
  <2>1. \A t \in Nat : 2 * ((t + 1) \div 2) = t + (t % 2)
    OBVIOUS
  <2>2. TTL[f] \in Nat /\ TTL[f] % 2 < Grace
    BY TimesAssumption DEF RenewedInTime
  <2>. QED  BY <1>1, <2>1, <2>2 DEF RenewalInterval
<1>3. BBMDOf[f] \in BBMDs
  BY StationsAssumption
<1>. HIDE DEF RenewalInterval
<1>. QED  BY <1>1, <1>2, <1>3 DEF Life, Missed

(* Datagrams that neither register a device nor confirm a registration     *)
Harmless(g) == g.fn # "register" /\ (\A f \in Foreign : ~Confirms(g, f)) /\ AskedOK(g)

LEMMA FramesKeepRenewal ==
  ASSUME RenewedInTime, Base, RenewalInv, UNCHANGED <<fdt, renewal, losses, dropped>>,
         \A f \in registered' : f \in registered \/ Confirming(f),
         NEW out, DOMAIN frames' \subseteq DOMAIN frames \cup out, \A e \in out : Harmless(e),
         \A g \in DOMAIN frames : g.fn = "register" => g \in DOMAIN frames'
  PROVE  RenewalInv'
<1>1. \A g \in DOMAIN frames' : AskedOK(g)
  BY DEF RenewalInv, Harmless
<1>2. ASSUME NEW f \in Foreign
      PROVE  InTime(f)'
  <2>1. Registering(f)' <=> Registering(f)
    BY DEF Registering, Harmless
  <2>2. Confirming(f)' => Confirming(f)
    BY DEF Confirming, Harmless
  <2>3. /\ Left(f)' = Left(f) /\ (Listed(f)' <=> Listed(f)) /\ Missed(f)' = Missed(f)
        /\ Life(f)' = Life(f) /\ RenewalInterval(f)' = RenewalInterval(f)
    BY DEF Left, Listed, Missed, Life, RenewalInterval
  <2>4. InTime(f) /\ renewal[f] \in Nat
    BY DEF RenewalInv, Base, TypesOK
  <2>5. /\ RenewalInterval(f) \in Nat /\ Life(f) \in Nat /\ Missed(f) \in Nat
        /\ RenewalInterval(f) <= Missed(f)
    BY Times
  <2>6. f \in registered' => f \in registered \/ Confirming(f)
    OBVIOUS
  <2>. QED  BY <2>1, <2>2, <2>3, <2>4, <2>5, <2>6 DEF InTime
<1>. QED  BY <1>1, <1>2 DEF RenewalInv

LEMMA CarriersHarmless ==
  ASSUME NEW e, Carries(e) \/ (e.fn = "result" /\ e.orig = "nak")
  PROVE  Harmless(e)
BY DEF Carries, Harmless, Confirms, AskedOK

LEMMA BroadcastKeepsRenewal ==
  ASSUME RenewedInTime, Base, RenewalInv, NEW s \in Stations, send_broadcast(s)
  PROVE  RenewalInv'
<1>1. PICK out : Sending(out) /\ \A e \in out : Carries(e)
  BY BroadcastFrames
<1>2. DOMAIN frames' = DOMAIN frames \cup out
  BY <1>1, SendingAdds DEF Base, SentOK
<1>3. \A e \in out : Harmless(e)
  BY <1>1, CarriersHarmless
<1>4. UNCHANGED <<fdt, renewal, losses, dropped, registered>>
  BY DEF send_broadcast, tables, devices
<1>. QED  BY <1>2, <1>3, <1>4, FramesKeepRenewal

(* A datagram other than a registration is answered by harmless ones.      *)
LEMMA AnswerKeepsRenewal ==
  ASSUME RenewedInTime, Base, RenewalInv, UNCHANGED <<fdt, renewal, losses, dropped>>,
         \A f \in registered' : f \in registered \/ Confirming(f),
         NEW f, f.fn # "register", NEW out, Answering(f, out), \A e \in out : Harmless(e)
  PROVE  RenewalInv'
<1>1. /\ DOMAIN frames' \subseteq DOMAIN frames \cup out
      /\ \A g \in DOMAIN frames : g.fn = "register" => g \in DOMAIN frames'
  BY AnsweringReplaces DEF Base, SentOK
<1>. QED  BY <1>1, FramesKeepRenewal

LEMMA CarriedKeepsRenewal ==
  ASSUME RenewedInTime, Base, RenewalInv, NEW f \in DOMAIN frames, Carries(f),
         \/ handle_original_broadcast(f)
         \/ (handle_forwarded_npdu(f) \/ handle_forwarded_npdu6(f)) /\ f.dst \in BBMDs
         \/ receive_forwarded(f) \/ receive_forwarded6(f)
         \/ /\ handle_distribute_broadcast(f) \/ handle_distribute_broadcast6(f)
            /\ f.fn = "distribute"
  PROVE  RenewalInv'
<1>0. UNCHANGED <<fdt, renewal, losses, dropped, registered>> /\ f.fn # "register"
  BY DEF handle_original_broadcast, handle_forwarded_npdu, handle_forwarded_npdu6,
         receive_forwarded, receive_forwarded6, handle_distribute_broadcast,
         handle_distribute_broadcast6, tables, devices, Carries
<1>1. ASSUME NEW b \in BBMDs, NEW orig, NEW n, NEW exclude, NEW e,
             \/ e \in Onward(b, orig, n, exclude)
             \/ e \in Wire("forwarded", b, b, orig, n)
      PROVE  Harmless(e)
  <2>1. CASE e \in Onward(b, orig, n, exclude)
    BY <2>1, OnwardFrames, CarriersHarmless DEF Base, Carries
  <2>2. CASE e \in Wire("forwarded", b, b, orig, n)
    <3>1. e.fn = "forwarded"
      BY <2>2, WireFrames
    <3>. QED  BY <3>1, CarriersHarmless DEF Carries
  <2>. QED  BY <1>1, <2>1, <2>2
<1>2. PICK out : Answering(f, out) /\ \A e \in out : Harmless(e)
  <2>1. CASE receive_forwarded(f) \/ receive_forwarded6(f)
    BY <2>1 DEF receive_forwarded, receive_forwarded6
  <2>2. CASE handle_original_broadcast(f)
    BY <1>1, <2>2 DEF handle_original_broadcast, Forwarding, Onward
  <2>3. CASE (handle_forwarded_npdu(f) \/ handle_forwarded_npdu6(f)) /\ f.dst \in BBMDs
    <3>1. \/ Answering(f, {})
          \/ Answering(f, ForwardToFDs(f.dst, f.orig, f.npdu, f.orig))
          \/ Answering(f, ForwardToFDs(f.dst, f.orig, f.npdu, f.orig)
                            \cup Wire("forwarded", f.dst, f.dst, f.orig, f.npdu))
      BY <2>3 DEF handle_forwarded_npdu, handle_forwarded_npdu6
    <3>2. ForwardToFDs(f.dst, f.orig, f.npdu, f.orig) \subseteq Onward(f.dst, f.orig, f.npdu, f.orig)
      BY DEF Onward, forward_to_peers_and_fds6
    <3>. QED  BY <1>1, <2>3, <3>1, <3>2
  <2>4. CASE /\ handle_distribute_broadcast(f) \/ handle_distribute_broadcast6(f)
             /\ f.fn = "distribute"
    <3>1. f.dst \in BBMDs
      BY <2>4, StationsAssumption DEF Base, SentOK, FrameOK
    <3>2. \A e \in Result(f.dst, f.src, "nak", "distribute") : Harmless(e)
      <4>1. \A e \in Result(f.dst, f.src, "nak", "distribute") : e.fn = "result" /\ e.orig = "nak"
        BY DEF Result, ResultOf, Datagram
      <4>. QED  BY <4>1, CarriersHarmless
    <3>3. PICK out : /\ Answering(f, out)
                     /\ \A e \in out : \/ e \in Onward(f.dst, f.src, f.npdu, f.src)
                                       \/ e \in Wire("forwarded", f.dst, f.dst, f.src, f.npdu)
                                       \/ e \in Result(f.dst, f.src, "nak", "distribute")
      BY <2>4 DEF handle_distribute_broadcast, handle_distribute_broadcast6, Onward
    <3>. QED  BY <1>1, <3>1, <3>2, <3>3
  <2>. QED  BY <2>1, <2>2, <2>3, <2>4
<1>. QED  BY <1>0, <1>2, AnswerKeepsRenewal

(* Requests of the BVLC client functions other than the deletion of an     *)
(* entry                                                                   *)
LEMMA RequestKeepsRenewal ==
  ASSUME RenewedInTime, Base, RenewalInv,
         NEW f \in DOMAIN frames, f.fn \in {"read", "write", "delete"},
         \/ handle_write_bdt(f) /\ f.fn = "write"
         \/ handle_read(f) \/ send_bvlc_nak(f)
  PROVE  RenewalInv'
<1>1. UNCHANGED <<fdt, renewal, losses, dropped, registered>> /\ f.fn # "register"
  BY DEF handle_write_bdt, handle_read, send_bvlc_nak, tables, devices
<1>2. PICK kind \in {"result", "ack"} :
        \E code, re : /\ Answering(f, {Datagram(kind, f.dst, f.src, code, f.npdu, re)})
                      /\ kind = "ack" \/ code = "nak" \/ f.fn = "write"
  BY DEF handle_write_bdt, handle_read, send_bvlc_nak, ResultOf
<1>a. PICK code, re : /\ Answering(f, {Datagram(kind, f.dst, f.src, code, f.npdu, re)})
                      /\ kind = "ack" \/ code = "nak" \/ f.fn = "write"
  BY <1>2
<1>3. PICK e : e = Datagram(kind, f.dst, f.src, code, f.npdu, re)
  OBVIOUS
<1>4. e.fn = kind /\ e.dst = f.src /\ e.orig = code
  BY <1>3 DEF Datagram
<1>5. f.fn = "write" => f.src \notin Foreign
  BY DEF RenewalInv, AskedOK
<1>6. Harmless(e)
  BY <1>a, <1>4, <1>5 DEF Harmless, Confirms, AskedOK
<1>7. PICK out : out = {e}
  OBVIOUS
<1>. QED  BY <1>1, <1>a, <1>3, <1>6, <1>7, AnswerKeepsRenewal

LEMMA ResultKeepsRenewal ==
  ASSUME RenewedInTime, Base, RenewalInv,
         NEW f \in Arrived("result") \cup Arrived("ack"), handle_bvlc_result(f)
  PROVE  RenewalInv'
<1>1. f \in DOMAIN frames /\ f.fn # "register"
  BY DEF Arrived, BagToSet
<1>2. Answering(f, {}) /\ UNCHANGED <<fdt, renewal, losses, dropped>>
  BY DEF handle_bvlc_result, tables
<1>3. \A x \in registered' : x \in registered \/ Confirming(x)
  <2>. SUFFICES ASSUME NEW x \in registered', x \notin registered PROVE Confirms(f, x)
    BY <1>1 DEF Confirming
  <2>. QED  BY DEF handle_bvlc_result, Confirms
<1>4. PICK out : out = {} /\ Answering(f, out)
  BY <1>2
<1>. QED  BY <1>1, <1>2, <1>3, <1>4, AnswerKeepsRenewal

LEMMA SendingKeepsRenewal ==
  ASSUME RenewedInTime, Base, RenewalInv, UNCHANGED <<fdt, renewal, losses, dropped>>,
         registered' \subseteq registered, NEW out, Sending(out), \A e \in out : Harmless(e)
  PROVE  RenewalInv'
<1>1. DOMAIN frames' = DOMAIN frames \cup out
  BY SendingAdds DEF Base, SentOK
<1>. QED  BY <1>1, FramesKeepRenewal

LEMMA CallKeepsRenewal ==
  ASSUME NoForeignManagers, RenewedInTime, Base, RenewalInv,
         NEW m, NEW b, NEW op, NEW what, Call(m, b, op, what)
  PROVE  RenewalInv'
<1>1. UNCHANGED <<fdt, renewal, losses, dropped, registered>>
  BY DEF Call, bvlc_request, tables, devices
<1>a. PICK e : e = Datagram(Function(op), m, b, what, events + 1, op)
  OBVIOUS
<1>2. Sending({e}) /\ e.fn \in {"read", "write", "delete"} /\ e.src = m
  BY <1>a, CallSends
<1>3. PICK out : out = {e} /\ Sending(out)
  BY <1>2
<1>4. e.src \notin Foreign
  BY <1>2 DEF Call, NoForeignManagers
<1>5. Harmless(e)
  BY <1>2, <1>4 DEF Harmless, Confirms, AskedOK
<1>. QED  BY <1>1, <1>3, <1>5, SendingKeepsRenewal

LEMMA DeregisterKeepsRenewal ==
  ASSUME RenewedInTime, Base, RenewalInv, NEW f \in Foreign, deregister_foreign_device(f)
  PROVE  RenewalInv'
<1>1. UNCHANGED <<fdt, renewal, losses, dropped>> /\ registered' \subseteq registered
  BY DEF deregister_foreign_device, tables
<1>2. PICK e : e = Datagram("delete", f, BBMDOf[f], f, 0, "delete")
  OBVIOUS
<1>3. PICK out : out \subseteq {e} /\ Sending(out)
  BY <1>2 DEF deregister_foreign_device
<1>4. e.fn = "delete" /\ e.src = f /\ e.orig = f
  BY <1>2 DEF Datagram
<1>5. Harmless(e)
  BY <1>4 DEF Harmless, Confirms, AskedOK
<1>. QED  BY <1>1, <1>3, <1>5, SendingKeepsRenewal

(* Where the tables or the timers change, each device is looked at.        *)
LEMMA RegisterKeepsRenewal ==
  ASSUME RenewedInTime, Base, RenewalInv, NEW f \in Arrived("register"),
         handle_register_foreign_device(f) \/ handle_register_foreign_device6(f)
  PROVE  RenewalInv'
<1>. DEFINE s == f.src
            b == f.dst
<1>1. f \in DOMAIN frames /\ f.fn = "register" /\ s \in Foreign /\ b = BBMDOf[s] /\ b \in BBMDs
  BY StationsAssumption DEF Arrived, BagToSet, Base, SentOK, FrameOK
<1>2. Entered(f, Life(s))
  <2>1. TTL[s] \in Nat /\ MaxTTL \in Nat /\ TTL[s] <= MaxTTL
    BY <1>1, TimesAssumption DEF RenewedInTime
  <2>2. (IF TTL[s] > MaxTTL THEN MaxTTL ELSE TTL[s]) = TTL[s]
    BY <2>1
  <2>. QED  BY <2>2 DEF handle_register_foreign_device, handle_register_foreign_device6, Life
<1>3. UNCHANGED <<renewal, losses, registered>>
  BY <1>2 DEF Entered, devices
<1>4. PICK code, e : /\ e = Datagram("result", b, s, code, 0, "register") /\ Answering(f, {e})
                     /\ \/ code = "nak" /\ Refused(b, s) /\ UNCHANGED <<fdt, dropped>>
                        \/ /\ code = "ok" /\ ~Refused(b, s)
                           /\ fdt' = [fdt EXCEPT ![b] = [t \in DOMAIN @ \cup {s} |->
                                                 IF t = s THEN Life(s) ELSE @[t]]]
                           /\ dropped' = dropped \ {s}
  BY <1>2 DEF Entered, Result, ResultOf
<1>5. e.fn = "result" /\ e.orig = code /\ e.dst = s
  BY <1>4 DEF Datagram
<1>. DEFINE out == {e}
<1>6. Answering(f, out) /\ \A g \in out : g = e
  BY <1>4
<1>. HIDE DEF out
<1>7. /\ DOMAIN frames' \subseteq DOMAIN frames \cup out
      /\ \A g \in DOMAIN frames : g # f => g \in DOMAIN frames'
  <2>1. IsABag(frames)
    BY DEF Base, SentOK
  <2>. QED  BY <1>6, <2>1, AnsweringReplaces
<1>. HIDE DEF s, b
<1>8. \A g \in DOMAIN frames' : AskedOK(g)
  BY <1>5, <1>6, <1>7 DEF RenewalInv, AskedOK
<1>9. /\ DOMAIN fdt'[b] \subseteq DOMAIN fdt[b] \cup {s} /\ DOMAIN fdt[b] \subseteq DOMAIN fdt'[b]
      /\ \A c \in BBMDs \ {b} : fdt'[c] = fdt[c]
      /\ \A t \in DOMAIN fdt[b] \ {s} : fdt'[b][t] = fdt[b][t]
      /\ \/ fdt' = fdt /\ dropped' = dropped /\ code = "nak" /\ Refused(b, s)
         \/ /\ s \in DOMAIN fdt'[b] /\ fdt'[b][s] = Life(s) /\ dropped' = dropped \ {s}
            /\ code = "ok" /\ ~Refused(b, s)
  BY <1>1, <1>4 DEF Base, TypesOK
<1>10. \A c \in BBMDs : DOMAIN fdt'[c] # {} => c \in Accepting
  BY <1>9 DEF RenewalInv, Refused
<1>11. ASSUME NEW t \in Foreign
       PROVE  InTime(t)'
  <2>1. /\ RenewalInterval(t) \in Nat /\ Life(t) \in Nat /\ Missed(t) \in Nat
        /\ RenewalInterval(t) <= Missed(t) /\ BBMDOf[t] \in BBMDs /\ renewal[t] \in Nat
    BY Times DEF Base, TypesOK
  <2>2. Missed(t)' = Missed(t) /\ Life(t)' = Life(t) /\ RenewalInterval(t)' = RenewalInterval(t)
    BY <1>3 DEF Missed, Life, RenewalInterval
  <2>3. InTime(t)
    BY DEF RenewalInv
  <2>4. CASE t # s
    <3>1. Registering(t)' <=> Registering(t)
      BY <1>5, <1>6, <1>7, <2>4 DEF Registering, s
    <3>2. Confirming(t)' => Confirming(t)
      BY <1>5, <1>6, <1>7, <2>4 DEF Confirming, Confirms
    <3>3. (Listed(t)' <=> Listed(t)) /\ (Listed(t) => Left(t)' = Left(t))
          /\ (t \in dropped' <=> t \in dropped)
      BY <1>9, <2>1, <2>4 DEF Listed, Left
    <3>. QED  BY <1>3, <2>1, <2>2, <2>3, <3>1, <3>2, <3>3 DEF InTime
  <2>5. CASE t = s /\ code = "ok"
    <3>1. Listed(t)' /\ Left(t)' = Life(t)
      BY <1>1, <1>9, <2>5 DEF Listed, Left
    <3>. QED  BY <1>3, <2>1, <2>2, <2>3, <3>1 DEF InTime
  <2>6. CASE t = s /\ code # "ok"
    <3>1. fdt' = fdt /\ dropped' = dropped /\ Refused(b, s) /\ code = "nak"
      BY <1>9, <2>6
    <3>2. ~Listed(t)
      BY <1>1, <2>1, <2>6, <3>1 DEF Listed, RenewalInv, Refused
    <3>3. Confirming(t)' => Confirming(t)
      BY <1>5, <1>6, <1>7, <3>1 DEF Confirming, Confirms
    <3>. QED  BY <1>3, <2>2, <2>3, <3>1, <3>2, <3>3 DEF InTime
  <2>. QED  BY <2>4, <2>5, <2>6
<1>. QED  BY <1>3, <1>8, <1>10, <1>11 DEF RenewalInv

LEMMA DeleteKeepsRenewal ==
  ASSUME RenewedInTime, Base, RenewalInv, NEW f \in Arrived("delete"), f.dst \in BBMDs,
         handle_delete_fdt_entry(f)
  PROVE  RenewalInv'
<1>. DEFINE x == f.orig
            b == f.dst
<1>1. f \in DOMAIN frames /\ f.fn = "delete" /\ (f.src \in Foreign => x = f.src)
  BY DEF Arrived, BagToSet, RenewalInv, AskedOK
<1>2. UNCHANGED <<renewal, losses, registered>>
  BY DEF handle_delete_fdt_entry, devices
<1>3. PICK code, e : /\ e = Datagram("result", b, f.src, code, f.npdu, "delete") /\ Answering(f, {e})
                     /\ code = "ok" => x \in dropped'
  <2>. DEFINE found == f.orig \in DOMAIN fdt[f.dst]
  <2>1. PICK code : code = (IF found THEN "ok" ELSE "nak")
    OBVIOUS
  <2>2. Answering(f, {Datagram("result", b, f.src, code, f.npdu, "delete")})
    BY <2>1 DEF handle_delete_fdt_entry, ResultOf
  <2>3. code = "ok" => x \in dropped'
    BY <2>1 DEF handle_delete_fdt_entry
  <2>. QED  BY <2>2, <2>3
<1>4. e.fn = "result" /\ e.orig = code /\ e.dst = f.src
  BY <1>3 DEF Datagram
<1>. DEFINE out == {e}
<1>5. Answering(f, out) /\ \A g \in out : g = e
  BY <1>3
<1>. HIDE DEF out
<1>6. /\ DOMAIN frames' \subseteq DOMAIN frames \cup out
      /\ \A g \in DOMAIN frames : g # f => g \in DOMAIN frames'
  <2>1. IsABag(frames)
    BY DEF Base, SentOK
  <2>. QED  BY <1>5, <2>1, AnsweringReplaces
<1>7. \A g \in DOMAIN frames' : AskedOK(g)
  BY <1>4, <1>5, <1>6 DEF RenewalInv, AskedOK
<1>8. /\ DOMAIN fdt'[b] = DOMAIN fdt[b] \ {x} /\ \A c \in BBMDs \ {b} : fdt'[c] = fdt[c]
      /\ \A t \in DOMAIN fdt[b] \ {x} : fdt'[b][t] = fdt[b][t]
      /\ x \in DOMAIN fdt[b] => x \in dropped'
      /\ \A t : t # x => (t \in dropped' <=> t \in dropped)
      /\ dropped \subseteq dropped'
  BY DEF handle_delete_fdt_entry, Without, Base, TypesOK
<1>. HIDE DEF x, b
<1>9. \A c \in BBMDs : DOMAIN fdt'[c] # {} => c \in Accepting
  BY <1>8 DEF RenewalInv
<1>10. ASSUME NEW t \in Foreign
       PROVE  InTime(t)'
  <2>1. /\ RenewalInterval(t) \in Nat /\ BBMDOf[t] \in BBMDs
    BY Times
  <2>2. Missed(t)' = Missed(t) /\ Life(t)' = Life(t) /\ RenewalInterval(t)' = RenewalInterval(t)
    BY <1>2 DEF Missed, Life, RenewalInterval
  <2>3. InTime(t)
    BY DEF RenewalInv
  <2>4. Registering(t)' <=> Registering(t)
    BY <1>1, <1>4, <1>5, <1>6 DEF Registering
  <2>5. t \notin dropped' => (Confirming(t)' => Confirming(t))
    BY <1>1, <1>3, <1>4, <1>5, <1>6 DEF Confirming, Confirms
  <2>6. t \notin dropped' /\ Listed(t) => Listed(t)' /\ Left(t)' = Left(t)
    BY <1>8, <2>1 DEF Listed, Left
  <2>7. t \notin dropped' => t \notin dropped
    BY <1>8
  <2>. QED  BY <1>2, <2>2, <2>3, <2>4, <2>5, <2>6, <2>7 DEF InTime
<1>. QED  BY <1>2, <1>7, <1>9, <1>10 DEF RenewalInv

(* An entry that is in time is not purged.                                 *)
LEMMA PurgeKeepsRenewal ==
  ASSUME RenewedInTime, Base, RenewalInv, NEW b \in BBMDs, purge_expired_fdt_entries(b)
  PROVE  RenewalInv'
<1>1. UNCHANGED <<renewal, losses, registered, dropped, frames>>
  BY DEF purge_expired_fdt_entries, devices
<1>2. /\ DOMAIN fdt'[b] = {t \in DOMAIN fdt[b] : fdt[b][t] # 0}
      /\ \A c \in BBMDs \ {b} : fdt'[c] = fdt[c]
      /\ \A t \in DOMAIN fdt'[b] : fdt'[b][t] = fdt[b][t]
  BY DEF purge_expired_fdt_entries, Without, Base, TypesOK
<1>3. \A c \in BBMDs : DOMAIN fdt'[c] # {} => c \in Accepting
  BY <1>2 DEF RenewalInv
<1>4. ASSUME NEW t \in Foreign
      PROVE  InTime(t)'
  <2>1. /\ RenewalInterval(t) \in Nat /\ BBMDOf[t] \in BBMDs /\ renewal[t] \in Nat
        /\ Life(t) \in Nat /\ Missed(t) \in Nat /\ Missed(t) < Life(t)
    BY Times DEF Base, TypesOK
  <2>2. Missed(t)' = Missed(t) /\ Life(t)' = Life(t) /\ RenewalInterval(t)' = RenewalInterval(t)
    BY <1>1 DEF Missed, Life, RenewalInterval
  <2>3. InTime(t)
    BY DEF RenewalInv
  <2>4. (Registering(t)' <=> Registering(t)) /\ (Confirming(t)' <=> Confirming(t))
    BY <1>1 DEF Registering, Confirming
  <2>5. Listed(t) /\ Left(t) # 0 => Listed(t)' /\ Left(t)' = Left(t)
    BY <1>2, <2>1 DEF Listed, Left
  <2>6. Listed(t) => Left(t) \in Nat
    BY <2>1 DEF Listed, Left, Base, TypesOK
  <2>. QED  BY <1>1, <2>1, <2>2, <2>3, <2>4, <2>5, <2>6 DEF InTime
<1>. QED  BY <1>1, <1>3, <1>4 DEF RenewalInv

LEMMA RestartKeepsRenewal ==
  ASSUME RenewedInTime, Base, RenewalInv, NEW b \in BBMDs, restart_bbmd(b)
  PROVE  RenewalInv'
<1>1. UNCHANGED <<renewal, losses, registered>> /\ dropped' = dropped \cup DOMAIN fdt[b]
  BY DEF restart_bbmd, devices
<1>2. DOMAIN frames' = {g \in DOMAIN frames : g.dst # b}
  BY DEF restart_bbmd
<1>3. /\ DOMAIN fdt'[b] = {} /\ \A c \in BBMDs \ {b} : fdt'[c] = fdt[c]
  BY DEF restart_bbmd, Without, Base, TypesOK
<1>4. \A c \in BBMDs : DOMAIN fdt'[c] # {} => c \in Accepting
  BY <1>3 DEF RenewalInv
<1>5. \A g \in DOMAIN frames' : AskedOK(g)
  BY <1>2 DEF RenewalInv
<1>6. ASSUME NEW t \in Foreign
      PROVE  InTime(t)'
  <2>1. BBMDOf[t] \in BBMDs
    BY Times
  <2>2. Missed(t)' = Missed(t) /\ Life(t)' = Life(t) /\ RenewalInterval(t)' = RenewalInterval(t)
    BY <1>1 DEF Missed, Life, RenewalInterval
  <2>3. InTime(t)
    BY DEF RenewalInv
  <2>4. Confirming(t)' => Confirming(t)
    BY <1>2 DEF Confirming
  <2>5. CASE BBMDOf[t] = b
    <3>1. Listed(t) => t \in dropped'
      BY <1>1, <2>5 DEF Listed
    <3>. QED  BY <1>1, <2>2, <2>3, <2>4, <3>1 DEF InTime
  <2>6. CASE BBMDOf[t] # b
    <3>1. Registering(t)' <=> Registering(t)
      BY <1>2, <2>6 DEF Registering, Base, SentOK, FrameOK
    <3>2. (Listed(t)' <=> Listed(t)) /\ Left(t)' = Left(t)
      BY <1>3, <2>1, <2>6 DEF Listed, Left
    <3>. QED  BY <1>1, <2>2, <2>3, <2>4, <3>1, <3>2 DEF InTime
  <2>. QED  BY <2>5, <2>6
<1>. QED  BY <1>1, <1>4, <1>5, <1>6 DEF RenewalInv

LEMMA AttachKeepsRenewal ==
  ASSUME RenewedInTime, Base, RenewalInv, NEW f \in Foreign, attach_foreign_device(f)
  PROVE  RenewalInv'
<1>1. /\ UNCHANGED <<fdt, losses, registered, dropped, frames>> /\ f \notin registered
      /\ renewal' = [renewal EXCEPT ![f] = 0] /\ renewal \in [Foreign -> Nat]
  BY DEF attach_foreign_device, tables, Base, TypesOK
<1>2. ASSUME NEW t \in Foreign
      PROVE  InTime(t)'
  <2>1. RenewalInterval(t) \in Nat
    BY Times
  <2>2. /\ Missed(t)' = Missed(t) /\ Life(t)' = Life(t) /\ RenewalInterval(t)' = RenewalInterval(t)
        /\ (Registering(t)' <=> Registering(t)) /\ (Confirming(t)' <=> Confirming(t))
        /\ (Listed(t)' <=> Listed(t)) /\ Left(t)' = Left(t)
    BY <1>1 DEF Missed, Life, RenewalInterval, Registering, Confirming, Listed, Left
  <2>3. InTime(t)
    BY DEF RenewalInv
  <2>. QED  BY <1>1, <2>1, <2>2, <2>3 DEF InTime
<1>. QED  BY <1>1, <1>2 DEF RenewalInv

LEMMA RegistrationKeepsRenewal ==
  ASSUME RenewedInTime, Base, RenewalInv, NEW f \in Foreign, registration_loop(f)
  PROVE  RenewalInv'
<1>1. /\ UNCHANGED <<fdt, losses, registered, dropped>> /\ renewal[f] = 0
      /\ renewal' = [renewal EXCEPT ![f] = RenewalInterval(f)] /\ renewal \in [Foreign -> Nat]
  BY DEF registration_loop, tables, Base, TypesOK
<1>2. PICK e : e = Datagram("register", f, BBMDOf[f], NULL, 0, "register")
  OBVIOUS
<1>3. e.fn = "register" /\ e.src = f
  BY <1>2 DEF Datagram
<1>. DEFINE out == {e}
<1>4. Sending(out) /\ \A g : g \in out <=> g = e
  BY <1>2 DEF registration_loop
<1>. HIDE DEF out
<1>5. DOMAIN frames' = DOMAIN frames \cup out
  BY <1>4, SendingAdds DEF Base, SentOK
<1>6. \A g \in DOMAIN frames' : AskedOK(g)
  BY <1>3, <1>4, <1>5 DEF RenewalInv, AskedOK
<1>7. ASSUME NEW t \in Foreign
      PROVE  InTime(t)'
  <2>1. RenewalInterval(t) \in Nat /\ Life(t) \in Nat /\ Missed(t) \in Nat
    BY Times
  <2>2. /\ Missed(t)' = Missed(t) /\ Life(t)' = Life(t) /\ RenewalInterval(t)' = RenewalInterval(t)
        /\ (Listed(t)' <=> Listed(t)) /\ Left(t)' = Left(t)
    BY <1>1 DEF Missed, Life, RenewalInterval, Listed, Left
  <2>3. Confirming(t)' <=> Confirming(t)
    BY <1>3, <1>4, <1>5 DEF Confirming, Confirms
  <2>4. IF t = f THEN Registering(t)' ELSE Registering(t)' <=> Registering(t)
    BY <1>3, <1>4, <1>5 DEF Registering
  <2>5. InTime(t)
    BY DEF RenewalInv
  <2>6. CASE t = f
    BY <1>1, <2>1, <2>2, <2>3, <2>4, <2>5, <2>6 DEF InTime
  <2>7. CASE t # f
    BY <1>1, <2>1, <2>2, <2>3, <2>4, <2>5, <2>7 DEF InTime
  <2>. QED  BY <2>6, <2>7
<1>. QED  BY <1>1, <1>6, <1>7 DEF RenewalInv

(* The one datagram that is lost may be a registration or what confirms it *)
LEMMA LoseKeepsRenewal ==
  ASSUME RenewedInTime, Base, RenewalInv, NEW f, Lose(f)
  PROVE  RenewalInv'
<1>1. UNCHANGED <<fdt, renewal, registered, dropped>> /\ losses' = losses + 1
  BY DEF Lose, tables, devices
<1>2. losses = 0
  BY TimesAssumption DEF Lose, RenewedInTime, RenewalInv
<1>3. DOMAIN frames' \subseteq DOMAIN frames
  <2>1. PICK out : out = {} /\ Answering(f, out)
    BY DEF Lose
  <2>2. DOMAIN frames' \subseteq DOMAIN frames \cup out
    BY <2>1, AnsweringReplaces DEF Base, SentOK
  <2>. QED  BY <2>1, <2>2
<1>4. ASSUME NEW t \in Foreign
      PROVE  InTime(t)'
  <2>1. RenewalInterval(t) \in Nat /\ Life(t) \in Nat /\ renewal[t] \in Nat
        /\ (Listed(t) => Left(t) \in Nat)
    BY Times DEF Base, TypesOK, Listed, Left
  <2>2. /\ Missed(t) = RenewalInterval(t) /\ Missed(t)' = 2 * RenewalInterval(t)
        /\ Life(t)' = Life(t) /\ RenewalInterval(t)' = RenewalInterval(t)
        /\ (Listed(t)' <=> Listed(t)) /\ Left(t)' = Left(t)
    BY <1>1, <1>2 DEF Missed, Life, RenewalInterval, Listed, Left
  <2>3. Confirming(t)' => Confirming(t)
    BY <1>3 DEF Confirming
  <2>4. InTime(t)
    BY DEF RenewalInv
  <2>. QED  BY <1>1, <2>1, <2>2, <2>3, <2>4 DEF InTime
<1>5. losses' \in Nat
  BY <1>1, <1>2
<1>. QED  BY <1>1, <1>3, <1>4, <1>5 DEF RenewalInv

LEMMA TickKeepsRenewal ==
  ASSUME RenewedInTime, Base, RenewalInv, Tick
  PROVE  RenewalInv'
<1>1. /\ UNCHANGED <<losses, registered, dropped, frames>> /\ DOMAIN frames = {}
      /\ \A f \in attached : renewal[f] > 0
      /\ fdt' = [b \in BBMDs |-> [t \in DOMAIN fdt[b] |-> Sooner(fdt[b][t])]]
      /\ renewal' = [f \in Foreign |-> IF f \in attached THEN Sooner(renewal[f]) ELSE 0]
  BY DEF Tick, BagToSet
<1>2. ASSUME NEW t \in Foreign
      PROVE  InTime(t)'
  <2>1. /\ RenewalInterval(t) \in Nat /\ Life(t) \in Nat /\ Missed(t) \in Nat /\ renewal[t] \in Nat
        /\ Missed(t) < Life(t) /\ BBMDOf[t] \in BBMDs /\ (Listed(t) => Left(t) \in Nat)
    BY Times DEF Base, TypesOK, Listed, Left
  <2>2. /\ Missed(t)' = Missed(t) /\ Life(t)' = Life(t) /\ RenewalInterval(t)' = RenewalInterval(t)
        /\ (Listed(t)' <=> Listed(t)) /\ (Listed(t) => Left(t)' = Sooner(Left(t)))
    BY <1>1, <2>1 DEF Missed, Life, RenewalInterval, Listed, Left
  <2>3. ~Registering(t) /\ ~Registering(t)' /\ ~Confirming(t)'
    BY <1>1 DEF Registering, Confirming
  <2>4. InTime(t)
    BY DEF RenewalInv
  <2>5. CASE t \in attached
    <3>1. renewal[t] > 0 /\ renewal'[t] = renewal[t] - 1
      BY <1>1, <2>1, <2>5 DEF Sooner
    <3>. QED  BY <1>1, <2>1, <2>2, <2>3, <2>4, <3>1 DEF InTime, Sooner
  <2>6. CASE t \notin attached
    <3>1. t \notin registered /\ renewal'[t] = 0
      BY <1>1, <2>6 DEF Base, TypesOK
    <3>. QED  BY <1>1, <2>1, <2>2, <2>3, <3>1 DEF InTime
  <2>. QED  BY <2>5, <2>6
<1>3. \A b \in BBMDs : DOMAIN fdt'[b] = DOMAIN fdt[b]
  BY <1>1
<1>. QED  BY <1>1, <1>2, <1>3 DEF RenewalInv

LEMMA NextRenewal ==
  ASSUME NoForeignManagers, RenewedInTime, Base, RenewalInv, [Next]_vars
  PROVE  RenewalInv'
<1>1. CASE \E s \in Stations : send_broadcast(s)
  BY <1>1, BroadcastKeepsRenewal
<1>2. CASE on_datagram_received
  <2>1. CASE \E f \in Arrived("original") : handle_original_broadcast(f)
    BY <2>1, CarriedKeepsRenewal DEF Arrived, BagToSet, Carries
  <2>2. CASE \E f \in Arrived("forwarded") :
               \/ (handle_forwarded_npdu(f) \/ handle_forwarded_npdu6(f)) /\ f.dst \in BBMDs
               \/ receive_forwarded(f) \/ receive_forwarded6(f)
    BY <2>2, CarriedKeepsRenewal DEF Arrived, BagToSet, Carries
  <2>3. CASE \E f \in Arrived("distribute") :
               handle_distribute_broadcast(f) \/ handle_distribute_broadcast6(f)
    BY <2>3, CarriedKeepsRenewal DEF Arrived, BagToSet, Carries
  <2>4. CASE \E f \in Arrived("register") :
               handle_register_foreign_device(f) \/ handle_register_foreign_device6(f)
    BY <2>4, RegisterKeepsRenewal
  <2>5. CASE \E f \in Arrived("delete") : f.dst \in BBMDs /\ handle_delete_fdt_entry(f)
    BY <2>5, DeleteKeepsRenewal
  <2>6. CASE \E fn \in {"read", "write", "delete"} : \E f \in Arrived(fn) :
               \/ handle_write_bdt(f) /\ fn = "write"
               \/ handle_read(f) \/ send_bvlc_nak(f)
    BY <2>6, RequestKeepsRenewal DEF Arrived, BagToSet
  <2>7. CASE \E f \in Arrived("result") \cup Arrived("ack") : handle_bvlc_result(f)
    BY <2>7, ResultKeepsRenewal
  <2>. QED
    BY <1>2, <2>1, <2>2, <2>3, <2>4, <2>5, <2>6, <2>7 DEF on_datagram_received
<1>3. CASE \E b \in BBMDs : purge_expired_fdt_entries(b) \/ restart_bbmd(b)
  BY <1>3, PurgeKeepsRenewal, RestartKeepsRenewal
<1>4. CASE \E f \in Foreign :
             attach_foreign_device(f) \/ registration_loop(f) \/ deregister_foreign_device(f)
  BY <1>4, AttachKeepsRenewal, RegistrationKeepsRenewal, DeregisterKeepsRenewal
<1>5. CASE \E m \in Managers : client_call(m)
  BY <1>5, CallCases, CallKeepsRenewal
<1>6. CASE \E f : Lose(f)
  BY <1>6, LoseKeepsRenewal
<1>7. CASE Tick
  BY <1>7, TickKeepsRenewal
<1>8. CASE UNCHANGED vars \/ \E c \in DOMAIN call : finish_bvlc_request(c)
  <2>1. UNCHANGED <<fdt, renewal, losses, dropped, registered, frames>>
    BY <1>8 DEF vars, finish_bvlc_request, tables, devices
  <2>2. PICK out : out = {}
    OBVIOUS
  <2>3. DOMAIN frames' \subseteq DOMAIN frames \cup out
    BY <2>1
  <2>. QED  BY <2>1, <2>2, <2>3, FramesKeepRenewal
<1>. QED
  BY <1>1, <1>2, <1>3, <1>4, <1>5, <1>6, <1>7, <1>8 DEF Next

LEMMA InitRenewal ==
  ASSUME RenewedInTime, Init
  PROVE  RenewalInv
<1>1. DOMAIN frames = {} /\ registered = {} /\ losses = 0
      /\ \A b \in BBMDs : DOMAIN fdt[b] = {}
  BY DEF Init, EmptyBag, SetToBag
<1>2. \A f \in Foreign : renewal[f] <= RenewalInterval(f)
  BY Times DEF Init
<1>. QED  BY <1>1, <1>2 DEF RenewalInv, InTime, Confirming

(* A device that holds itself registered is in the table of its BBMD, or   *)
(* the table was lost or the entry deleted meanwhile: the renewal after    *)
(* half of the time to live (foreign_device.py, _registration_loop) comes  *)
(* before the entry expires (bbmd.py, _purge_expired_fdt_entries), even if *)
(* one datagram is lost.                                                   *)
THEOREM RenewalKeepsEntryTheorem ==
  ASSUME NoForeignManagers, RenewedInTime
  PROVE  Spec => []RenewalKeepsEntry
<1>. DEFINE Inv == Base /\ RenewalInv
<1>1. Init => Inv
  BY InitBase, InitRenewal
<1>2. Inv /\ [Next]_vars => Inv'
  BY NextBase, NextRenewal
<1>3. Inv => RenewalKeepsEntry
  BY DEF RenewalKeepsEntry, RenewalInv, InTime, Listed, Base, TypesOK
<1>. QED  BY <1>1, <1>2, <1>3, PTL DEF Spec

-----------------------------------------------------------------------------
(* What is broadcast while nothing changes reaches all that are served: who *)
(* has not got it yet will get it by way of a datagram that is under way.   *)

Has(s, n) == \E g \in DOMAIN got : g.to = s /\ g.npdu = n

Outward(b) ==
  DOMAIN fdt[b] \cup UNION {Subnet(p) \cup DOMAIN fdt[p] : p \in bdt[b] \ {b}}

(* The stations that get the NPDU of a datagram if nothing is lost         *)
Must(f) ==
  IF f.fn = "distribute"
  THEN IF f.src \notin DOMAIN fdt[f.dst] THEN {}
       ELSE {f.dst} \cup Outward(f.dst) \cup (IF family = "v6" THEN Subnet(f.dst) ELSE {})
  ELSE {f.dst} \cup
       (IF f.dst \notin BBMDs THEN {}
        ELSE IF f.fn = "original" THEN Outward(f.dst)
        ELSE DOMAIN fdt[f.dst] \cup (IF directed = {} THEN Subnet(f.dst) ELSE {}))

Carried(s, n, out) == \E e \in out : Carries(e) /\ e.npdu = n /\ s \in Must(e)

Steady(n) == origin[n] \in registered => origin[n] \notin dropped

ReachInv ==
  /\ \A f \in DOMAIN frames : Outbound(f)
  /\ \A n \in calm : Steady(n) =>
       \A s \in Audience(origin[n]) : Has(s, n) \/ Carried(s, n, DOMAIN frames)

(* Who is to hear what depends on who is in the tables.                    *)
SameTables ==
  /\ UNCHANGED <<config, bdt, registered, dropped>>
  /\ \A b \in BBMDs : DOMAIN fdt'[b] = DOMAIN fdt[b]
  /\ attached' \cap registered' = attached \cap registered

LEMMA SameAudience ==
  ASSUME TypesOK, SameTables
  PROVE  \A s : Audience(s)' = Audience(s)
<1>1. \A b \in BBMDs : Served(b)' = Served(b)
  BY DEF SameTables, Served, Subnet, config
<1>2. ASSUME NEW s
      PROVE  {b \in BBMDs : s \in DOMAIN fdt[b] /\ s \in attached \cap registered}'
               = {b \in BBMDs : s \in DOMAIN fdt[b] /\ s \in attached \cap registered}
  BY DEF SameTables
<1>. QED  BY <1>1, <1>2 DEF SameTables, Audience, Subnet, config

LEMMA SameMust ==
  ASSUME TypesOK, SameTables, NEW f, f.fn = "distribute" => f.dst \in BBMDs
  PROVE  Must(f)' = Must(f)
<1>1. \A b \in BBMDs : Outward(b)' = Outward(b)
  <2>. SUFFICES ASSUME NEW b \in BBMDs PROVE Outward(b)' = Outward(b)
    OBVIOUS
  <2>1. bdt[b] \subseteq BBMDs /\ bdt'[b] = bdt[b]
    BY DEF TypesOK, SameTables
  <2>. QED  BY <2>1 DEF SameTables, Outward, Subnet
<1>. QED  BY <1>1 DEF SameTables, Must, Subnet, config

LEMMA CarriedStays ==
  ASSUME Base, SameTables, NEW out, \A e \in out : Carries(e) => FrameOK(e), NEW s, NEW n,
         Carried(s, n, out), out \subseteq DOMAIN frames'
  PROVE  Carried(s, n, DOMAIN frames)'
<1>1. PICK e \in out : Carries(e) /\ e.npdu = n /\ s \in Must(e)
  BY DEF Carried
<1>2. e.fn = "distribute" => e.dst \in BBMDs
  BY <1>1, StationsAssumption DEF FrameOK
<1>3. Must(e)' = Must(e)
  BY <1>2, SameMust DEF Base
<1>. QED  BY <1>1, <1>3 DEF Carried

LEMMA RelayReaches ==
  ASSUME Base, ReachInv, SameTables, UNCHANGED <<origin, calm>>, DOMAIN got \subseteq DOMAIN got',
         NEW f \in DOMAIN frames, NEW out, Answering(f, out),
         \A e \in out : Carries(e) => FrameOK(e) /\ Outbound(e),
         \A s \in Must(f) \ {origin[f.npdu]} : Has(s, f.npdu)' \/ Carried(s, f.npdu, out)
  PROVE  ReachInv'
<1>1. /\ DOMAIN frames' \subseteq DOMAIN frames \cup out
      /\ (DOMAIN frames \ {f}) \cup out \subseteq DOMAIN frames'
  <2>1. IsABag(frames)
    BY DEF Base, SentOK
  <2>. QED  BY <2>1, AnsweringReplaces
<1>2. \A e \in DOMAIN frames' : Outbound(e)'
  BY <1>1 DEF ReachInv, Outbound
<1>3. ASSUME NEW n \in calm, Steady(n), NEW s \in Audience(origin[n])
      PROVE  Has(s, n)' \/ Carried(s, n, DOMAIN frames)'
  <2>0. s # origin[n]
    BY <1>3 DEF Audience
  <2>1. CASE Has(s, n)
    BY <2>1 DEF Has
  <2>2. CASE Carried(s, n, DOMAIN frames \ {f})
    <3>1. \A e \in DOMAIN frames \ {f} : Carries(e) => FrameOK(e)
      BY DEF Base, SentOK
    <3>. DEFINE rest == DOMAIN frames \ {f}
    <3>2. rest \subseteq DOMAIN frames'
      BY <1>1
    <3>. HIDE DEF rest
    <3>. QED  BY <2>2, <3>1, <3>2, CarriedStays DEF rest
  <2>3. CASE s \in Must(f) /\ f.npdu = n
    <3>1. CASE Has(s, n)'
      BY <3>1
    <3>2. CASE Carried(s, n, out)
      BY <1>1, <3>2, CarriedStays
    <3>. QED  BY <2>0, <2>3, <3>1, <3>2
  <2>. QED  BY <1>3, <2>1, <2>2, <2>3 DEF ReachInv, Carried
<1>4. /\ \A n \in calm : Steady(n)' <=> Steady(n)
      /\ \A s : Audience(s)' = Audience(s)
  BY SameAudience DEF Steady, SameTables, Base
<1>. QED  BY <1>2, <1>3, <1>4 DEF ReachInv

LEMMA QuietReaches ==
  ASSUME Base, ReachInv, UNCHANGED origin,
         \A e \in DOMAIN frames' : Carries(e) => e \in DOMAIN frames,
         \/ calm' = {}
         \/ /\ SameTables /\ UNCHANGED <<calm, got>>
            /\ \A e \in DOMAIN frames : Carries(e) => e \in DOMAIN frames'
  PROVE  ReachInv'
<1>1. \A e \in DOMAIN frames' : Outbound(e)'
  BY DEF ReachInv, Outbound
<1>2. CASE calm' = {}
  BY <1>1, <1>2 DEF ReachInv
<1>3. CASE /\ SameTables /\ UNCHANGED <<calm, got>>
           /\ \A e \in DOMAIN frames : Carries(e) => e \in DOMAIN frames'
  <2>1. ASSUME NEW n \in calm, Steady(n), NEW s \in Audience(origin[n])
        PROVE  Has(s, n)' \/ Carried(s, n, DOMAIN frames)'
    <3>1. CASE Has(s, n)
      BY <1>3, <3>1 DEF Has
    <3>2. CASE Carried(s, n, DOMAIN frames)
      <4>. DEFINE all == {e \in DOMAIN frames : Carries(e)}
      <4>1. Carried(s, n, all) /\ all \subseteq DOMAIN frames'
        BY <1>3, <3>2 DEF Carried
      <4>2. \A e \in all : Carries(e) => FrameOK(e)
        BY DEF Base, SentOK
      <4>. HIDE DEF all
      <4>. QED  BY <1>3, <4>1, <4>2, CarriedStays
    <3>. QED  BY <2>1, <3>1, <3>2 DEF ReachInv
  <2>2. /\ \A n \in calm : Steady(n)' <=> Steady(n)
        /\ \A s : Audience(s)' = Audience(s)
    BY <1>3, SameAudience DEF Steady, SameTables, Base
  <2>. QED  BY <1>1, <1>3, <2>1, <2>2 DEF ReachInv
<1>. QED  BY <1>2, <1>3

LEMMA ControlAnswers ==
  ASSUME Base, ReachInv, UNCHANGED origin, calm' = {} \/ (SameTables /\ UNCHANGED <<calm, got>>),
         NEW f, calm' = {} \/ ~Carries(f), NEW out, Answering(f, out), \A e \in out : ~Carries(e)
  PROVE  ReachInv'
<1>1. /\ DOMAIN frames' \subseteq DOMAIN frames \cup out
      /\ DOMAIN frames \ {f} \subseteq DOMAIN frames'
  <2>1. IsABag(frames)
    BY DEF Base, SentOK
  <2>. QED  BY <2>1, AnsweringReplaces
<1>2. \A e \in DOMAIN frames' : Carries(e) => e \in DOMAIN frames
  BY <1>1
<1>3. calm' # {} => \A e \in DOMAIN frames : Carries(e) => e \in DOMAIN frames'
  BY <1>1
<1>. QED  BY <1>2, <1>3, QuietReaches

LEMMA ControlSends ==
  ASSUME Base, ReachInv, UNCHANGED origin, calm' = {} \/ (SameTables /\ UNCHANGED <<calm, got>>),
         NEW out, Sending(out), \A e \in out : ~Carries(e)
  PROVE  ReachInv'
<1>1. DOMAIN frames' = DOMAIN frames \cup out
  BY SendingAdds DEF Base, SentOK
<1>. QED  BY <1>1, QuietReaches

(* What a BBMD sends on reaches what is outward of it.                     *)
LEMMA OnwardMust ==
  ASSUME UniformMasks, TypesOK, NEW b \in BBMDs, NEW orig, NEW n, NEW exclude,
         orig \notin BBMDs \ {b}, NEW t \in Outward(b), t # exclude
  PROVE  Carried(t, n, Forwarding(b, orig, n, exclude))
<1>0. /\ bdt[b] \subseteq BBMDs /\ BBMDs \subseteq Stations /\ DOMAIN fdt[b] \subseteq Foreign
      /\ Foreign \cap BBMDs = {}
  BY StationsAssumption DEF TypesOK
<1>1. ASSUME NEW d, Datagram("forwarded", b, d, orig, n, "") \in Forwarding(b, orig, n, exclude),
             t = d \/ (d \in BBMDs /\ t \in DOMAIN fdt[d] \cup
                                          (IF directed = {} THEN Subnet(d) ELSE {}))
      PROVE  Carried(t, n, Forwarding(b, orig, n, exclude))
  <2>1. PICK e : e = Datagram("forwarded", b, d, orig, n, "")
    OBVIOUS
  <2>2. e.fn = "forwarded" /\ e.dst = d /\ e.npdu = n
    BY <2>1 DEF Datagram
  <2>3. t \in Must(e) /\ Carries(e)
    BY <1>1, <2>2 DEF Must, Carries
  <2>. QED  BY <1>1, <2>1, <2>2, <2>3 DEF Carried
<1>2. CASE t \in DOMAIN fdt[b]
  <2>1. Datagram("forwarded", b, t, orig, n, "") \in Forwarding(b, orig, n, exclude)
    BY <1>2 DEF Forwarding, forward_to_peers_and_fds, forward_to_peers_and_fds6, ForwardToFDs
  <2>. QED  BY <1>1, <2>1
<1>3. ASSUME NEW p \in bdt[b] \ {b}, t \in Subnet(p) \cup DOMAIN fdt[p]
      PROVE  Carried(t, n, Forwarding(b, orig, n, exclude))
  <2>0. p \in BBMDs /\ p # orig /\ p \in Subnet(p)
    BY <1>0 DEF Subnet
  <2>1. CASE directed = {}
    <3>1. Datagram("forwarded", b, p, orig, n, "") \in Forwarding(b, orig, n, exclude)
      <4>1. Datagram("forwarded", b, p, orig, n, "") \in compute_forward_address(b, p, orig, n)
        BY <2>1 DEF compute_forward_address
      <4>. QED  BY <2>0, <4>1 DEF Forwarding, forward_to_peers_and_fds, forward_to_peers_and_fds6
    <3>. QED  BY <1>1, <1>3, <2>0, <2>1, <3>1
  <2>2. CASE directed # {}
    <3>1. family # "v6" /\ directed = BBMDs
      BY <2>2 DEF TypesOK, UniformMasks
    <3>2. \A d \in Subnet(p) \ {b} :
            Datagram("forwarded", b, d, orig, n, "") \in Forwarding(b, orig, n, exclude)
      <4>1. \A d \in Subnet(p) \ {b} :
              Datagram("forwarded", b, d, orig, n, "") \in compute_forward_address(b, p, orig, n)
        BY <2>0, <3>1 DEF compute_forward_address, Wire
      <4>. QED  BY <2>0, <3>1, <4>1 DEF Forwarding, forward_to_peers_and_fds
    <3>3. b \notin Subnet(p)
      BY <2>0, StationsAssumption DEF Subnet
    <3>4. CASE t \in Subnet(p)
      BY <1>1, <3>2, <3>3, <3>4
    <3>5. CASE t \in DOMAIN fdt[p]
      BY <1>1, <2>0, <3>2, <3>3, <3>5
    <3>. QED  BY <1>3, <3>4, <3>5
  <2>. QED  BY <2>1, <2>2
<1>. QED  BY <1>2, <1>3 DEF Outward

LEMMA Delivered ==
  ASSUME Base, NEW s, NEW n, NEW src, Deliver(s, n, src)
  PROVE  Has(s, n)' /\ DOMAIN got \subseteq DOMAIN got'
<1>1. DOMAIN got' = DOMAIN got \cup {[to |-> s, npdu |-> n, src |-> src]}
  BY DeliverAdds DEF Base, SentOK
<1>2. PICK g : g = [to |-> s, npdu |-> n, src |-> src]
  OBVIOUS
<1>3. g \in DOMAIN got' /\ g.to = s /\ g.npdu = n
  BY <1>1, <1>2
<1>. QED  BY <1>1, <1>3 DEF Has

LEMMA OnwardSound ==
  ASSUME Apart, TypesOK, NEW b \in BBMDs, NEW n \in DOMAIN origin, NEW exclude,
         origin[n] \in Subnet(b) \cup Devices(b), origin[n] \in Devices(b) => exclude = origin[n],
         NEW e \in Onward(b, origin[n], n, exclude)
  PROVE  FrameOK(e) /\ Outbound(e)
<1>. DEFINE out == Onward(b, origin[n], n, exclude)
            where == (Devices(b) \cup Beyond(b)) \ {origin[n]}
<1>1. Within(out, n, where)
  BY OnwardWithin
<1>2. e \in out /\ FrameOK(e) /\ Carries(e)
  BY OnwardOK DEF Carries
<1>. HIDE DEF out, where
<1>. QED  BY <1>1, <1>2 DEF Within

LEMMA RewiredSound ==
  ASSUME Apart, NEW b \in BBMDs, NEW n \in DOMAIN origin, origin[n] \notin Subnet(b),
         NEW e \in Wire("forwarded", b, b, origin[n], n)
  PROVE  FrameOK(e) /\ Outbound(e)
<1>. DEFINE out == Wire("forwarded", b, b, origin[n], n)
            where == Subnet(b) \ {b}
<1>1. Within(out, n, where)
  BY RewiredWithin
<1>2. e \in out /\ FrameOK(e) /\ Carries(e)
  BY RewiredOK DEF Carries
<1>. HIDE DEF out, where
<1>. QED  BY <1>1, <1>2 DEF Within

LEMMA RewiredMust ==
  ASSUME NEW b \in BBMDs, NEW orig, NEW n, NEW t \in Subnet(b) \ {b}
  PROVE  Carried(t, n, Wire("forwarded", b, b, orig, n))
<1>1. PICK e : e = Datagram("forwarded", b, t, orig, n, "")
  OBVIOUS
<1>2. e.fn = "forwarded" /\ e.dst = t /\ e.npdu = n
  BY <1>1 DEF Datagram
<1>3. t \in Must(e) /\ Carries(e)
  BY <1>2 DEF Must, Carries
<1>4. e \in Wire("forwarded", b, b, orig, n)
  BY <1>1 DEF Wire
<1>. QED  BY <1>2, <1>3, <1>4 DEF Carried

LEMMA DeviceMust ==
  ASSUME NEW b \in BBMDs, NEW orig, NEW n, NEW exclude, NEW t \in DOMAIN fdt[b] \ {exclude}
  PROVE  Carried(t, n, ForwardToFDs(b, orig, n, exclude))
<1>1. PICK e : e = Datagram("forwarded", b, t, orig, n, "")
  OBVIOUS
<1>2. e.fn = "forwarded" /\ e.dst = t /\ e.npdu = n
  BY <1>1 DEF Datagram
<1>3. t \in Must(e) /\ Carries(e)
  BY <1>2 DEF Must, Carries
<1>4. e \in ForwardToFDs(b, orig, n, exclude)
  BY <1>1 DEF ForwardToFDs
<1>. QED  BY <1>2, <1>3, <1>4 DEF Carried

LEMMA OriginalReaches ==
  ASSUME Apart, UniformMasks, Base, ReachInv,
         NEW f \in Arrived("original"), handle_original_broadcast(f)
  PROVE  ReachInv'
<1>. DEFINE b == f.dst
            n == f.npdu
<1>1. f \in DOMAIN frames /\ f.fn = "original" /\ FrameOK(f)
  BY DEF Arrived, BagToSet, Base, SentOK
<1>2. n \in DOMAIN origin /\ origin[n] = f.src /\ f.src \in Stations /\ Home[b] = Home[f.src]
  BY <1>1 DEF FrameOK, Carries
<1>3. /\ SameTables /\ UNCHANGED <<origin, calm>> /\ Deliver(b, n, f.src)
      /\ Answering(f, IF b \in BBMDs THEN Forwarding(b, origin[n], n, NULL) ELSE {})
  BY <1>2 DEF handle_original_broadcast, tables, devices, SameTables
<1>4. Has(b, n)' /\ DOMAIN got \subseteq DOMAIN got'
  BY <1>3, Delivered
<1>5. CASE b \in BBMDs
  <2>. DEFINE out == Forwarding(b, origin[n], n, NULL)
  <2>1. Answering(f, out)
    BY <1>3, <1>5
  <2>2. origin[n] \in Subnet(b) /\ origin[n] \notin Devices(b) /\ origin[n] \notin BBMDs \ {b}
    BY <1>2, <1>5, AreaOf, StationsAssumption DEF Subnet
  <2>3. \A e \in out : FrameOK(e) /\ Outbound(e)
    <3>1. \A e \in Onward(b, origin[n], n, NULL) : FrameOK(e) /\ Outbound(e)
      BY <1>2, <1>5, <2>2, OnwardSound DEF Base
    <3>. QED  BY <3>1 DEF Forwarding, Onward
  <2>4. \A s \in Must(f) : s = b \/ Carried(s, n, out)
    <3>1. \A s \in Must(f) \ {b} : s \in Outward(b)
      BY <1>1, <1>5 DEF Must
    <3>2. \A s \in Outward(b) : s # NULL
      BY StationsAssumption, <1>5 DEF Outward, Base, TypesOK, Subnet
    <3>. QED  BY <1>5, <2>2, <3>1, <3>2, OnwardMust DEF Base
  <2>. HIDE DEF out, b, n
  <2>5. \A s \in Must(f) \ {origin[f.npdu]} : Has(s, f.npdu)' \/ Carried(s, f.npdu, out)
    BY <1>4, <2>4 DEF n
  <2>. QED  BY <1>1, <1>3, <1>4, <2>1, <2>3, <2>5, RelayReaches
<1>6. CASE b \notin BBMDs
  <2>1. PICK out : out = {} /\ Answering(f, out)
    BY <1>3, <1>6
  <2>2. Must(f) = {b}
    BY <1>1, <1>6 DEF Must
  <2>. QED  BY <1>1, <1>3, <1>4, <2>1, <2>2, RelayReaches
<1>. QED  BY <1>5, <1>6

LEMMA ForwardedReaches ==
  ASSUME Apart, Base, ReachInv, NEW f \in Arrived("forwarded"),
         \/ family = "v4" /\ handle_forwarded_npdu(f) /\ f.dst \in BBMDs
         \/ family = "v6" /\ handle_forwarded_npdu6(f) /\ f.dst \in BBMDs
         \/ (receive_forwarded(f) \/ receive_forwarded6(f)) /\ f.dst \notin BBMDs
  PROVE  ReachInv'
<1>. DEFINE b == f.dst
            n == f.npdu
<1>1. f \in DOMAIN frames /\ f.fn = "forwarded" /\ FrameOK(f) /\ Outbound(f) /\ Carries(f)
  BY DEF Arrived, BagToSet, Base, SentOK, ReachInv, Carries
<1>2. n \in DOMAIN origin /\ origin[n] = f.orig /\ b # f.orig /\ b \in Stations
  BY <1>1 DEF FrameOK, Carries, Outbound
<1>3. SameTables /\ UNCHANGED <<origin, calm>>
  BY DEF handle_forwarded_npdu, handle_forwarded_npdu6, receive_forwarded, receive_forwarded6,
         tables, devices, SameTables
<1>4. Has(b, n)' /\ DOMAIN got \subseteq DOMAIN got'
  <2>1. PICK src : Deliver(b, n, src)
    BY <1>2 DEF handle_forwarded_npdu, handle_forwarded_npdu6, receive_forwarded, receive_forwarded6
  <2>. QED  BY <2>1, Delivered
<1>5. CASE b \in BBMDs
  <2>. DEFINE toDevices == ForwardToFDs(b, origin[n], n, origin[n])
              onWire == Wire("forwarded", b, b, origin[n], n)
  <2>1. PICK out : /\ Answering(f, out) /\ toDevices \subseteq out /\ out \subseteq toDevices \cup onWire
                   /\ directed = {} => onWire \subseteq out
    <3>1. CASE family = "v4" /\ handle_forwarded_npdu(f)
      BY <1>2, <3>1 DEF handle_forwarded_npdu, is_unicast_bdt_mask
    <3>2. CASE family = "v6" /\ handle_forwarded_npdu6(f)
      BY <1>2, <3>2 DEF handle_forwarded_npdu6
    <3>. QED  BY <1>5, <3>1, <3>2
  <2>2. origin[n] \notin Subnet(b)
    BY <1>1, <1>2, <1>5 DEF Outbound, Subnet
  <2>3. \A e \in toDevices : Carries(e) => FrameOK(e) /\ Outbound(e)
    <3>. DEFINE where == Devices(b)
    <3>1. Within(toDevices, n, where)
      BY <1>2, <1>5, DevicesWithin DEF Base
    <3>2. \A e \in toDevices : FrameOK(e)
      BY <1>2, <1>5, OnwardOK DEF Onward, forward_to_peers_and_fds6, Base
    <3>. HIDE DEF toDevices, where
    <3>. QED  BY <3>1, <3>2 DEF Within
  <2>4. \A e \in onWire : FrameOK(e) /\ Outbound(e)
    BY <1>2, <1>5, <2>2, RewiredSound
  <2>5. \A s \in DOMAIN fdt[b] \ {origin[n]} : Carried(s, n, toDevices)
    BY <1>5, DeviceMust
  <2>6. \A s \in Subnet(b) \ {b} : Carried(s, n, onWire)
    BY <1>5, RewiredMust
  <2>7. Must(f) = {b} \cup DOMAIN fdt[b] \cup (IF directed = {} THEN Subnet(b) ELSE {})
    BY <1>1, <1>5 DEF Must
  <2>. HIDE DEF toDevices, onWire, b, n
  <2>8. \A s \in Must(f) \ {origin[f.npdu]} : Has(s, f.npdu)' \/ Carried(s, f.npdu, out)
    BY <1>4, <2>1, <2>5, <2>6, <2>7 DEF Carried, n
  <2>. QED  BY <1>1, <1>3, <1>4, <2>1, <2>3, <2>4, <2>8, RelayReaches
<1>6. CASE b \notin BBMDs
  <2>1. PICK out : out = {} /\ Answering(f, out)
    BY <1>6 DEF receive_forwarded, receive_forwarded6
  <2>2. Must(f) = {b}
    BY <1>1, <1>6 DEF Must
  <2>. QED  BY <1>1, <1>3, <1>4, <2>1, <2>2, RelayReaches
<1>. QED  BY <1>5, <1>6

LEMMA DistributeReaches ==
  ASSUME Apart, UniformMasks, Base, ReachInv, NEW f \in Arrived("distribute"),
         \/ family = "v4" /\ handle_distribute_broadcast(f)
         \/ family = "v6" /\ handle_distribute_broadcast6(f)
  PROVE  ReachInv'
<1>. DEFINE b == f.dst
            n == f.npdu
<1>1. f \in DOMAIN frames /\ f.fn = "distribute" /\ FrameOK(f)
  BY DEF Arrived, BagToSet, Base, SentOK
<1>2. /\ n \in DOMAIN origin /\ origin[n] = f.src /\ b \in BBMDs
      /\ f.src \in Devices(b) /\ f.src \notin BBMDs
  BY <1>1, StationsAssumption DEF FrameOK, Carries, Devices
<1>3. SameTables /\ UNCHANGED <<origin, calm>>
  BY DEF handle_distribute_broadcast, handle_distribute_broadcast6, tables, devices, SameTables
<1>4. CASE f.src \in DOMAIN fdt[b]
  <2>. DEFINE onward == Forwarding(b, origin[n], n, origin[n])
              onWire == Wire("forwarded", b, b, origin[n], n)
  <2>1. PICK out : /\ Answering(f, out) /\ onward \subseteq out /\ out \subseteq onward \cup onWire
                   /\ family = "v6" => onWire \subseteq out
    BY <1>2, <1>4 DEF handle_distribute_broadcast, handle_distribute_broadcast6, Forwarding
  <2>2. Has(b, n)' /\ DOMAIN got \subseteq DOMAIN got'
    BY <1>4, Delivered DEF handle_distribute_broadcast, handle_distribute_broadcast6
  <2>3. \A e \in onward : FrameOK(e) /\ Outbound(e)
    <3>1. \A e \in Onward(b, origin[n], n, origin[n]) : FrameOK(e) /\ Outbound(e)
      BY <1>2, OnwardSound DEF Base
    <3>. QED  BY <3>1 DEF Forwarding, Onward
  <2>4. origin[n] \notin Subnet(b)
    BY <1>2, AreaOf
  <2>5. \A e \in onWire : FrameOK(e) /\ Outbound(e)
    BY <1>2, <2>4, RewiredSound
  <2>6. \A s \in Outward(b) \ {origin[n]} : Carried(s, n, onward)
    BY <1>2, OnwardMust DEF Base
  <2>7. \A s \in Subnet(b) \ {b} : Carried(s, n, onWire)
    BY <1>2, RewiredMust
  <2>8. Must(f) = {b} \cup Outward(b) \cup (IF family = "v6" THEN Subnet(b) ELSE {})
    BY <1>1, <1>4 DEF Must
  <2>. HIDE DEF onward, onWire, b, n
  <2>9. \A s \in Must(f) \ {origin[f.npdu]} : Has(s, f.npdu)' \/ Carried(s, f.npdu, out)
    BY <2>1, <2>2, <2>6, <2>7, <2>8 DEF Carried, n
  <2>. QED  BY <1>1, <1>3, <2>1, <2>2, <2>3, <2>5, <2>9, RelayReaches
<1>5. CASE f.src \notin DOMAIN fdt[b]
  <2>1. /\ UNCHANGED got /\ Answering(f, Result(b, f.src, "nak", "distribute"))
    BY <1>5 DEF handle_distribute_broadcast, handle_distribute_broadcast6
  <2>2. Must(f) = {}
    BY <1>1, <1>5 DEF Must
  <2>3. \A e \in Result(b, f.src, "nak", "distribute") : ~Carries(e)
    BY NoneCarried DEF Result, ResultOf
  <2>4. DOMAIN got \subseteq DOMAIN got'
    BY <2>1
  <2>. QED  BY <1>1, <1>3, <2>1, <2>2, <2>3, <2>4, RelayReaches
<1>. QED  BY <1>4, <1>5

(* What is served by a BBMD is in its subnet or outward of it.             *)
LEMMA ServedIs ==
  ASSUME TypesOK, NEW b \in BBMDs
  PROVE  Served(b) = Subnet(b) \cup Outward(b)
<1>1. bdt[b] \subseteq BBMDs
  BY DEF TypesOK
<1>2. \A t : t \in Served(b) <=>
        \E p \in BBMDs : (p = b \/ p \in bdt[b]) /\ t \in Subnet(p) \cup DOMAIN fdt[p]
  BY DEF Served
<1>3. \A t : t \in Outward(b) <=>
        \/ t \in DOMAIN fdt[b]
        \/ \E p \in bdt[b] \ {b} : t \in Subnet(p) \cup DOMAIN fdt[p]
  BY DEF Outward
<1>. QED  BY <1>1, <1>2, <1>3

LEMMA RegisteredReach ==
  ASSUME NoForeignManagers, RenewedInTime, Base, RenewalInv,
         NEW s \in attached \cap registered, s \notin dropped, NEW n,
         NEW t \in Audience(s)
  PROVE  Carried(t, n, {Datagram("distribute", s, BBMDOf[s], s, n, "")})
<1>. DEFINE b == BBMDOf[s]
<1>1. s \in Foreign /\ b \in BBMDs
  BY StationsAssumption DEF Base, TypesOK
<1>2. s \in DOMAIN fdt[b]
  BY <1>1 DEF RenewalInv, InTime, Listed
<1>3. \A c \in BBMDs : s \in DOMAIN fdt[c] => c = b
  BY DEF Base, TypesOK
<1>4. t \in Served(b) /\ (family = "v4" => t \notin Subnet(b) \ {b})
  <2>. DEFINE far == {c \in BBMDs : s \in DOMAIN fdt[c] /\ s \in attached \cap registered}
  <2>1. far = {b}
    BY <1>1, <1>2, <1>3
  <2>2. t \in UNION {Served(c) \ (IF family = "v4" THEN Subnet(c) \ {c} ELSE {}) : c \in far}
    BY <2>1 DEF Audience
  <2>. HIDE DEF far
  <2>. QED  BY <2>1, <2>2
<1>5. t \in Subnet(b) \cup Outward(b)
  BY <1>1, <1>4, ServedIs DEF Base
<1>6. PICK e : e = Datagram("distribute", s, b, s, n, "")
  OBVIOUS
<1>7. e.fn = "distribute" /\ e.src = s /\ e.dst = b /\ e.npdu = n
  BY <1>6 DEF Datagram
<1>. HIDE DEF b
<1>8. t \in Must(e)
  <2>1. family \in {"v4", "v6"}
    BY DEF Base, TypesOK
  <2>2. Must(e) = {b} \cup Outward(b) \cup (IF family = "v6" THEN Subnet(b) ELSE {})
    BY <1>2, <1>7 DEF Must
  <2>. QED  BY <1>4, <1>5, <2>1, <2>2
<1>. QED  BY <1>6, <1>7, <1>8 DEF Carried, Carries, b

LEMMA UnregisteredReach ==
  ASSUME UniformMasks, Base, NEW s \in Stations, s \notin attached \cap registered, NEW n,
         NEW t \in Audience(s), NEW out,
         out = Wire("original", s, s, s, n) \cup
               (IF s \in BBMDs THEN Forwarding(s, s, n, NULL) ELSE {})
  PROVE  Carried(t, n, out)
<1>1. /\ t # s
      /\ \/ t \in Subnet(s)
         \/ \E b \in BBMDs : Home[b] = Home[s] /\ t \in Served(b)
  <2>. DEFINE near == {b \in BBMDs : Home[b] = Home[s]}
              far == {b \in BBMDs : s \in DOMAIN fdt[b] /\ s \in attached \cap registered}
  <2>1. far = {}
    OBVIOUS
  <2>2. Audience(s) = (Subnet(s) \cup UNION {Served(b) : b \in near}) \ {s}
    BY <2>1 DEF Audience
  <2>. QED  BY <2>2
<1>2. ASSUME NEW d \in Subnet(s) \ {s}, t = d \/ (d \in BBMDs /\ t \in Outward(d))
      PROVE  Carried(t, n, out)
  <2>1. PICK e : e = Datagram("original", s, d, s, n, "")
    OBVIOUS
  <2>2. e.fn = "original" /\ e.dst = d /\ e.npdu = n
    BY <2>1 DEF Datagram
  <2>3. t \in Must(e) /\ Carries(e)
    BY <1>2, <2>2 DEF Must, Carries
  <2>4. e \in out
    BY <2>1 DEF Wire
  <2>. QED  BY <2>2, <2>3, <2>4 DEF Carried
<1>3. CASE t \in Subnet(s)
  BY <1>1, <1>2, <1>3
<1>4. ASSUME NEW b \in BBMDs, Home[b] = Home[s], t \in Served(b)
      PROVE  Carried(t, n, out)
  <2>1. Subnet(b) = Subnet(s) /\ b \in Subnet(s)
    BY <1>4, StationsAssumption DEF Subnet
  <2>2. t \in Subnet(s) \/ t \in Outward(b)
    BY <1>4, <2>1, ServedIs DEF Base
  <2>3. CASE t \in Outward(b) /\ b # s
    BY <1>2, <2>1, <2>3
  <2>4. CASE t \in Outward(b) /\ b = s
    <3>1. t # NULL
      BY <2>4, StationsAssumption DEF Outward, Base, TypesOK, Subnet
    <3>2. Carried(t, n, Forwarding(s, s, n, NULL))
      BY <2>4, <3>1, OnwardMust DEF Base
    <3>. QED  BY <2>4, <3>2 DEF Carried
  <2>. QED  BY <1>3, <2>2, <2>3, <2>4
<1>. QED  BY <1>1, <1>3, <1>4

LEMMA BroadcastReaches ==
  ASSUME Apart, UniformMasks, NoForeignManagers, RenewedInTime,
         Base, RenewalInv, ReachInv, NEW s \in Stations, send_broadcast(s),
         NEW n, n = Cardinality(DOMAIN origin) + 1
  PROVE  ReachInv'
<1>1. /\ n \notin DOMAIN origin /\ DOMAIN origin' = DOMAIN origin \cup {n} /\ origin'[n] = s
      /\ \A i \in DOMAIN origin : origin'[i] = origin[i]
  BY NextNPDU DEF Base
<1>2. SameTables /\ UNCHANGED got /\ calm' = calm \cup {n}
  BY DEF send_broadcast, SameTables, tables, devices
<1>3. PICK out : /\ Sending(out)
                 /\ \A e \in out : FrameOK(e)' /\ Carries(e) /\ e.npdu = n
                 /\ \/ /\ s \in attached \cap registered
                       /\ out = {Datagram("distribute", s, BBMDOf[s], s, n, "")}
                    \/ /\ s \notin attached \cap registered
                       /\ out = Wire("original", s, s, s, n) \cup
                                (IF s \in BBMDs THEN Forwarding(s, s, n, NULL) ELSE {})
  BY BroadcastFrames
<1>4. DOMAIN frames' = DOMAIN frames \cup out
  BY <1>3, SendingAdds DEF Base, SentOK
<1>5. \A e \in DOMAIN frames' : Outbound(e)'
  <2>1. \A e \in DOMAIN frames : Outbound(e)'
    BY <1>1 DEF ReachInv, Outbound, Base, SentOK, FrameOK
  <2>2. \A e \in out : /\ e.dst # s
                       /\ e.fn = "forwarded" /\ e.dst \in BBMDs => Home[e.orig] # Home[e.dst]
    <3>1. CASE /\ s \in attached \cap registered
               /\ out = {Datagram("distribute", s, BBMDOf[s], s, n, "")}
      <4>1. PICK e : out = {e} /\ e = Datagram("distribute", s, BBMDOf[s], s, n, "")
        BY <3>1
      <4>2. e.dst = BBMDOf[s] /\ e.fn = "distribute"
        BY <4>1 DEF Datagram
      <4>3. s \in Foreign
        BY <3>1 DEF Base, TypesOK
      <4>4. BBMDOf[s] # s
        BY <4>3, StationsAssumption
      <4>. QED  BY <4>1, <4>2, <4>4
    <3>2. CASE out = Wire("original", s, s, s, n) \cup
                     (IF s \in BBMDs THEN Forwarding(s, s, n, NULL) ELSE {})
      BY <3>2, BroadcastApart DEF Base
    <3>. QED  BY <1>3, <3>1, <3>2
  <2>3. \A e \in out : Outbound(e)'
    BY <1>1, <1>3, <2>2 DEF Outbound
  <2>. QED  BY <1>4, <2>1, <2>3
<1>6. \A t : Audience(t)' = Audience(t)
  BY <1>2, SameAudience DEF Base
<1>7. ASSUME NEW i \in calm, Steady(i)', NEW t \in Audience(origin[i])
      PROVE  Has(t, i)' \/ Carried(t, i, DOMAIN frames)'
  <2>1. i \in DOMAIN origin /\ Steady(i)
    BY <1>1, <1>2, <1>7 DEF Base, SentOK, Steady, SameTables
  <2>2. CASE Has(t, i)
    BY <1>2, <2>2 DEF Has
  <2>3. CASE Carried(t, i, DOMAIN frames)
    <3>1. \A e \in DOMAIN frames : Carries(e) => FrameOK(e)
      BY DEF Base, SentOK
    <3>. QED  BY <1>2, <1>4, <2>3, <3>1, CarriedStays
  <2>. QED  BY <1>7, <2>1, <2>2, <2>3 DEF ReachInv
<1>8. ASSUME Steady(n)', NEW t \in Audience(s)
      PROVE  Carried(t, n, DOMAIN frames)'
  <2>1. Carried(t, n, out)
    <3>1. CASE /\ s \in attached \cap registered
               /\ out = {Datagram("distribute", s, BBMDOf[s], s, n, "")}
      <4>1. s \notin dropped
        BY <1>1, <1>2, <1>8, <3>1 DEF Steady, SameTables
      <4>. QED  BY <1>8, <3>1, <4>1, RegisteredReach
    <3>2. CASE /\ s \notin attached \cap registered
               /\ out = Wire("original", s, s, s, n) \cup
                        (IF s \in BBMDs THEN Forwarding(s, s, n, NULL) ELSE {})
      BY <1>8, <3>2, UnregisteredReach
    <3>. QED  BY <1>3, <3>1, <3>2
  <2>2. PICK e \in out : Carries(e) /\ e.npdu = n /\ t \in Must(e)
    BY <2>1 DEF Carried
  <2>3. e.fn = "distribute" => e.dst \in BBMDs
    <3>1. FrameOK(e)'
      BY <1>3, <2>2
    <3>2. e.fn = "distribute" => e.src \in Foreign /\ e.dst = BBMDOf[e.src]
      BY <3>1 DEF FrameOK
    <3>. QED  BY <3>2, StationsAssumption
  <2>4. Must(e)' = Must(e)
    BY <1>2, <2>3, SameMust DEF Base
  <2>. QED  BY <1>4, <2>2, <2>4 DEF Carried
<1>9. \A i \in calm : i \in DOMAIN origin /\ origin'[i] = origin[i]
  BY <1>1 DEF Base, SentOK
<1>. QED  BY <1>1, <1>2, <1>5, <1>6, <1>7, <1>8, <1>9 DEF ReachInv

LEMMA ControlReaches ==
  ASSUME Base, ReachInv, NEW f,
         \/ \E lifetime : Entered(f, lifetime)
         \/ handle_delete_fdt_entry(f) \/ Lose(f)
         \/ /\ handle_write_bdt(f) \/ handle_read(f) \/ send_bvlc_nak(f) \/ handle_bvlc_result(f)
            /\ ~Carries(f)
  PROVE  ReachInv'
<1>1. UNCHANGED origin
  BY DEF Entered, handle_delete_fdt_entry, handle_read, send_bvlc_nak, handle_bvlc_result, Lose,
         handle_write_bdt
<1>2. /\ calm' = {} \/ (SameTables /\ UNCHANGED <<calm, got>>)
      /\ calm' = {} \/ ~Carries(f)
  BY DEF Entered, handle_delete_fdt_entry, handle_read, send_bvlc_nak, handle_bvlc_result, Lose,
         handle_write_bdt, tables, devices, SameTables
<1>3. PICK out : Answering(f, out) /\ \A e \in out : ~Carries(e)
  <2>1. CASE Answering(f, {})
    BY <2>1
  <2>2. CASE \E n, code, re : Answering(f, ResultOf(n, f.dst, f.src, code, re))
    BY <2>2, NoneCarried DEF ResultOf
  <2>3. CASE \E n : Answering(f, {Datagram("ack", f.dst, f.src, NULL, n, f.arg)})
    BY <2>3, NoneCarried
  <2>. QED
    BY <2>1, <2>2, <2>3 DEF Entered, Result, handle_delete_fdt_entry, handle_read, send_bvlc_nak,
                            handle_bvlc_result, Lose, handle_write_bdt
<1>. QED  BY <1>1, <1>2, <1>3, ControlAnswers

LEMMA DeviceReaches ==
  ASSUME Base, ReachInv,
         \/ \E f \in Foreign : registration_loop(f) \/ deregister_foreign_device(f)
         \/ \E m, b, op, what : Call(m, b, op, what)
  PROVE  ReachInv'
<1>1. UNCHANGED origin /\ (calm' = {} \/ (SameTables /\ UNCHANGED <<calm, got>>))
  BY DEF registration_loop, deregister_foreign_device, Call, bvlc_request, tables, devices,
         SameTables
<1>2. PICK out : Sending(out) /\ \A e \in out : ~Carries(e)
  <2>1. CASE Sending({})
    BY <2>1
  <2>2. CASE \E f : Sending({Datagram("register", f, BBMDOf[f], NULL, 0, "register")})
    BY <2>2, NoneCarried
  <2>3. CASE \E f : Sending({Datagram("delete", f, BBMDOf[f], f, 0, "delete")})
    BY <2>3, NoneCarried
  <2>4. CASE \E m, b, op, what : Call(m, b, op, what)
    <3>1. PICK m, b, op, what : Call(m, b, op, what)
      BY <2>4
    <3>a. PICK e : e = Datagram(Function(op), m, b, what, events + 1, op)
      OBVIOUS
    <3>2. Sending({e}) /\ e.fn \in {"read", "write", "delete"}
      BY <3>1, <3>a, CallSends
    <3>3. PICK out : out = {e} /\ Sending(out)
      BY <3>2
    <3>. QED  BY <3>2, <3>3 DEF Carries
  <2>. QED
    BY <2>1, <2>2, <2>3, <2>4 DEF registration_loop, deregister_foreign_device
<1>. QED  BY <1>1, <1>2, ControlSends

LEMMA NextReaches ==
  ASSUME Apart, UniformMasks, NoForeignManagers, RenewedInTime,
         Base, RenewalInv, ReachInv, [Next]_vars
  PROVE  ReachInv'
<1>1. CASE \E s \in Stations : send_broadcast(s)
  <2>1. PICK n : n = Cardinality(DOMAIN origin) + 1
    OBVIOUS
  <2>. QED  BY <1>1, <2>1, BroadcastReaches
<1>2. CASE on_datagram_received
  <2>1. CASE \E f \in Arrived("original") : handle_original_broadcast(f)
    BY <2>1, OriginalReaches
  <2>2. CASE family = "v4" /\ \E f \in Arrived("forwarded") :
               IF f.dst \in BBMDs THEN handle_forwarded_npdu(f) ELSE receive_forwarded(f)
    BY <2>2, ForwardedReaches
  <2>3. CASE family = "v6" /\ \E f \in Arrived("forwarded") :
               IF f.dst \in BBMDs THEN handle_forwarded_npdu6(f) ELSE receive_forwarded6(f)
    BY <2>3, ForwardedReaches
  <2>4. CASE \E f \in Arrived("distribute") :
               \/ family = "v4" /\ handle_distribute_broadcast(f)
               \/ family = "v6" /\ handle_distribute_broadcast6(f)
    BY <2>4, DistributeReaches
  <2>5. CASE \E f : \/ \E lifetime : Entered(f, lifetime)
                    \/ handle_delete_fdt_entry(f)
                    \/ /\ \/ handle_write_bdt(f) \/ handle_read(f) \/ send_bvlc_nak(f)
                          \/ handle_bvlc_result(f)
                       /\ ~Carries(f)
    BY <2>5, ControlReaches
  <2>6. \A fn \in {"read", "write", "delete", "result", "ack"} : \A f \in Arrived(fn) : ~Carries(f)
    BY DEF Arrived, Carries
  <2>. QED
    BY <1>2, <2>1, <2>2, <2>3, <2>4, <2>5, <2>6
       DEF on_datagram_received, handle_register_foreign_device, handle_register_foreign_device6
<1>3. CASE \E b \in BBMDs : purge_expired_fdt_entries(b) \/ restart_bbmd(b)
  <2>1. UNCHANGED origin /\ calm' = {} /\ DOMAIN frames' \subseteq DOMAIN frames
    BY <1>3 DEF purge_expired_fdt_entries, restart_bbmd
  <2>. QED  BY <2>1, QuietReaches
<1>4. CASE \E f \in Foreign : registration_loop(f) \/ deregister_foreign_device(f)
  BY <1>4, DeviceReaches
<1>5. CASE \E m \in Managers : client_call(m)
  BY <1>5, CallCases, DeviceReaches
<1>6. CASE \E f : Lose(f)
  BY <1>6, ControlReaches
<1>7. CASE \/ \E f \in Foreign : attach_foreign_device(f)
           \/ \E c \in DOMAIN call : finish_bvlc_request(c)
           \/ Tick \/ UNCHANGED vars
  <2>1. UNCHANGED <<origin, frames, calm, got>>
    BY <1>7 DEF attach_foreign_device, finish_bvlc_request, Tick, vars
  <2>2. SameTables
    <3>1. UNCHANGED <<config, bdt, registered, dropped>>
      BY <1>7 DEF attach_foreign_device, finish_bvlc_request, Tick, vars, tables, devices
    <3>2. \A b \in BBMDs : DOMAIN fdt'[b] = DOMAIN fdt[b]
      BY <1>7 DEF attach_foreign_device, finish_bvlc_request, Tick, vars, tables
    <3>3. attached' \cap registered = attached \cap registered
      BY <1>7 DEF attach_foreign_device, finish_bvlc_request, Tick, vars, devices, Base, TypesOK
    <3>. QED  BY <3>1, <3>2, <3>3 DEF SameTables
  <2>. QED  BY <2>1, <2>2, QuietReaches
<1>. QED
  BY <1>1, <1>2, <1>3, <1>4, <1>5, <1>6, <1>7 DEF Next

(* A broadcast that was sent after the tables had settled and of which     *)
(* nothing was lost reaches every station of the sender's subnet, of the   *)
(* subnets of the BBMDs in the BDT that serves it, and every foreign       *)
(* device in their tables.                                                 *)
THEOREM ReachesAllTheorem ==
  ASSUME Apart, UniformMasks, NoForeignManagers, RenewedInTime
  PROVE  Spec => []ReachesAll
<1>. DEFINE Inv == Base /\ RenewalInv /\ ReachInv
<1>1. Init => Inv
  <2>1. Init => ReachInv
    BY DEF Init, ReachInv, EmptyBag, SetToBag
  <2>. QED  BY <2>1, InitBase, InitRenewal
<1>2. Inv /\ [Next]_vars => Inv'
  BY NextBase, NextRenewal, NextReaches
<1>3. Inv => ReachesAll
  BY DEF ReachesAll, ReachInv, Steady, Carried, Has, BagToSet
<1>. QED  BY <1>1, <1>2, <1>3, PTL DEF Spec
=============================================================================
