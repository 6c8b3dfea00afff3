------------------------------- MODULE Frames -------------------------------
(***************************************************************************)
(* The headers of the layers below the services: APDU (encoding/apdu.py),  *)
(* NPDU and network messages (network/npdu.py, messages.py), addresses     *)
(* (network/address.py), BVLL of BACnet/IP and BACnet/IPv6, BVLC of        *)
(* BACnet/SC, Ethernet.  Encoders and decoders are written down            *)
(* separately, each from its own function; the values of enumerations are  *)
(* those the code has names for.                                           *)
(***************************************************************************)
EXTENDS Encoding, FiniteSets

Flag(b, mask) == IF b THEN mask ELSE 0
Has(octet, mask) == (octet \div mask) % 2 = 1
Index(s, x) == CHOOSE i \in DOMAIN s : s[i] = x
U16(data, off) == from_bytes(Slice(data, off, off + 2))
Rest(data, off) == Slice(data, off, Len(data))
Octet(data, off) == data[off + 1]

-----------------------------------------------------------------------------
(* APDU                                                                    *)

PduTypes == <<"ConfirmedRequest", "UnconfirmedRequest", "SimpleAck", "ComplexAck", "SegmentAck",
              "Error", "Reject", "Abort">>
MaxSegments == <<NULL, 2, 4, 8, 16, 32, 64>>
MaxApdu == <<50, 128, 206, 480, 1024, 1476>>

encode_max_segments(v) ==
  IF \E i \in DOMAIN MaxSegments : MaxSegments[i] = v THEN Index(MaxSegments, v) - 1 ELSE 7
decode_max_segments(v) == IF v < 7 THEN MaxSegments[v + 1] ELSE NULL
encode_max_apdu(v) == IF \E i \in DOMAIN MaxApdu : MaxApdu[i] = v THEN Index(MaxApdu, v) - 1 ELSE 5
decode_max_apdu(v) == IF v < 6 THEN MaxApdu[v + 1] ELSE 1476

encode_segmentation_fields(p) ==
  IF p.segmented THEN <<p.sequence_number, p.proposed_window_size>> ELSE <<>>

encode_confirmed_request(p) ==
  <<Flag(p.segmented, 8) + Flag(p.more_follows, 4) + Flag(p.segmented_response_accepted, 2),
    encode_max_segments(p.max_segments) * 16 + encode_max_apdu(p.max_apdu_length), p.invoke_id>>
  \o encode_segmentation_fields(p) \o <<p.service_choice>> \o p.service

encode_complex_ack(p) ==
  <<48 + Flag(p.segmented, 8) + Flag(p.more_follows, 4), p.invoke_id>>
  \o encode_segmentation_fields(p) \o <<p.service_choice>> \o p.service

encode_error(p) ==
  <<80, p.invoke_id, p.service_choice>>
  \o encode_application_tagged("enum", p.error_class)
  \o encode_application_tagged("enum", p.error_code) \o p.error_data

encode_apdu(p) ==
  CASE p.type = "ConfirmedRequest" -> encode_confirmed_request(p)
    [] p.type = "UnconfirmedRequest" -> <<16, p.service_choice>> \o p.service
    [] p.type = "SimpleAck" -> <<32, p.invoke_id, p.service_choice>>
    [] p.type = "ComplexAck" -> encode_complex_ack(p)
    [] p.type = "SegmentAck" ->
         <<64 + Flag(p.negative_ack, 2) + Flag(p.sent_by_server, 1), p.invoke_id,
           p.sequence_number, p.actual_window_size>>
    [] p.type = "Error" -> encode_error(p)
    [] p.type = "Reject" -> <<96, p.invoke_id, p.reason>>
    [] p.type = "Abort" -> <<112 + Flag(p.sent_by_server, 1), p.invoke_id, p.reason>>

(* A segmented request or acknowledgement has two octets more; off is where *)
(* they are.                                                               *)
decode_segmentation_fields(data, off) ==
  IF ~ Has(data[1], 8)
  THEN [ok |-> TRUE, seq |-> NULL, window |-> NULL, off |-> off]
  ELSE IF Len(data) < off + 3 THEN Error
  ELSE [ok |-> TRUE, seq |-> Octet(data, off), window |-> Octet(data, off + 1), off |-> off + 2]

decode_confirmed_request(data) ==
  LET s == decode_segmentation_fields(data, 3) IN
  IF Len(data) < 4 \/ ~ s.ok THEN Error
  ELSE Ok([type |-> "ConfirmedRequest", segmented |-> Has(data[1], 8),
           more_follows |-> Has(data[1], 4), segmented_response_accepted |-> Has(data[1], 2),
           max_segments |-> decode_max_segments((data[2] \div 16) % 8),
           max_apdu_length |-> decode_max_apdu(data[2] % 16), invoke_id |-> data[3],
           sequence_number |-> s.seq, proposed_window_size |-> s.window,
           service_choice |-> Octet(data, s.off), service |-> Rest(data, s.off + 1)], 0)

decode_complex_ack(data) ==
  LET s == decode_segmentation_fields(data, 2) IN
  IF Len(data) < 3 \/ ~ s.ok THEN Error
  ELSE Ok([type |-> "ComplexAck", segmented |-> Has(data[1], 8),
           more_follows |-> Has(data[1], 4), invoke_id |-> data[2],
           sequence_number |-> s.seq, proposed_window_size |-> s.window,
           service_choice |-> Octet(data, s.off), service |-> Rest(data, s.off + 1)], 0)

decode_error(data) ==
  LET t == decode_tag(data, 3)
      u == decode_tag(data, t.off + t.length)
      value(tag) == decode_unsigned(Slice(data, tag.off, tag.off + tag.length)).v
  IN IF Len(data) < 5 \/ ~ t.ok THEN Error
     ELSE IF t.off + t.length > Len(data) \/ ~ u.ok THEN Error
     ELSE IF u.off + u.length > Len(data) THEN Error
     ELSE Ok([type |-> "Error", invoke_id |-> data[2], service_choice |-> data[3],
              error_class |-> value(t), error_code |-> value(u),
              error_data |-> Rest(data, u.off + u.length)], 0)

decode_apdu(data) ==
  IF data = <<>> THEN Error
  ELSE IF data[1] \div 16 > 7 THEN Error
  ELSE
  LET type == PduTypes[data[1] \div 16 + 1] IN
  CASE type = "ConfirmedRequest" -> decode_confirmed_request(data)
    [] type = "UnconfirmedRequest" ->
         IF Len(data) < 2 THEN Error
         ELSE Ok([type |-> type, service_choice |-> data[2], service |-> Rest(data, 2)], 0)
    [] type = "SimpleAck" ->
         IF Len(data) < 3 THEN Error
         ELSE Ok([type |-> type, invoke_id |-> data[2], service_choice |-> data[3]], 0)
    [] type = "ComplexAck" -> decode_complex_ack(data)
    [] type = "SegmentAck" ->
         IF Len(data) < 4 THEN Error
         ELSE Ok([type |-> type, negative_ack |-> Has(data[1], 2),
                  sent_by_server |-> Has(data[1], 1), invoke_id |-> data[2],
                  sequence_number |-> data[3], actual_window_size |-> data[4]], 0)
    [] type = "Error" -> decode_error(data)
    [] type = "Reject" ->
         IF Len(data) < 3 THEN Error
         ELSE Ok([type |-> type, invoke_id |-> data[2], reason |-> data[3]], 0)
    [] type = "Abort" ->
         IF Len(data) < 3 THEN Error
         ELSE Ok([type |-> type, sent_by_server |-> Has(data[1], 1), invoke_id |-> data[2],
                  reason |-> data[3]], 0)

-----------------------------------------------------------------------------
(* Addresses                                                               *)

GlobalNetwork == 65535

(* BACnetAddress: __post_init__ refuses network 0.                         *)
Address(network, mac) == [network |-> network, mac |-> mac]
IsAddress(a) == a.network = NULL \/ a.network \in 1 .. 65535

is_global_broadcast(a) == a.network = GlobalNetwork
is_remote_broadcast(a) == a.network # NULL /\ a.network # GlobalNetwork /\ a.mac = <<>>

(* What __str__ writes: the network, if any, and a star, the IPv4 or IPv6  *)
(* address and the port, or hexadecimal digits                             *)
address_to_str(a) ==
  IF is_global_broadcast(a) THEN [network |-> NULL, form |-> "*", text |-> <<>>]
  ELSE IF is_remote_broadcast(a) THEN [network |-> a.network, form |-> "*", text |-> <<>>]
  ELSE [network |-> a.network,
        form |-> IF Len(a.mac) = 6 THEN "ip" ELSE IF Len(a.mac) = 18 THEN "[ip6]"
                 ELSE IF a.mac = <<>> THEN "" ELSE "hex",
        text |-> a.mac]

(* parse_address: digits are read as a MAC only after a network.           *)
parse_address(s) ==
  CASE s.form = "" -> Error
    [] s.form = "*" -> Ok(Address(IF s.network = NULL THEN GlobalNetwork ELSE s.network, <<>>), 0)
    [] s.form \in {"ip", "[ip6]", "ether"} -> Ok(Address(s.network, s.text), 0)
    [] s.form = "hex" -> IF s.network = NULL THEN Error ELSE Ok(Address(s.network, s.text), 0)

(* BACnetAddress.to_dict and from_dict                                     *)
Key(k, v, given) == IF given THEN {<<k, v>>} ELSE {}
address_to_dict(a) ==
  Key("network", a.network, a.network # NULL) \cup Key("mac_address", a.mac, a.mac # <<>>)
ValueAt(d, k, default) ==
  IF \E e \in d : e[1] = k THEN (CHOOSE e \in d : e[1] = k)[2] ELSE default
address_from_dict(d) == Address(ValueAt(d, "network", NULL), ValueAt(d, "mac_address", <<>>))

-----------------------------------------------------------------------------
(* NPDU                                                                    *)

Version == 1

Specifier(a) == to_bytes(a.network, 2) \o <<Len(a.mac)>> \o a.mac

VendorOctets(p) ==
  IF p.message_type >= 128 THEN to_bytes(IF p.vendor_id = NULL THEN 0 ELSE p.vendor_id, 2)
  ELSE <<>>

NpduContent(p) ==
  IF p.is_network_message THEN <<p.message_type>> \o VendorOctets(p) \o p.data ELSE p.apdu

(* What raises ValueError is not sent: a source must be a station.         *)
Encodable(p) ==
  /\ p.destination # NULL => p.destination.network # NULL
  /\ p.source # NULL => p.source.network \notin {NULL, GlobalNetwork, 0} /\ p.source.mac # <<>>
  /\ p.is_network_message => p.message_type # NULL

encode_npdu(p) ==
  <<Version, (p.priority % 4) + Flag(p.is_network_message, 128) + Flag(p.destination # NULL, 32)
             + Flag(p.source # NULL, 8) + Flag(p.expecting_reply, 4)>>
  \o (IF p.destination # NULL THEN Specifier(p.destination) ELSE <<>>)
  \o (IF p.source # NULL THEN Specifier(p.source) ELSE <<>>)
  \o (IF p.destination # NULL THEN <<p.hop_count>> ELSE <<>>)
  \o NpduContent(p)

(* The router's own encoder for the last hop: no destination, and the      *)
(* source it adds                                                          *)
encode_npdu_local_delivery(p, source_network, source_mac) ==
  <<Version, (p.priority % 4) + Flag(p.is_network_message, 128) + 8 + Flag(p.expecting_reply, 4)>>
  \o to_bytes(source_network, 2) \o <<Len(source_mac)>> \o source_mac
  \o (IF p.is_network_message
      THEN <<p.message_type>>
           \o (IF p.message_type >= 128
               THEN to_bytes(IF p.vendor_id = NULL THEN 0 ELSE p.vendor_id, 2) ELSE <<>>)
           \o p.data
      ELSE p.apdu)

(* An address and its length at off                                        *)
decode_specifier(data, off) ==
  IF off + 3 > Len(data) THEN Error
  ELSE LET n == Octet(data, off + 2)
           a == Address(U16(data, off), Slice(data, off + 3, off + 3 + n))
       IN IF off + 3 + n > Len(data) \/ ~ IsAddress(a) THEN Error ELSE Ok(a, off + 3 + n)

decode_source(data, off) ==
  LET r == decode_specifier(data, off) IN
  IF ~ r.ok THEN Error
  ELSE IF r.v.network = GlobalNetwork \/ r.v.mac = <<>> THEN Error ELSE r

(* Whether the message is one of the network layer, its type and vendor    *)
decode_npdu_content(data, off, network) ==
  LET type == Octet(data, off)
      start == IF type >= 128 THEN off + 3 ELSE off + 1
  IN IF ~ network
     THEN Ok([message_type |-> NULL, vendor_id |-> NULL, data |-> <<>>, apdu |-> Rest(data, off)], 0)
     ELSE IF off >= Len(data) THEN Error
     ELSE IF start > Len(data) THEN Error
     ELSE Ok([message_type |-> type, vendor_id |-> IF type >= 128 THEN U16(data, off + 1) ELSE NULL,
              data |-> Rest(data, start), apdu |-> <<>>], 0)

decode_npdu(data) ==
  IF Len(data) < 2 THEN Error
  ELSE IF data[1] # Version THEN Error
  ELSE
  LET control == data[2]
      there == Has(control, 32)
      dest == IF there THEN decode_specifier(data, 2) ELSE Ok(NULL, 2)
      src == IF Has(control, 8) THEN decode_source(data, dest.off) ELSE Ok(NULL, dest.off)
      rest == decode_npdu_content(data, src.off + Flag(there, 1), Has(control, 128))
  IN IF ~ dest.ok THEN Error
     ELSE IF ~ src.ok THEN Error
     ELSE IF there /\ src.off >= Len(data) THEN Error
     ELSE IF ~ rest.ok THEN Error
     ELSE Ok(rest.v @@ [is_network_message |-> Has(control, 128),
                        expecting_reply |-> Has(control, 4), priority |-> control % 4,
                        destination |-> dest.v, source |-> src.v,
                        hop_count |-> IF there THEN Octet(data, src.off) ELSE 255], 0)

-----------------------------------------------------------------------------
(* Network messages                                                        *)

MaxNetworkList == 512

encode_network_list(networks) == FlattenSeq([i \in DOMAIN networks |-> to_bytes(networks[i], 2)])
decode_network_list(data) ==
  IF Len(data) % 2 # 0 \/ Len(data) \div 2 > MaxNetworkList THEN Error
  ELSE Ok([i \in 1 .. Len(data) \div 2 |-> U16(data, 2 * i - 2)], 0)

encode_routing_table(ports) ==
  <<Len(ports)>> \o
  FlattenSeq([i \in DOMAIN ports |->
                to_bytes(ports[i].network, 2) \o <<ports[i].port_id, Len(ports[i].port_info)>>
                \o ports[i].port_info])
decode_routing_table(data) ==
  LET port(r) ==
        LET n == Octet(data, r.off + 3) IN
        IF r.off + 4 > Len(data) THEN Error
        ELSE IF r.off + 4 + n > Len(data) THEN Error
        ELSE Ok(Append(r.v, [network |-> U16(data, r.off), port_id |-> Octet(data, r.off + 2),
                             port_info |-> Slice(data, r.off + 4, r.off + 4 + n)]), r.off + 4 + n)
  IN IF data = <<>> THEN Error
     ELSE FoldLeft(LAMBDA r, i : IF r.ok THEN port(r) ELSE Error, Ok(<<>>, 1),
                   [i \in 1 .. data[1] |-> i])

(* A network and an octet: the performance index, the termination time,    *)
(* whether the number is configured                                        *)
TwoParts == {"ICouldBeRouterToNetwork", "EstablishConnectionToNetwork", "NetworkNumberIs"}
NetworkLists == {"IAmRouterToNetwork", "RouterBusyToNetwork", "RouterAvailableToNetwork"}
RoutingTables == {"InitializeRoutingTable", "InitializeRoutingTableAck"}

encode_network_message(m) ==
  CASE m.type = "WhoIsRouterToNetwork" ->
         IF m.network = NULL THEN <<>> ELSE to_bytes(m.network, 2)
    [] m.type \in NetworkLists -> encode_network_list(m.networks)
    [] m.type = "RejectMessageToNetwork" -> <<m.reason>> \o to_bytes(m.network, 2)
    [] m.type \in RoutingTables -> encode_routing_table(m.ports)
    [] m.type \in TwoParts -> to_bytes(m.network, 2) \o <<m.octet>>
    [] m.type = "DisconnectConnectionToNetwork" -> to_bytes(m.network, 2)
    [] m.type = "WhatIsNetworkNumber" -> <<>>

decode_network_message(type, data) ==
  CASE type = "WhoIsRouterToNetwork" ->
         IF data = <<>> THEN Ok([type |-> type, network |-> NULL], 0)
         ELSE IF Len(data) < 2 THEN Error
         ELSE Ok([type |-> type, network |-> U16(data, 0)], 0)
    [] type \in NetworkLists ->
         LET r == decode_network_list(data)
         IN IF r.ok THEN Ok([type |-> type, networks |-> r.v], 0) ELSE Error
    [] type = "RejectMessageToNetwork" ->
         IF Len(data) < 3 THEN Error
         ELSE IF data[1] > 5 THEN Error
         ELSE Ok([type |-> type, reason |-> data[1], network |-> U16(data, 1)], 0)
    [] type \in RoutingTables ->
         LET r == decode_routing_table(data)
         IN IF r.ok THEN Ok([type |-> type, ports |-> r.v], 0) ELSE Error
    [] type \in TwoParts ->
         IF Len(data) < 3 THEN Error
         ELSE Ok([type |-> type, network |-> U16(data, 0),
                  octet |-> IF type = "NetworkNumberIs" THEN Flag(data[3] # 0, 1) ELSE data[3]], 0)
    [] type = "DisconnectConnectionToNetwork" ->
         IF Len(data) < 2 THEN Error ELSE Ok([type |-> type, network |-> U16(data, 0)], 0)
    [] type = "WhatIsNetworkNumber" -> Ok([type |-> type], 0)

-----------------------------------------------------------------------------
(* BVLL of BACnet/IP: type, function, length, and for a Forwarded-NPDU the *)
(* address it comes from                                                   *)

BvlcForwarded == 4
BvlcFunctions == 0 .. 12

encode_bvll(m) ==
  LET body == (IF m.function = BvlcForwarded THEN m.originating ELSE <<>>) \o m.data
  IN <<129, m.function>> \o to_bytes(4 + Len(body), 2) \o body

(* Mutant: the declared length is not compared with what has arrived.      *)
decode_bvll_lenient(data) ==
  IF Len(data) < 4 THEN Error
  ELSE IF data[2] # BvlcForwarded
       THEN Ok([function |-> data[2], data |-> Slice(data, 4, U16(data, 2)), originating |-> NULL], 0)
  ELSE IF U16(data, 2) < 10 THEN Error
  ELSE Ok([function |-> data[2], data |-> Slice(data, 10, U16(data, 2)),
           originating |-> Slice(data, 4, 10)], 0)

decode_bvll(data) ==
  IF Len(data) < 4 THEN Error
  ELSE IF data[1] # 129 \/ data[2] \notin BvlcFunctions THEN Error
  ELSE
  LET length == U16(data, 2) IN
  IF length < 4 \/ length > Len(data) THEN Error
  ELSE IF data[2] # BvlcForwarded
       THEN Ok([function |-> data[2], data |-> Slice(data, 4, length), originating |-> NULL], 0)
  ELSE IF length < 10 THEN Error
  ELSE Ok([function |-> data[2], data |-> Slice(data, 10, length),
           originating |-> Slice(data, 4, 10)], 0)

(* BVLL of BACnet/IPv6: virtual addresses and the originating address for  *)
(* the functions that have them                                            *)
Functions6 == 0 .. 12
HasSourceVmac == Functions6 \ {11}
HasDestVmac == {1, 5, 7}
HasOriginating == {8, 4}
Ip6Length == 18
VmacLength == 3

encode_bvll6(m) ==
  LET body == (IF m.function \in HasSourceVmac THEN m.source_vmac ELSE <<>>)
              \o (IF m.function \in HasDestVmac THEN m.dest_vmac ELSE <<>>)
              \o (IF m.function \in HasOriginating THEN m.originating ELSE <<>>) \o m.data
  IN <<130, m.function>> \o to_bytes(4 + Len(body), 2) \o body

(* n octets if there, before the end the header tells                      *)
Take(data, off, n, there, length) ==
  IF ~ there THEN Ok(NULL, off)
  ELSE IF off + n > length THEN Error ELSE Ok(Slice(data, off, off + n), off + n)

decode_bvll6(data) ==
  IF Len(data) < 4 THEN Error
  ELSE IF data[1] # 130 \/ data[2] \notin Functions6 THEN Error
  ELSE
  LET f == data[2]
      length == U16(data, 2)
      source == Take(data, 4, VmacLength, f \in HasSourceVmac, length)
      dest == Take(data, source.off, VmacLength, f \in HasDestVmac, length)
      orig == Take(data, dest.off, Ip6Length, f \in HasOriginating, length)
  IN IF length < 4 \/ length > Len(data) THEN Error
     ELSE IF ~ source.ok THEN Error
     ELSE IF ~ dest.ok THEN Error
     ELSE IF ~ orig.ok THEN Error
     ELSE Ok([function |-> f, data |-> Slice(data, orig.off, length), source_vmac |-> source.v,
              dest_vmac |-> dest.v, originating |-> orig.v], 0)

-----------------------------------------------------------------------------
(* BVLC of BACnet/SC: function, flags, message identifier, the virtual     *)
(* addresses and options the flags tell, payload                           *)

ScFunctions == 0 .. 12
ScVmacLength == 6
MaxHeaderOptions == 32
MaxOptionData == 512

encode_option(o, more) ==
  <<(o.type % 32) + Flag(more, 128) + Flag(o.must_understand, 64) + Flag(o.data # <<>>, 32)>>
  \o (IF o.data = <<>> THEN <<>> ELSE to_bytes(Len(o.data), 2) \o o.data)

encode_options(os) == FlattenSeq([i \in DOMAIN os |-> encode_option(os[i], i < Len(os))])

RECURSIVE decode_options(_, _, _)
decode_options(data, off, acc) ==
  LET marker == Octet(data, off)
      n == U16(data, off + 1)
      start == IF Has(marker, 32) THEN off + 3 ELSE off + 1
      end == IF Has(marker, 32) THEN start + n ELSE start
      option == [type |-> marker % 32, must_understand |-> Has(marker, 64),
                 data |-> Slice(data, start, end)]
  IN IF off >= Len(data) THEN Ok(acc, off)
     ELSE IF Len(acc) >= MaxHeaderOptions THEN Error
     ELSE IF start > Len(data) THEN Error
     ELSE IF end - start > MaxOptionData \/ end > Len(data) THEN Error
     ELSE IF Has(marker, 128) THEN decode_options(data, end, Append(acc, option))
     ELSE Ok(Append(acc, option), end)

sc_encode(m) ==
  <<m.function, Flag(m.originating # NULL, 8) + Flag(m.destination # NULL, 4)
                + Flag(m.dest_options # <<>>, 2) + Flag(m.data_options # <<>>, 1)>>
  \o to_bytes(m.message_id, 2)
  \o (IF m.originating # NULL THEN m.originating ELSE <<>>)
  \o (IF m.destination # NULL THEN m.destination ELSE <<>>)
  \o encode_options(m.dest_options) \o encode_options(m.data_options) \o m.payload

sc_decode(data) ==
  IF Len(data) < 4 THEN Error
  ELSE IF data[1] \notin ScFunctions THEN Error
  ELSE
  LET flags == data[2]
      orig == Take(data, 4, ScVmacLength, Has(flags, 8), Len(data))
      dest == Take(data, orig.off, ScVmacLength, Has(flags, 4), Len(data))
      opts == IF Has(flags, 2) THEN decode_options(data, dest.off, <<>>) ELSE Ok(<<>>, dest.off)
      more == IF Has(flags, 1) THEN decode_options(data, opts.off, <<>>) ELSE Ok(<<>>, opts.off)
  IN IF ~ orig.ok THEN Error
     ELSE IF ~ dest.ok THEN Error
     ELSE IF ~ opts.ok THEN Error
     ELSE IF ~ more.ok THEN Error
     ELSE Ok([function |-> data[1], message_id |-> U16(data, 2), originating |-> orig.v,
              destination |-> dest.v, dest_options |-> opts.v, data_options |-> more.v,
              payload |-> Rest(data, more.off)], 0)

(* The encoder of the transport for what it sends most                     *)
encode_encapsulated_npdu(message_id, originating, destination, payload) ==
  IF destination = NULL
  THEN <<1, 8>> \o to_bytes(message_id, 2) \o originating \o payload
  ELSE <<1, 12>> \o to_bytes(message_id, 2) \o originating \o destination \o payload

(* BVLC-Result, Advertisement and proprietary payloads, Connect-Request    *)
(* and Connect-Accept                                                      *)
NAK == 1
encode_payload(p) ==
  CASE p.kind = "result" ->
         <<p.for_function, p.result_code>>
         \o (IF p.result_code # NAK THEN <<>>
             ELSE <<p.marker>> \o to_bytes(p.error_class, 2) \o to_bytes(p.error_code, 2)
                  \o p.details)
    [] p.kind = "connect" ->
         p.vmac \o p.uuid \o to_bytes(p.max_bvlc, 2) \o to_bytes(p.max_npdu, 2)
    [] p.kind = "advertisement" ->
         <<p.status, Flag(p.accept_direct, 1)>> \o to_bytes(p.max_bvlc, 2) \o to_bytes(p.max_npdu, 2)
    [] p.kind = "proprietary" -> to_bytes(p.vendor_id, 2) \o <<p.function>> \o p.data

decode_result(data) ==
  IF Len(data) < 2 THEN Error
  ELSE IF data[1] \notin ScFunctions \/ data[2] > 1 THEN Error
  ELSE IF data[2] = 0
       THEN Ok([kind |-> "result", for_function |-> data[1], result_code |-> 0, marker |-> 0,
                error_class |-> 0, error_code |-> 0, details |-> <<>>], 0)
  ELSE IF Len(data) < 7 THEN Error
  ELSE Ok([kind |-> "result", for_function |-> data[1], result_code |-> 1, marker |-> data[3],
           error_class |-> U16(data, 3), error_code |-> U16(data, 5), details |-> Rest(data, 7)], 0)

decode_payload(kind, data) ==
  CASE kind = "result" -> decode_result(data)
    [] kind = "connect" ->
         IF Len(data) < 26 THEN Error
         ELSE Ok([kind |-> kind, vmac |-> Slice(data, 0, 6), uuid |-> Slice(data, 6, 22),
                  max_bvlc |-> U16(data, 22), max_npdu |-> U16(data, 24)], 0)
    [] kind = "advertisement" ->
         IF Len(data) < 6 THEN Error
         ELSE Ok([kind |-> kind, status |-> data[1], accept_direct |-> data[2] # 0,
                  max_bvlc |-> U16(data, 2), max_npdu |-> U16(data, 4)], 0)
    [] kind = "proprietary" ->
         IF Len(data) < 3 THEN Error
         ELSE Ok([kind |-> kind, vendor_id |-> U16(data, 0), function |-> data[3],
                  data |-> Rest(data, 3)], 0)

-----------------------------------------------------------------------------
(* Ethernet: a frame is padded to its least length, and the length field   *)
(* tells where the NPDU ends.                                              *)

LlcHeader == <<130, 130, 3>>
EthernetHeader == 14
MinPayload == 46

encode_frame(dst, src, npdu) ==
  LET length == Len(LlcHeader) + Len(npdu)
      padding == IF length < MinPayload THEN MinPayload - length ELSE 0
  IN dst \o src \o to_bytes(length, 2) \o LlcHeader \o npdu \o [i \in 1 .. padding |-> 0]

decode_frame(raw) ==
  LET length == U16(raw, 12) IN
  IF Len(raw) < EthernetHeader + 3 THEN Error
  ELSE IF length > 1500 \/ length < 3 THEN Error
  ELSE IF Slice(raw, EthernetHeader, EthernetHeader + 3) # LlcHeader THEN Error
  ELSE Ok([npdu |-> Slice(raw, EthernetHeader + 3, EthernetHeader + length),
           src |-> Slice(raw, 6, 12)], 0)
=============================================================================
