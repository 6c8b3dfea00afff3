------------------------------ MODULE MCCodecs ------------------------------
(***************************************************************************)
(* Every class that can be sent or saved: one device encodes a value and   *)
(* another decodes the octets, a configuration is saved as a dictionary    *)
(* and loaded.  And every frame of the layers below.                       *)
(***************************************************************************)
EXTENDS EventCodecs, Frames, FiniteSetsExt

CONSTANTS
  Awkward,    \* whether the values the code is known to mishandle are sampled
  Known,      \* the classes both sides know: Classes
  Samples     \* their values, and the frames: AllSamples

Services ==
  [BACnetPropertyValue |-> BACnetPropertyValue, ReadPropertyRequest |-> ReadPropertyRequest,
   ReadPropertyACK |-> ReadPropertyACK, WritePropertyRequest |-> WritePropertyRequest,
   ReadPropertyMultipleRequest |-> ReadPropertyMultipleRequest,
   ReadPropertyMultipleACK |-> ReadPropertyMultipleACK,
   WritePropertyMultipleRequest |-> WritePropertyMultipleRequest,
   ListElementRequest |-> ListElementRequest, CreateObjectRequest |-> CreateObjectRequest,
   DeleteObjectRequest |-> DeleteObjectRequest, WhoIsRequest |-> WhoIsRequest,
   IAmRequest |-> IAmRequest, WhoHasRequest |-> WhoHasRequest, IHaveRequest |-> IHaveRequest,
   DeviceCommunicationControlRequest |-> DeviceCommunicationControlRequest,
   ReinitializeDeviceRequest |-> ReinitializeDeviceRequest,
   TimeSynchronizationRequest |-> TimeSynchronizationRequest, WhoAmIRequest |-> WhoAmIRequest,
   YouAreRequest |-> YouAreRequest,
   ConfirmedPrivateTransferRequest |-> ConfirmedPrivateTransferRequest,
   ConfirmedPrivateTransferACK |-> ConfirmedPrivateTransferACK,
   ConfirmedTextMessageRequest |-> ConfirmedTextMessageRequest,
   WriteGroupRequest |-> WriteGroupRequest, VTOpenRequest |-> VTOpenRequest,
   VTOpenACK |-> VTOpenACK, VTCloseRequest |-> VTCloseRequest, VTDataRequest |-> VTDataRequest,
   VTDataACK |-> VTDataACK, SubscribeCOVRequest |-> SubscribeCOVRequest,
   COVNotificationRequest |-> COVNotificationRequest,
   SubscribeCOVPropertyRequest |-> SubscribeCOVPropertyRequest,
   SubscribeCOVPropertyMultipleRequest |-> SubscribeCOVPropertyMultipleRequest,
   COVPropertyValue |-> COVPropertyValue,
   COVNotificationMultipleRequest |-> COVNotificationMultipleRequest,
   EventNotificationRequest |-> EventNotificationRequest,
   AcknowledgeAlarmRequest |-> AcknowledgeAlarmRequest,
   LifeSafetyOperationRequest |-> LifeSafetyOperationRequest,
   GetAlarmSummaryACK |-> GetAlarmSummaryACK,
   GetEnrollmentSummaryRequest |-> GetEnrollmentSummaryRequest,
   GetEnrollmentSummaryACK |-> GetEnrollmentSummaryACK,
   GetEventInformationRequest |-> GetEventInformationRequest,
   GetEventInformationACK |-> GetEventInformationACK,
   AtomicReadFileRequest |-> AtomicReadFileRequest, AtomicReadFileACK |-> AtomicReadFileACK,
   AtomicWriteFileRequest |-> AtomicWriteFileRequest, AtomicWriteFileACK |-> AtomicWriteFileACK,
   ReadRangeRequest |-> ReadRangeRequest, ReadRangeACK |-> ReadRangeACK,
   AuditLogQueryRequest |-> AuditLogQueryRequest, AuditLogQueryACK |-> AuditLogQueryACK,
   ConfirmedAuditNotificationRequest |-> ConfirmedAuditNotificationRequest]

(* One value of each application-tagged type, as a list                    *)
ApplicationTypes ==
  <<"null", "bool", "uns", "sgn", "real", "dbl", "oct", "str", "bits", "enum", "date", "time",
    "oid", "bool">>
ApplicationValues ==
  Codec([i \in DOMAIN ApplicationTypes |-> PutApp(<<i>>, ApplicationTypes[i])], <<>>)

(* Types with to_dict; the first ones have no decode.                      *)
Written ==
  [BACnetDateTime |-> BACnetDateTime, BACnetDateRange |-> BACnetDateRange,
   BACnetCalendarEntry |-> BACnetCalendarEntry, BACnetTimeValue |-> BACnetTimeValue,
   BACnetSpecialEvent |-> BACnetSpecialEvent,
   BACnetObjectPropertyReference |-> BACnetObjectPropertyReference,
   BACnetAddress |-> BACnetAddress, BACnetRecipient |-> BACnetRecipient,
   BACnetDestination |-> BACnetDestination, BACnetLogRecord |-> BACnetLogRecord,
   BACnetRecipientProcess |-> BACnetRecipientProcess, BACnetScale |-> BACnetScale,
   BACnetPrescale |-> BACnetPrescale, BACnetCOVSubscription |-> BACnetCOVSubscription,
   BACnetPriorityArray |-> BACnetPriorityArray, ApplicationValues |-> ApplicationValues]

Types ==
  [BACnetTimeStamp |-> BACnetTimeStamp,
   BACnetDeviceObjectPropertyReference |-> BACnetDeviceObjectPropertyReference,
   BACnetDeviceObjectReference |-> BACnetDeviceObjectReference,
   BACnetValueSource |-> BACnetValueSource,
   BACnetAuditNotification |-> BACnetAuditNotification,
   BACnetAuditLogRecord |-> BACnetAuditLogRecord]

ParameterOf(choices, i) == [Codec(<<PutAlt("parameters", <<choices[i]>>)>>,
                             <<GetAlt("parameters", choices)>>) EXCEPT !.one = {}]

Parameters ==
  [n \in {NotificationChoices[i].name : i \in DOMAIN NotificationChoices} |->
     ParameterOf(NotificationChoices,
            CHOOSE i \in DOMAIN NotificationChoices : NotificationChoices[i].name = n)]
  @@ [n \in {FaultChoices[i].name : i \in DOMAIN FaultChoices} |->
        ParameterOf(FaultChoices, CHOOSE i \in DOMAIN FaultChoices : FaultChoices[i].name = n)]

Classes == Services @@ Written @@ Types @@ Parameters
Saved == DOMAIN Written \cup DOMAIN Types \cup DOMAIN Parameters

(* Classes whose decoders scan for closing tags themselves                 *)
Scanning == {"COVPropertyValue", "COVNotificationMultipleRequest", "BACnetAuditNotification",
             "BACnetAuditLogRecord", "AuditLogQueryACK", "ConfirmedAuditNotificationRequest"}

(* Values of a class: shade s varies the values of its fields, which       *)
(* differ within a shade too; the fields in omitted are None, those of its *)
(* parts if deep.                                                          *)

Shades == 0 .. 4
Base == [s \in Shades |-> <<0, 250, 65530, 16777210, 1073741824>>[s + 1]]

RawOf(s) ==
  << <<33, 5>>,                      \* Unsigned 5
     <<68, 47, 63, 47, 63>>,         \* a Real whose octets look like closing tags
     <<14, 9, 15, 15>>,              \* a context-tagged octet between tags 0
     <<>>,
     <<17, 33, 7>> >>[s + 1]         \* Boolean TRUE, Unsigned 7

PrimitiveOf(t, s, i) ==
  CASE t = "null" -> 0
    [] t = "uns" -> Base[s] + i
    [] t = "sgn" -> IF s % 2 = 0 THEN (Base[s] \div 2) + i ELSE - (Base[s] \div 2) - i
    [] t = "u16" -> <<0, 250, 65530, 65535, 255>>[s + 1]
    [] t = "enum" -> (s + i) % 3
    [] t = "pri" -> 1 + ((5 * s + i) % 16)
    [] t = "bool" -> (s + i) % 2 = 0
    [] t = "str" -> [j \in 1 .. s * i |-> 64 + i]
    [] t = "pwd" -> [j \in 1 .. 1 + 4 * s |-> 64 + i]
    [] t = "oct" -> [j \in 1 .. s * 2 |-> 14 + i]
    [] t = "bits" -> [unused_bits |-> (s + i) % 7, data |-> <<7 * s, 128 + 64 * (i % 2)>>]
    [] t = "flags" -> [j \in 1 .. 4 |-> (s + i + j) % 3 = 0]
    [] t = "result" -> [j \in 1 .. 3 |-> (s + i + j) % 3 = 0]
    [] t = "week" -> <<255, s, i>>
    [] t = "date" -> IF s = 0 THEN <<255, 255, 255, 255>> ELSE <<1900 + s * 50, i, s, 1>>
    [] t = "time" -> <<s, i, 255, 0>>
    [] t = "oid" -> <<IF s = 4 /\ Awkward THEN 400 ELSE 13 * s, 4194303 - i - s>>
    [] t = "real" -> <<63, 128, s, i>>
    [] t = "dbl" -> <<63, 128, 0, 0, 0, 0, s, i>>

Optional(T) == UNION {T.enc[i].need : i \in DOMAIN T.enc}

(* A value as it is after encoding and decoding: what encode leaves out is *)
(* None.                                                                   *)
Normal(T, v) == [f \in DOMAIN v |-> IF Applies(ItemOf(T, f), v) THEN v[f] ELSE NULL]

Given(T, omitted) == T.one = {} \/ Cardinality(T.one \ omitted) = 1

(* What the parts of a value leave out: all they may, or nothing           *)
Omissions(T, deep) ==
  IF ~ deep /\ T.one = {} THEN {}
  ELSE CHOOSE o \in SUBSET Optional(T) :
         /\ Given(T, o)
         /\ deep => \A f \in Optional(T) \ T.one : f \in o

RECURSIVE ValueOf(_, _, _, _)
ValueOf(T, s, omitted, deep) ==
  LET part(U, k) == Normal(U, ValueOf(U, (s + k) % 5, Omissions(U, deep), deep))
      at(i) ==
        LET item == T.enc[i] IN
        CASE item.k = "app" /\ item.sub # NoSub -> s % 3
          [] item.k \in {"ctx", "app", "octets"} /\ item.sub = NoSub -> PrimitiveOf(item.t, s, i)
          [] item.k = "raw" -> RawOf(s)
          [] item.k = "sub" -> part(item.sub, 0)
          [] item.k = "list" ->
               [k \in 1 .. (IF item.t = "three" THEN 3 ELSE s % 3) |-> part(item.sub, k)]
          [] item.k = "alt" ->
               LET a == item.sub[(s % Len(item.sub)) + 1]
               IN [alt |-> a.name, v |-> part(a.sub, 0)]
  IN [f \in {T.enc[i].f : i \in DOMAIN T.enc} |->
        IF f \in omitted THEN NULL
        ELSE at(CHOOSE i \in DOMAIN T.enc : T.enc[i].f = f)]

-----------------------------------------------------------------------------
(* None of the optional fields is omitted, all but one, one, or all        *)
Omitted(T) ==
  IF Cardinality(Optional(T)) <= 4 THEN SUBSET Optional(T)
  ELSE {o \in {{}, Optional(T)} \cup {{f} : f \in Optional(T)}
              \cup {Optional(T) \ {f} : f \in Optional(T)} : TRUE}

Cases ==
  UNION {{[cls |-> c, shade |-> s, omitted |-> o, deep |-> d] :
            s \in Shades, d \in BOOLEAN, o \in {x \in Omitted(Classes[c]) : Given(Classes[c], x)}} :
          c \in DOMAIN Classes}

(* What the code is known to mishandle: an application-tagged TRUE in a    *)
(* value that is scanned, and a second notification that starts with its   *)
(* source (object types of vendors in dictionaries are the third case)     *)
Mishandled(c) ==
  LET octets == encode(Classes[c.cls], ValueOf(Classes[c.cls], c.shade, c.omitted, c.deep)) IN
  \/ /\ c.cls \in Scanning
     /\ \E i \in 1 .. Len(octets) - 2 : SubSeq(octets, i, i + 2) = RawOf(4)
  \/ c.cls = "ConfirmedAuditNotificationRequest" /\ c.shade = 2 /\ ~ c.deep

-----------------------------------------------------------------------------
(* Frames                                                                  *)

Octets(n) == [i \in 1 .. n |-> (7 * i) % 256]

Apdus ==
  [type : {"ConfirmedRequest"}, segmented : {FALSE}, more_follows : {FALSE},
   segmented_response_accepted : BOOLEAN, max_segments : {MaxSegments[i] : i \in DOMAIN MaxSegments},
   max_apdu_length : {MaxApdu[i] : i \in DOMAIN MaxApdu}, invoke_id : {255},
   sequence_number : {NULL}, proposed_window_size : {NULL}, service_choice : {12},
   service : {<<>>}]
  \cup
  [type : {"ConfirmedRequest"}, segmented : {TRUE}, more_follows : BOOLEAN,
   segmented_response_accepted : BOOLEAN, max_segments : {NULL}, max_apdu_length : {50},
   invoke_id : {0, 255}, sequence_number : {0, 255}, proposed_window_size : {1, 127},
   service_choice : {12}, service : {Octets(3)}]
  \cup [type : {"UnconfirmedRequest"}, service_choice : {0, 8}, service : {<<>>, Octets(2)}]
  \cup [type : {"SimpleAck"}, invoke_id : {0, 255}, service_choice : {15}]
  \cup
  [type : {"ComplexAck"}, segmented : {TRUE}, more_follows : BOOLEAN, invoke_id : {9},
   sequence_number : {0, 255}, proposed_window_size : {1, 127}, service_choice : {12},
   service : {<<>>, Octets(3)}]
  \cup
  [type : {"ComplexAck"}, segmented : {FALSE}, more_follows : {FALSE}, invoke_id : {9},
   sequence_number : {NULL}, proposed_window_size : {NULL}, service_choice : {12},
   service : {<<>>, Octets(3)}]
  \cup
  [type : {"SegmentAck"}, negative_ack : BOOLEAN, sent_by_server : BOOLEAN, invoke_id : {1},
   sequence_number : {0, 255}, actual_window_size : {1, 127}]
  \cup
  [type : {"Error"}, invoke_id : {1}, service_choice : {15}, error_class : {0, 5},
   error_code : {0, 132, 256}, error_data : {<<>>, Octets(2)}]
  \cup [type : {"Reject"}, invoke_id : {1}, reason : {0, 9}]
  \cup [type : {"Abort"}, sent_by_server : BOOLEAN, invoke_id : {1}, reason : {0, 11}]

Stations == {Address(2, Octets(1)), Address(65534, Octets(6))}

Npdus ==
  {p \in [is_network_message : BOOLEAN, expecting_reply : BOOLEAN, priority : {0, 3},
          destination : Stations \cup {NULL, Address(GlobalNetwork, <<>>), Address(1, <<>>)},
          source : Stations \cup {NULL}, hop_count : {0, 255},
          message_type : {NULL, 18, 128}, vendor_id : {NULL, 999},
          data : {<<>>, Octets(2)}, apdu : {<<>>, Octets(3)}] :
     /\ p.destination = NULL => p.hop_count = 255
     /\ p.is_network_message <=> p.message_type # NULL
     /\ p.is_network_message => p.apdu = <<>>
     /\ ~ p.is_network_message => p.data = <<>>
     /\ p.message_type = 128 <=> p.vendor_id # NULL}

NetworkMessages ==
  [type : {"WhoIsRouterToNetwork"}, network : {NULL, 1, 65535}]
  \cup [type : NetworkLists, networks : {<<>>, <<256>>, <<1, 65534, 2>>}]
  \cup [type : {"RejectMessageToNetwork"}, reason : 0 .. 5, network : {258}]
  \cup [type : RoutingTables,
        ports : {<<>>, <<[network |-> 258, port_id |-> 1, port_info |-> Octets(2)],
                         [network |-> 9, port_id |-> 255, port_info |-> <<>>]>>}]
  \cup [type : TwoParts, network : {1, 65534}, octet : {0, 1}]
  \cup [type : {"DisconnectConnectionToNetwork"}, network : {258}]
  \cup [type : {"WhatIsNetworkNumber"}]

Bvlls == [function : BvlcFunctions \ {BvlcForwarded}, data : {<<>>, Octets(5)}, originating : {NULL}]
         \cup [function : {BvlcForwarded}, data : {<<>>, Octets(5)}, originating : {Octets(6)}]

Bvll6s ==
  {m \in [function : Functions6, data : {<<>>, Octets(4)}, source_vmac : {NULL, Octets(3)},
          dest_vmac : {NULL, Octets(3)}, originating : {NULL, Octets(18)}] :
     /\ m.source_vmac # NULL <=> m.function \in HasSourceVmac
     /\ m.dest_vmac # NULL <=> m.function \in HasDestVmac
     /\ m.originating # NULL <=> m.function \in HasOriginating}

Options == [type : {1, 31}, must_understand : BOOLEAN, data : {<<>>, Octets(2)}]

ScMessages ==
  [function : {0, 1, 12}, message_id : {0, 65535}, originating : {NULL, Octets(6)},
   destination : {NULL, <<255, 255, 255, 255, 255, 255>>},
   dest_options : {<<>>} \cup {<<o>> : o \in Options},
   data_options : {<<>>} \cup {<<o, p>> : o, p \in Options}, payload : {<<>>, Octets(3)}]

Payloads ==
  [kind : {"result"}, for_function : {6, 10}, result_code : {NAK}, marker : {0, 65},
   error_class : {7}, error_code : {266}, details : {<<>>, Octets(3)}]
  \cup [kind : {"result"}, for_function : {6, 10}, result_code : {0}, marker : {0},
        error_class : {0}, error_code : {0}, details : {<<>>}]
  \cup [kind : {"connect"}, vmac : {Octets(6)}, uuid : {Octets(16)}, max_bvlc : {0, 65535},
        max_npdu : {1497}]
  \cup [kind : {"advertisement"}, status : 0 .. 2, accept_direct : BOOLEAN, max_bvlc : {1600},
        max_npdu : {61327}]
  \cup [kind : {"proprietary"}, vendor_id : {999}, function : {0, 255}, data : {<<>>, Octets(3)}]

Ethernets == [npdu : {<<>>, Octets(5), Octets(43), Octets(44)}, src : {Octets(6)}]

(* A local address without an IP address, or without any, is among the     *)
(* awkward values: its text cannot be parsed.                              *)
Addresses ==
  {a \in [network : {NULL, 1, GlobalNetwork},
          mac : {<<>>, Octets(1), Octets(3), Octets(6), Octets(18)}] :
     /\ is_global_broadcast(a) => a.mac = <<>>
     /\ a.network # NULL \/ Len(a.mac) \in {6, 18} \/ Awkward}

(* Lengths and tag numbers at the boundaries of their short forms          *)
Tags == [number : {0, 14, 15, 254}, cls : {APPLICATION, CONTEXT},
         length : {0, 4, 5, 253, 254, 255, 65535, 65536, MaxLength}, kind : {"primitive"}]
        \cup [number : {0, 14, 15, 254}, cls : {CONTEXT}, length : {0}, kind : {"opening", "closing"}]

LayerFrames ==
  [apdu |-> Apdus, npdu |-> Npdus, message |-> NetworkMessages, bvll |-> Bvlls,
   bvll6 |-> Bvll6s, sc |-> ScMessages, payload |-> Payloads, ethernet |-> Ethernets,
   address |-> Addresses, tag |-> Tags]

FrameCases == UNION {[cls : {"frame"}, layer : {l}, v : LayerFrames[l]] : l \in DOMAIN LayerFrames}

AllSamples == {c \in Cases : Mishandled(c) => Awkward} \cup FrameCases

encode_layer(layer, v) ==
  CASE layer = "apdu" -> encode_apdu(v)
    [] layer = "npdu" -> encode_npdu(v)
    [] layer = "message" -> encode_network_message(v)
    [] layer = "bvll" -> encode_bvll(v)
    [] layer = "bvll6" -> encode_bvll6(v)
    [] layer = "sc" -> sc_encode(v)
    [] layer = "payload" -> encode_payload(v)
    [] layer = "ethernet" -> encode_frame(<<255, 255, 255, 255, 255, 255>>, v.src, v.npdu)
    [] layer = "address" -> address_to_str(v)
    [] layer = "tag" -> CASE v.kind = "opening" -> encode_opening_tag(v.number)
                          [] v.kind = "closing" -> encode_closing_tag(v.number)
                          [] v.kind = "primitive" -> encode_tag(v.number, v.cls, v.length)

decode_layer(layer, v, data) ==
  CASE layer = "apdu" -> decode_apdu(data)
    [] layer = "npdu" -> decode_npdu(data)
    [] layer = "message" -> decode_network_message(v.type, data)
    [] layer = "bvll" -> decode_bvll(data)
    [] layer = "bvll6" -> decode_bvll6(data)
    [] layer = "sc" -> sc_decode(data)
    [] layer = "payload" -> decode_payload(v.kind, data)
    [] layer = "ethernet" -> decode_frame(data)
    [] layer = "address" -> parse_address(data)
    [] layer = "tag" -> LET t == decode_tag(data, 0)
                        IN IF t.ok /\ t.off = Len(data)
                           THEN Ok([f \in DOMAIN v |-> t[f]], 0) ELSE Error

-----------------------------------------------------------------------------
VARIABLES
  case,    \* the class and the sample of it
  wire,    \* what encode made of it
  got,     \* what decode made of that
  saved,   \* what to_dict made of it
  loaded   \* and from_dict of that

vars == <<case, wire, got, saved, loaded>>

T == Known[case.cls]
Value == Normal(T, ValueOf(T, case.shade, case.omitted, case.deep))

Init ==
  /\ case \in Samples
  /\ wire = NULL /\ got = NULL /\ saved = NULL /\ loaded = NULL

Encode ==
  /\ wire = NULL /\ case.cls # "frame"
  /\ wire' = encode(T, ValueOf(T, case.shade, case.omitted, case.deep))
  /\ UNCHANGED <<case, got, saved, loaded>>

Decode ==
  /\ wire # NULL /\ got = NULL /\ case.cls \notin DOMAIN Written \cup {"frame"}
  /\ got' = decode(T, wire)
  /\ UNCHANGED <<case, wire, saved, loaded>>

EncodeFrame ==
  /\ wire = NULL /\ case.cls = "frame"
  /\ wire' = encode_layer(case.layer, case.v)
  /\ UNCHANGED <<case, got, saved, loaded>>

DecodeFrame ==
  /\ wire # NULL /\ got = NULL /\ case.cls = "frame"
  /\ got' = decode_layer(case.layer, case.v, wire)
  /\ UNCHANGED <<case, wire, saved, loaded>>

SaveAddress ==
  /\ saved = NULL /\ case.cls = "frame" /\ case.layer = "address"
  /\ saved' = address_to_dict(case.v)
  /\ loaded' = address_from_dict(saved')
  /\ UNCHANGED <<case, wire, got>>

Save ==
  /\ saved = NULL /\ case.cls \in Saved
  /\ saved' = to_dict(T, Value)
  /\ UNCHANGED <<case, wire, got, loaded>>

Load ==
  /\ saved # NULL /\ loaded = NULL
  /\ loaded' = from_dict(T, saved)
  /\ UNCHANGED <<case, wire, got, saved>>

Next == Encode \/ Decode \/ EncodeFrame \/ DecodeFrame \/ SaveAddress \/ Save \/ Load

Spec == Init /\ [][Next]_vars

-----------------------------------------------------------------------------
(* A value survives encode and decode, whatever of its optional fields is  *)
(* there and whatever octets it carries.                                   *)
RoundTrip == got # NULL /\ case.cls # "frame" => got.ok /\ got.v = Value

(* A value survives to_dict and from_dict: nothing of it is lost when a    *)
(* configuration is saved and loaded.                                      *)
DictRoundTrip ==
  loaded # NULL =>
    IF case.cls = "frame" THEN loaded = case.v ELSE loaded.ok /\ loaded.v = Value

(* encode_property_value has encoders of its own for the constructed       *)
(* types: a property that is read goes out as the type's encode method     *)
(* would send it.                                                          *)
CopiesAgree ==
  wire # NULL /\ case.cls \in DOMAIN ConstructedEncoders =>
    wire = encode([T EXCEPT !.enc = ConstructedEncoders[case.cls]],
                  ValueOf(T, case.shade, case.omitted, case.deep))

(* What is encoded without tags cannot be passed over by its tags: times   *)
(* that are dates and times, alone or as parameters of a change of timer.  *)
TagsMissing ==
  {"change-of-timer", "BACnetTimeStamp"}

(* Whoever does not know a value passes over it: between an opening and a  *)
(* closing tag, the octets of every encoding are found again.              *)
Framed ==
  wire # NULL /\ case.cls \notin TagsMissing \cup {"frame"} =>
    \A n \in {3, 15, 254} :
      LET data == encode_opening_tag(n) \o wire \o encode_closing_tag(n)
          start == Len(encode_opening_tag(n))
      IN extract_context_value(data, start, n) = Ok(wire, Len(data))

(* A list of application-tagged values is read as the values, each with    *)
(* its type, that were put in; the value of a Boolean is in its tag.       *)
ValuesInOrder ==
  wire # NULL /\ case.cls = "ApplicationValues" =>
    decode_all_application_values(wire) =
      Ok([i \in DOMAIN ApplicationTypes |->
            <<ApplicationTypes[i], ValueOf(T, case.shade, {}, FALSE)[<<i>>]>>], 0)

(* A frame of any layer is read as it was written, whatever of its header  *)
(* is there; so are tags at the boundaries of their forms, and addresses   *)
(* as text.                                                                *)
FrameRoundTrip == got # NULL /\ case.cls = "frame" => got.ok /\ got.v = case.v

(* A datagram that was cut short is refused and not taken for a shorter    *)
(* one.                                                                    *)
CutShortRefused ==
  got # NULL /\ case.cls = "frame" /\ case.layer \in {"bvll", "bvll6"} =>
    \A n \in 0 .. Len(wire) - 1 : ~ decode_layer(case.layer, case.v, SubSeq(wire, 1, n)).ok

(* The encoders that avoid building a message - the router's for the last  *)
(* hop, the BACnet/SC transport's for an NPDU - write the octets that the  *)
(* general ones write.                                                     *)
FastPathsAgree ==
  got # NULL /\ case.cls = "frame" =>
    /\ case.layer = "npdu" =>
         \A s \in Stations :
           encode_npdu_local_delivery(case.v, s.network, s.mac) =
             encode_npdu([case.v EXCEPT !.destination = NULL, !.source = s])
    /\ case.layer = "sc" /\ case.v.function = 1 /\ case.v.originating # NULL
       /\ case.v.dest_options = <<>> /\ case.v.data_options = <<>> =>
         wire = encode_encapsulated_npdu(case.v.message_id, case.v.originating,
                                         case.v.destination, case.v.payload)

(* A value survives the way over the wire and through a dictionary, with   *)
(* any of the encoders that there are for it.                              *)
ValuesSurvive == RoundTrip /\ DictRoundTrip /\ CopiesAgree

(* Values are found again among others, by whoever knows them and whoever  *)
(* does not.                                                               *)
ValuesStandApart == Framed /\ ValuesInOrder

(* Frames survive the way over the wire, whichever encoder writes them, or *)
(* are refused.                                                            *)
FramesSurvive == FrameRoundTrip /\ CutShortRefused /\ FastPathsAgree
=============================================================================
