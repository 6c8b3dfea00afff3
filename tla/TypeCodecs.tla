----------------------------- MODULE TypeCodecs -----------------------------
(***************************************************************************)
(* The constructed types (types/constructed.py) and those of the audit     *)
(* services (types/audit_types.py).  Types the code only encodes have      *)
(* nothing to decode.                                                      *)
(***************************************************************************)
EXTENDS Codec

BACnetDateTime == Codec(<<PutApp("date", "date"), PutApp("time", "time")>>, <<>>)

(* The date and time of a BACnetTimeStamp have no tags.                    *)
UntaggedDateTime ==
  Codec(<<PutOctets("date", "date"), PutOctets("time", "time")>>,
        <<GetOctets("date", "date", 4), GetOctets("time", "time", 4)>>)

TimeStampChoices ==
  <<Alt("time", 0, Boxed(0, "time")),
    Alt("sequence_number", 1, Boxed(1, "uns")),
    Alt("date_time", 2, Codec(<<PutSub("v", 2, UntaggedDateTime)>>,
                              <<GetSub("v", 2, UntaggedDateTime)>>))>>

(* The alternatives of a choice that carry their own tags                  *)
Untagged(alts) == [i \in DOMAIN alts |-> [alts[i] EXCEPT !.n = Bare]]

BACnetTimeStamp ==
  Codec(<<PutAlt("value", Untagged(TimeStampChoices))>>, <<GetTagged("value", TimeStampChoices)>>)

BACnetDateRange == Codec(<<PutApp("start_date", "date"), PutApp("end_date", "date")>>, <<>>)

BACnetCalendarEntry ==
  Codec(<<PutAlt("value", Untagged(<<
            Alt("date", 0, Boxed(0, "date")),
            Alt("date_range", 1, Codec(<<PutSub("v", 1, BACnetDateRange)>>, <<>>)),
            Alt("week_n_day", 2, Boxed(2, "week"))>>))>>,
        <<>>)

(* encode_property_value of a primitive                                    *)
PropertyValue ==
  Codec(<<PutAlt("v", <<Alt("null", Bare, BoxedApp("null")),
                        Alt("boolean", Bare, BoxedApp("bool")),
                        Alt("unsigned", Bare, BoxedApp("uns")),
                        Alt("real", Bare, BoxedApp("real")),
                        Alt("string", Bare, BoxedApp("str"))>>)>>,
        <<>>)

BACnetTimeValue == Codec(<<PutApp("time", "time"), PutSub("value", Bare, PropertyValue)>>, <<>>)

BACnetSpecialEvent ==
  Codec(<<PutAlt("period", <<Alt("calendar_entry", 0, BACnetCalendarEntry),
                             Alt("calendar_reference", Bare, Boxed(1, "oid"))>>),
          PutList("list_of_time_values", 2, BACnetTimeValue),
          Put("event_priority", 3, "uns")>>,
        <<>>)

BACnetDeviceObjectPropertyReference ==
  Codec(<<Put("object_identifier", 0, "oid"), Put("property_identifier", 1, "enum"),
          Opt(Put("property_array_index", 2, "uns")), Opt(Put("device_identifier", 3, "oid"))>>,
        <<Get("object_identifier", "oid"), Get("property_identifier", "uns"),
          GetOpt("property_array_index", 2, "uns"), GetOpt("device_identifier", 3, "oid")>>)

BACnetObjectPropertyReference ==
  Codec(<<Put("object_identifier", 0, "oid"), Put("property_identifier", 1, "enum"),
          Opt(Put("property_array_index", 2, "uns"))>>, <<>>)

BACnetAddress == Codec(<<Put("network_number", 0, "uns"), Put("mac_address", 1, "oct")>>, <<>>)

BACnetRecipient ==
  ExactlyOne(Codec(<<Opt(Put("device", 0, "oid")),
                     Else(PutSub("address", 1, BACnetAddress), {"device"})>>, <<>>),
             {"device", "address"})

BACnetDestination ==
  Codec(<<PutApp("valid_days", "bits"), PutApp("from_time", "time"), PutApp("to_time", "time"),
          PutSub("recipient", Bare, BACnetRecipient), PutApp("process_identifier", "uns"),
          PutApp("issue_confirmed_notifications", "bool"), PutApp("transitions", "bits")>>,
        <<>>)

BACnetLogRecord ==
  Codec(<<PutSub("timestamp", Bare, BACnetDateTime), PutSub("log_datum", Bare, PropertyValue),
          Opt(Put("status_flags", 1, "flags"))>>, <<>>)

BACnetRecipientProcess ==
  Codec(<<PutSub("recipient", 0, BACnetRecipient), Put("process_identifier", 1, "uns")>>, <<>>)

(* Every slot holds a value or Null; of the 16 slots three are enough here. *)
BACnetPriorityArray == Codec(<<PutThree("slots", Bare, PropertyValue)>>, <<>>)

BACnetDeviceObjectReference ==
  Codec(<<Opt(Put("device_identifier", 0, "oid")), Put("object_identifier", 1, "oid")>>,
        <<GetOpt("device_identifier", 0, "oid"), Get("object_identifier", "oid")>>)

ValueSourceChoices ==
  <<Alt("none", 0, Codec(<<PutSub("v", 0, Codec(<<>>, <<>>))>>,
                         <<GetSub("v", 0, Codec(<<>>, <<>>))>>)),
    Alt("object", 1, Codec(<<PutSub("v", 1, BACnetDeviceObjectReference)>>,
                           <<GetSub("v", 1, BACnetDeviceObjectReference)>>)),
    Alt("address", 2, Boxed(2, "oct"))>>

BACnetValueSource ==
  Codec(<<PutAlt("value", Untagged(ValueSourceChoices))>>,
        <<GetTagged("value", ValueSourceChoices)>>)

(* Of the next three, encode_property_value has the only encoder.          *)
BACnetScale ==
  ExactlyOne(Codec(<<Opt(Put("float_scale", 0, "real")),
                     Else(Put("integer_scale", 1, "sgn"), {"float_scale"})>>, <<>>),
             {"float_scale", "integer_scale"})

BACnetPrescale == Codec(<<Put("multiplier", 0, "uns"), Put("modulo_divide", 1, "uns")>>, <<>>)

MonitoredObject == Codec(<<Put("object_identifier", 0, "oid")>>, <<>>)

BACnetCOVSubscription ==
  Codec(<<PutSub("recipient", 0, BACnetRecipientProcess),
          PutSub("monitored_object", 1, MonitoredObject),
          Put("issue_confirmed_notifications", 2, "bool"), Put("time_remaining", 3, "uns"),
          Opt(Put("cov_increment", 4, "real"))>>, <<>>)

-----------------------------------------------------------------------------
(* The encoders of encode_property_value: for most types a second copy of  *)
(* what their encode method does, under the same names                     *)

encode_calendar_entry ==
  PutAlt("value", <<Alt("date", Bare, Boxed(0, "date")),
                    Alt("date_range", 1,
                        Codec(<<PutSub("v", Bare,
                                       Codec(<<PutApp("start_date", "date"),
                                               PutApp("end_date", "date")>>, <<>>))>>, <<>>)),
                    Alt("week_n_day", Bare, Boxed(2, "week"))>>)

encode_special_event ==
  <<PutAlt("period", <<Alt("calendar_entry", 0, Codec(<<encode_calendar_entry>>, <<>>)),
                       Alt("calendar_reference", Bare, Boxed(1, "oid"))>>),
    PutList("list_of_time_values", 2,
            Codec(<<PutApp("time", "time"), PutSub("value", Bare, PropertyValue)>>, <<>>)),
    Put("event_priority", 3, "uns")>>

encode_recipient ==
  <<Opt(Put("device", 0, "oid")),
    Else(PutSub("address", 1, Codec(<<Put("network_number", 0, "uns"),
                                      Put("mac_address", 1, "oct")>>, <<>>)), {"device"})>>

ConstructedEncoders ==
  [BACnetDateTime |-> <<PutApp("date", "date"), PutApp("time", "time")>>,
   BACnetDateRange |-> <<PutApp("start_date", "date"), PutApp("end_date", "date")>>,
   BACnetCalendarEntry |-> <<encode_calendar_entry>>,
   BACnetTimeValue |-> <<PutApp("time", "time"), PutSub("value", Bare, PropertyValue)>>,
   BACnetSpecialEvent |-> encode_special_event,
   BACnetDeviceObjectPropertyReference |->
     <<Put("object_identifier", 0, "oid"), Put("property_identifier", 1, "enum"),
       Opt(Put("property_array_index", 2, "uns")), Opt(Put("device_identifier", 3, "oid"))>>,
   BACnetObjectPropertyReference |->
     <<Put("object_identifier", 0, "oid"), Put("property_identifier", 1, "enum"),
       Opt(Put("property_array_index", 2, "uns"))>>,
   BACnetAddress |-> <<Put("network_number", 0, "uns"), Put("mac_address", 1, "oct")>>,
   BACnetRecipient |-> encode_recipient,
   BACnetRecipientProcess |->
     <<PutSub("recipient", 0, Codec(encode_recipient, <<>>)), Put("process_identifier", 1, "uns")>>,
   BACnetDestination |->
     <<PutApp("valid_days", "bits"), PutApp("from_time", "time"), PutApp("to_time", "time"),
       PutSub("recipient", Bare, Codec(encode_recipient, <<>>)),
       PutApp("process_identifier", "uns"), PutApp("issue_confirmed_notifications", "bool"),
       PutApp("transitions", "bits")>>,
   BACnetLogRecord |->
     <<PutSub("timestamp", Bare, Codec(<<PutApp("date", "date"), PutApp("time", "time")>>, <<>>)),
       PutSub("log_datum", Bare, PropertyValue), Opt(Put("status_flags", 1, "flags"))>>,
   BACnetPriorityArray |-> <<PutThree("slots", Bare, PropertyValue)>>]

-----------------------------------------------------------------------------
(* Audit                                                                   *)

(* What is between tags 12 and between tags 16                             *)
AuditTargetProperty ==
  Codec(<<Put("target_property", 0, "uns"), Opt(Put("target_array_index", 1, "uns"))>>,
        <<Get("target_property", "uns"), GetOpt("target_array_index", 1, "uns")>>)

AuditResult ==
  Codec(<<Put("result_error_class", 0, "enum"), Put("result_error_code", 1, "enum")>>,
        <<Get("result_error_class", "uns"), Get("result_error_code", "uns")>>)

AuditNotificationFields ==
  <<Opt(PutSub("source_device", 2, Boxed(1, "oid"))), Opt(Put("source_object", 3, "oid")),
    Put("operation", 4, "enum"),
    Opt(Put("source_comment", 5, "str")), Opt(Put("target_comment", 6, "str")),
    Opt(Put("invoke_id", 7, "uns")), Opt(Put("source_user_id", 8, "uns")),
    Opt(Put("source_user_role", 9, "uns")),
    Opt(PutSub("target_device", 10, Boxed(1, "oid"))), Opt(Put("target_object", 11, "oid")),
    Opt(PutSub("target_property", 12, AuditTargetProperty)),
    Opt(Put("target_priority", 13, "uns")),
    Opt(PutRaw("target_value", 14)), Opt(PutRaw("current_value", 15)),
    Opt(PutSub("result", 16, AuditResult))>>

(* The tags may come in any order.                                         *)
BACnetAuditNotification ==
  LoopCodec(AuditNotificationFields, <<>>,
    <<GetSubOpt("source_device", 2, Boxed(1, "oid")), GetOpt("source_object", 3, "oid"),
      GetOpt("operation", 4, "uns"),
      GetOpt("source_comment", 5, "str"), GetOpt("target_comment", 6, "str"),
      GetOpt("invoke_id", 7, "uns"), GetOpt("source_user_id", 8, "uns"),
      GetOpt("source_user_role", 9, "uns"),
      GetSubOpt("target_device", 10, Boxed(1, "oid")), GetOpt("target_object", 11, "oid"),
      GetSubOpt("target_property", 12, AuditTargetProperty),
      GetOpt("target_priority", 13, "uns"),
      ScanRawOpt("target_value", 14), ScanRawOpt("current_value", 15),
      GetSubOpt("result", 16, AuditResult)>>)

BACnetAuditLogRecord ==
  Codec(<<Put("sequence_number", 0, "uns"), PutSub("notification", 1, BACnetAuditNotification)>>,
        <<Get("sequence_number", "uns"), ScanSub("notification", BACnetAuditNotification)>>)

AuditQueryByTarget ==
  LoopCodec(<<Put("target_device_identifier", 0, "oid"),
              Opt(Put("target_device_address", 1, "oct")),
              Opt(Put("target_object_identifier", 2, "oid")),
              Opt(Put("target_property_identifier", 3, "uns")),
              Opt(Put("target_array_index", 4, "uns")),
              Opt(Put("target_priority", 5, "uns")), Opt(Put("operations", 6, "uns")),
              Put("result_filter", 7, "enum")>>,
            <<Get("target_device_identifier", "oid")>>,
            <<GetOpt("target_device_address", 1, "oct"),
              GetOpt("target_object_identifier", 2, "oid"),
              GetOpt("target_property_identifier", 3, "uns"),
              GetOpt("target_array_index", 4, "uns"),
              GetOpt("target_priority", 5, "uns"), GetOpt("operations", 6, "uns"),
              GetOpt("result_filter", 7, "uns")>>)

AuditQueryBySource ==
  LoopCodec(<<Put("source_device_identifier", 0, "oid"),
              Opt(Put("source_device_address", 1, "oct")),
              Opt(Put("source_object_identifier", 2, "oid")),
              Opt(Put("operations", 3, "uns")), Put("result_filter", 4, "enum")>>,
            <<Get("source_device_identifier", "oid")>>,
            <<GetOpt("source_device_address", 1, "oct"),
              GetOpt("source_object_identifier", 2, "oid"),
              GetOpt("operations", 3, "uns"), GetOpt("result_filter", 4, "uns")>>)
=============================================================================
