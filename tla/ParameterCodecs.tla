-------------------------- MODULE ParameterCodecs --------------------------
(***************************************************************************)
(* The parameters of event notifications (types/notification_params.py)    *)
(* and of fault algorithms (types/fault_params.py): choices of structures, *)
(* each between an opening and a closing tag of its own number.            *)
(***************************************************************************)
EXTENDS TypeCodecs

(* A field that is encoded under tag n and read from whatever tag is next: *)
(* _decode_ctx_unsigned and its siblings                                   *)
F(f, n, t) == <<Put(f, n, t), Get(f, t)>>
RawF(f, n) == <<PutRaw(f, n), GetRaw(f, n)>>
SubF(f, n, T) == <<PutSub(f, n, T), GetSub(f, n, T)>>
ListF(f, n, t) == <<PutList(f, n, BoxedApp(t)), GetList(f, n, BoxedApp(t))>>
Struct(fs) == Codec([i \in DOMAIN fs |-> fs[i][1]], [i \in DOMAIN fs |-> fs[i][2]])

Flags(n) == F("status_flags", n, "flags")

-----------------------------------------------------------------------------
(* Notification parameters                                                 *)

ChangeOfBitstring == Struct(<<F("referenced_bitstring", 0, "bits"), Flags(1)>>)

ChangeOfState == Struct(<<RawF("new_state", 0), Flags(1)>>)

NewValueChoices == <<Alt("changed-bits", 0, Boxed(0, "bits")),
                     Alt("changed-value", 1, Boxed(1, "real"))>>

NewValue == Codec(<<PutAlt("value", Untagged(NewValueChoices))>>,
                  <<GetTagged("value", NewValueChoices)>>)

ChangeOfValue == Struct(<<SubF("new_value", 0, NewValue), Flags(1)>>)

CommandFailure == Struct(<<RawF("command_value", 0), Flags(1), RawF("feedback_value", 2)>>)

FloatingLimit ==
  Struct(<<F("reference_value", 0, "real"), Flags(1), F("setpoint_value", 2, "real"),
           F("error_limit", 3, "real")>>)

OutOfRange ==
  Struct(<<F("exceeding_value", 0, "real"), Flags(1), F("deadband", 2, "real"),
           F("exceeded_limit", 3, "real")>>)

ChangeOfLifeSafety ==
  Struct(<<F("new_state", 0, "enum"), F("new_mode", 1, "enum"), Flags(2),
           F("operation_expected", 3, "enum")>>)

Extended ==
  Struct(<<F("vendor_id", 0, "uns"), F("extended_event_type", 1, "uns"), RawF("parameters", 2)>>)

BufferReady ==
  Struct(<<RawF("buffer_property", 0), F("previous_notification", 1, "uns"),
           F("current_notification", 2, "uns")>>)

UnsignedRange ==
  Struct(<<F("exceeding_value", 0, "uns"), Flags(1), F("exceeded_limit", 2, "uns")>>)

AccessEvent ==
  Struct(<<F("access_event", 0, "enum"), Flags(1), F("access_event_tag", 2, "uns"),
           RawF("access_event_time", 3), RawF("access_credential", 4),
           <<Opt(PutRaw("authentication_factor", 5)), GetRawOpt("authentication_factor", 5)>> >>)

DoubleOutOfRange ==
  Struct(<<F("exceeding_value", 0, "dbl"), Flags(1), F("deadband", 2, "dbl"),
           F("exceeded_limit", 3, "dbl")>>)

SignedOutOfRange ==
  Struct(<<F("exceeding_value", 0, "sgn"), Flags(1), F("deadband", 2, "uns"),
           F("exceeded_limit", 3, "sgn")>>)

UnsignedOutOfRange ==
  Struct(<<F("exceeding_value", 0, "uns"), Flags(1), F("deadband", 2, "uns"),
           F("exceeded_limit", 3, "uns")>>)

ChangeOfCharacterstring ==
  Struct(<<F("changed_value", 0, "str"), Flags(1), F("alarm_value", 2, "str")>>)

ChangeOfStatusFlags == Struct(<<RawF("present_value", 0), F("referenced_flags", 1, "flags")>>)

ChangeOfReliability ==
  Struct(<<F("reliability", 0, "enum"), Flags(1), RawF("property_values", 2)>>)

NoneParams == Struct(<<>>)

ChangeOfDiscreteValue == Struct(<<RawF("new_value", 0), Flags(1)>>)

ChangeOfTimer ==
  Struct(<<F("new_state", 0, "enum"), Flags(1), SubF("update_time", 2, UntaggedDateTime),
           F("last_state_change", 3, "enum"),
           <<Opt(Put("initial_timeout", 4, "uns")), GetOpt("initial_timeout", 4, "uns")>>,
           <<Opt(PutSub("expiration_time", 5, UntaggedDateTime)),
             GetSubOpt("expiration_time", 5, UntaggedDateTime)>> >>)

(* Any other number, 6, 7 or 12: the octets up to its closing tag          *)
RawNotificationParameters == Codec(<<PutRaw("raw_data", Bare)>>, <<GetInner("raw_data")>>)

(* _DECODERS and _FROM_DICT: tag numbers and "type" names                  *)
NotificationChoices ==
  <<Alt("change-of-bitstring", 0, ChangeOfBitstring), Alt("change-of-state", 1, ChangeOfState),
    Alt("change-of-value", 2, ChangeOfValue), Alt("command-failure", 3, CommandFailure),
    Alt("floating-limit", 4, FloatingLimit), Alt("out-of-range", 5, OutOfRange),
    Alt("change-of-life-safety", 8, ChangeOfLifeSafety), Alt("extended", 9, Extended),
    Alt("buffer-ready", 10, BufferReady), Alt("unsigned-range", 11, UnsignedRange),
    Alt("access-event", 13, AccessEvent), Alt("double-out-of-range", 14, DoubleOutOfRange),
    Alt("signed-out-of-range", 15, SignedOutOfRange),
    Alt("unsigned-out-of-range", 16, UnsignedOutOfRange),
    Alt("change-of-characterstring", 17, ChangeOfCharacterstring),
    Alt("change-of-status-flags", 18, ChangeOfStatusFlags),
    Alt("change-of-reliability", 19, ChangeOfReliability), Alt("none", 20, NoneParams),
    Alt("change-of-discrete-value", 21, ChangeOfDiscreteValue),
    Alt("change-of-timer", 22, ChangeOfTimer), Alt("raw", 7, RawNotificationParameters)>>

decode_notification_parameters == GetAlt("parameters", NotificationChoices)

NotificationParameters ==
  Codec(<<PutAlt("parameters", NotificationChoices)>>, <<decode_notification_parameters>>)

-----------------------------------------------------------------------------
(* Fault parameters                                                        *)

FaultNone == Struct(<< <<PutApp("none", "null"), Get("none", "null")>> >>)

FaultCharacterString == Struct(<<ListF("fault_values", 0, "str")>>)

FaultExtended ==
  Struct(<<F("vendor_id", 0, "uns"), F("extended_fault_type", 1, "uns"), RawF("parameters", 2)>>)

FaultLifeSafety == Struct(<<ListF("fault_values", 0, "enum"), ListF("mode_values", 1, "enum")>>)

FaultState == Struct(<<RawF("fault_values", 0)>>)

FaultStatusFlags == Struct(<<SubF("status_flags_ref", 0, BACnetDeviceObjectPropertyReference)>>)

(* _encode_range_value and _decode_range_value                             *)
RangeChoices ==
  <<Alt("real", 0, Boxed(0, "real")), Alt("unsigned", 1, Boxed(1, "uns")),
    Alt("double", 2, Boxed(2, "dbl")), Alt("integer", 3, Boxed(3, "sgn"))>>

RangeValue ==
  Codec(<<PutAlt("value", Untagged(RangeChoices))>>, <<GetTagged("value", RangeChoices)>>)

FaultOutOfRange ==
  Struct(<<SubF("min_normal_value", 0, RangeValue), SubF("max_normal_value", 1, RangeValue)>>)

FaultListed == Struct(<<SubF("fault_list_ref", 0, BACnetDeviceObjectPropertyReference)>>)

FaultChoices ==
  <<Alt("fault-none", 0, FaultNone), Alt("fault-characterstring", 1, FaultCharacterString),
    Alt("fault-extended", 2, FaultExtended), Alt("fault-life-safety", 3, FaultLifeSafety),
    Alt("fault-state", 4, FaultState), Alt("fault-status-flags", 5, FaultStatusFlags),
    Alt("fault-out-of-range", 6, FaultOutOfRange), Alt("fault-listed", 7, FaultListed)>>

decode_fault_parameter == GetAlt("parameters", FaultChoices)

FaultParameter == Codec(<<PutAlt("parameters", FaultChoices)>>, <<decode_fault_parameter>>)
=============================================================================
