--------------------------- MODULE ServiceCodecs ---------------------------
(***************************************************************************)
(* The requests and acknowledgments of the services (services/*.py): each  *)
(* definition is what encode of its class appends and decode reads.        *)
(***************************************************************************)
EXTENDS ParameterCodecs

OptF(f, n, t) == <<Opt(Put(f, n, t)), GetOpt(f, n, t)>>
AppF(f, t) == <<PutApp(f, t), Get(f, t)>>
AppBool(f) == <<PutApp(f, "bool"), GetBool(f)>>
OptRawF(f, n) == <<Opt(PutRaw(f, n)), GetRawOpt(f, n)>>
StructList(f, n, T) == <<PutList(f, n, T), GetList(f, n, T)>>
(* The elements up to the end of the data                                  *)
AllOf(f, T) == <<PutList(f, Bare, T), GetAll(f, T)>>
ThreeOf(f, n, T) == <<PutThree(f, n, T), GetThree(f, n, T)>>
ChoiceOf(f, alts) == <<PutAlt(f, alts), GetAlt(f, alts)>>

-----------------------------------------------------------------------------
(* Properties: common.py, read_property.py, write_property.py,             *)
(* read_property_multiple.py, write_property_multiple.py, list_element.py  *)

BACnetPropertyValue ==
  Struct(<<F("property_identifier", 0, "uns"), OptF("property_array_index", 1, "uns"),
           RawF("value", 2), OptF("priority", 3, "pri")>>)

ReadPropertyRequest ==
  Struct(<<F("object_identifier", 0, "oid"), F("property_identifier", 1, "uns"),
           OptF("property_array_index", 2, "uns")>>)

ReadPropertyACK ==
  Struct(<<F("object_identifier", 0, "oid"), F("property_identifier", 1, "uns"),
           OptF("property_array_index", 2, "uns"), RawF("property_value", 3)>>)

WritePropertyRequest ==
  Struct(<<F("object_identifier", 0, "oid"), F("property_identifier", 1, "uns"),
           OptF("property_array_index", 2, "uns"), RawF("property_value", 3),
           OptF("priority", 4, "pri")>>)

PropertyReference ==
  Struct(<<F("property_identifier", 0, "uns"), OptF("property_array_index", 1, "uns")>>)

ReadAccessSpecification ==
  Struct(<<F("object_identifier", 0, "oid"),
           StructList("list_of_property_references", 1, PropertyReference)>>)

ReadPropertyMultipleRequest ==
  Struct(<<AllOf("list_of_read_access_specs", ReadAccessSpecification)>>)

PropertyAccessError == Struct(<<AppF("error_class", "enum"), AppF("error_code", "enum")>>)

(* A value or an error; the decoder looks for either.                      *)
ReadResultElement ==
  ExactlyOne(
    Struct(<<F("property_identifier", 2, "uns"), OptF("property_array_index", 3, "uns"),
             OptRawF("property_value", 4),
             <<Else(PutSub("property_access_error", 5, PropertyAccessError), {"property_value"}),
               GetSubOpt("property_access_error", 5, PropertyAccessError)>> >>),
    {"property_value", "property_access_error"})

ReadAccessResult ==
  Struct(<<F("object_identifier", 0, "oid"), StructList("list_of_results", 1, ReadResultElement)>>)

ReadPropertyMultipleACK == Struct(<<AllOf("list_of_read_access_results", ReadAccessResult)>>)

WriteAccessSpecification ==
  Struct(<<F("object_identifier", 0, "oid"),
           StructList("list_of_properties", 1, BACnetPropertyValue)>>)

WritePropertyMultipleRequest ==
  Struct(<<AllOf("list_of_write_access_specs", WriteAccessSpecification)>>)

(* AddListElement and RemoveListElement                                    *)
ListElementRequest ==
  Struct(<<F("object_identifier", 0, "oid"), F("property_identifier", 1, "uns"),
           OptF("property_array_index", 2, "uns"), RawF("list_of_elements", 3)>>)

-----------------------------------------------------------------------------
(* Objects, devices and discovery                                          *)

ObjectSpecifier ==
  ExactlyOne(Codec(<<Opt(Put("object_identifier", 1, "oid")),
                     Else(Put("object_type", 0, "enum"), {"object_identifier"})>>,
                   <<GetOpt("object_type", 0, "uns"), GetOpt("object_identifier", 1, "oid")>>),
             {"object_identifier", "object_type"})

(* An empty list of initial values is not sent.                            *)
CreateObjectRequest ==
  Struct(<<SubF("object_specifier", 0, ObjectSpecifier),
           <<OptNonEmpty(PutList("list_of_initial_values", 1, BACnetPropertyValue)),
             GetListOpt("list_of_initial_values", 1, BACnetPropertyValue)>> >>)

DeleteObjectRequest == Struct(<<AppF("object_identifier", "oid")>>)

(* One limit alone is not sent.                                            *)
Limits == {"low_limit", "high_limit"}
LimitsF == << <<If(Put("low_limit", 0, "uns"), Limits), GetOpt("low_limit", 0, "uns")>>,
              <<If(Put("high_limit", 1, "uns"), Limits), GetOpt("high_limit", 1, "uns")>> >>

WhoIsRequest == Struct(LimitsF)

IAmRequest ==
  Struct(<<AppF("object_identifier", "oid"), AppF("max_apdu_length", "uns"),
           AppF("segmentation_supported", "enum"), AppF("vendor_id", "uns")>>)

WhoHasRequest ==
  ExactlyOne(
    Struct(LimitsF \o
           <<OptF("object_identifier", 2, "oid"),
             <<Else(Put("object_name", 3, "str"), {"object_identifier"}),
               GetOpt("object_name", 3, "str")>> >>),
    {"object_identifier", "object_name"})

IHaveRequest ==
  Struct(<<AppF("device_identifier", "oid"), AppF("object_identifier", "oid"),
           AppF("object_name", "str")>>)

DeviceCommunicationControlRequest ==
  Struct(<<OptF("time_duration", 0, "u16"), F("enable_disable", 1, "enum"),
           OptF("password", 2, "pwd")>>)

ReinitializeDeviceRequest ==
  Struct(<<F("reinitialized_state", 0, "enum"), OptF("password", 1, "pwd")>>)

(* TimeSynchronization and UTCTimeSynchronization                          *)
TimeSynchronizationRequest == Struct(<<AppF("date", "date"), AppF("time", "time")>>)

WhoAmIRequest ==
  Struct(<<AppF("vendor_id", "uns"), AppF("model_name", "str"), AppF("serial_number", "str")>>)

YouAreRequest ==
  Struct(<<F("device_identifier", 0, "oid"), F("device_mac_address", 1, "oct"),
           OptF("device_network_number", 2, "uns")>>)

-----------------------------------------------------------------------------
(* private_transfer.py, text_message.py, write_group.py,                   *)
(* virtual_terminal.py                                                     *)

ConfirmedPrivateTransferRequest ==
  Struct(<<F("vendor_id", 0, "uns"), F("service_number", 1, "uns"),
           OptRawF("service_parameters", 2)>>)

ConfirmedPrivateTransferACK ==
  Struct(<<F("vendor_id", 0, "uns"), F("service_number", 1, "uns"), OptRawF("result_block", 2)>>)

MessageClass ==
  ExactlyOne(Struct(<<OptF("numeric", 0, "uns"),
                      <<Else(Put("character", 1, "str"), {"numeric"}),
                        GetOpt("character", 1, "str")>> >>),
             {"numeric", "character"})

ConfirmedTextMessageRequest ==
  Struct(<<F("text_message_source_device", 0, "oid"),
           <<Opt(PutSub("message_class", 1, MessageClass)),
             GetSubOpt("message_class", 1, MessageClass)>>,
           F("message_priority", 2, "enum"), F("message", 3, "str")>>)

GroupChannelValue ==
  Struct(<<F("channel", 0, "uns"), OptF("overriding_priority", 1, "uns"), RawF("value", 2)>>)

WriteGroupRequest ==
  Struct(<<F("group_number", 0, "uns"), F("write_priority", 1, "uns"),
           StructList("change_list", 2, GroupChannelValue)>>)

VTOpenRequest ==
  Struct(<<AppF("vt_class", "enum"), AppF("local_vt_session_identifier", "uns")>>)

VTOpenACK == Struct(<<AppF("remote_vt_session_identifier", "uns")>>)

VTCloseRequest == Struct(<<AllOf("list_of_remote_vt_session_identifiers", BoxedApp("uns"))>>)

VTDataRequest ==
  Struct(<<AppF("vt_session_identifier", "uns"), AppF("vt_new_data", "oct"),
           AppBool("vt_data_flag")>>)

VTDataACK ==
  Struct(<<AppBool("all_new_data_accepted"),
           <<IfNot(PutApp("accepted_octet_count", "uns"), "all_new_data_accepted"),
             GetRest("accepted_octet_count", "uns")>> >>)
=============================================================================
