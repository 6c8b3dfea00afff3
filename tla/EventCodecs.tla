---------------------------- MODULE EventCodecs ----------------------------
(***************************************************************************)
(* The services about changes, events, files, ranges and audits: cov.py,   *)
(* event_notification.py, alarm_summary.py, file_access.py, read_range.py, *)
(* audit.py under services/.                                               *)
(***************************************************************************)
EXTENDS ServiceCodecs

TimeStampF(f, n) == SubF(f, n, BACnetTimeStamp)

-----------------------------------------------------------------------------
(* cov.py                                                                  *)

SubscribeCOVRequest ==
  Struct(<<F("subscriber_process_identifier", 0, "uns"),
           F("monitored_object_identifier", 1, "oid"),
           OptF("issue_confirmed_notifications", 2, "bool"), OptF("lifetime", 3, "uns")>>)

COVNotificationRequest ==
  Struct(<<F("subscriber_process_identifier", 0, "uns"),
           F("initiating_device_identifier", 1, "oid"),
           F("monitored_object_identifier", 2, "oid"), F("time_remaining", 3, "uns"),
           StructList("list_of_values", 4, BACnetPropertyValue)>>)

BACnetPropertyReference ==
  Struct(<<F("property_identifier", 0, "uns"), OptF("property_array_index", 1, "uns")>>)

SubscribeCOVPropertyRequest ==
  Struct(<<F("subscriber_process_identifier", 0, "uns"),
           F("monitored_object_identifier", 1, "oid"),
           OptF("issue_confirmed_notifications", 2, "bool"), OptF("lifetime", 3, "uns"),
           SubF("monitored_property_identifier", 4, BACnetPropertyReference),
           OptF("cov_increment", 5, "real")>>)

COVReference ==
  Struct(<<SubF("monitored_property", 0, BACnetPropertyReference),
           OptF("cov_increment", 1, "real")>>)

COVSubscriptionSpecification ==
  Struct(<<F("monitored_object_identifier", 0, "oid"),
           StructList("list_of_cov_references", 1, COVReference)>>)

SubscribeCOVPropertyMultipleRequest ==
  Struct(<<F("subscriber_process_identifier", 0, "uns"),
           OptF("issue_confirmed_notifications", 1, "bool"), OptF("lifetime", 2, "uns"),
           OptF("max_notification_delay", 3, "uns"),
           StructList("list_of_cov_subscription_specifications", 4,
                      COVSubscriptionSpecification)>>)

(* Its own scan finds the end of the value.                                *)
COVPropertyValue ==
  Struct(<<F("property_identifier", 0, "uns"), OptF("array_index", 1, "uns"),
           <<PutRaw("value", 2), ScanRaw("value")>>,
           <<Opt(PutSub("time_of_change", 3, BACnetTimeStamp)),
             GetSubOpt("time_of_change", 3, BACnetTimeStamp)>> >>)

COVObjectNotification ==
  Struct(<<F("monitored_object_identifier", 0, "oid"),
           StructList("list_of_values", 1, COVPropertyValue)>>)

COVNotificationMultipleRequest ==
  Struct(<<F("subscriber_process_identifier", 0, "uns"),
           F("initiating_device_identifier", 1, "oid"), F("time_remaining", 2, "uns"),
           TimeStampF("timestamp", 3),
           StructList("list_of_cov_notifications", 4, COVObjectNotification)>>)

-----------------------------------------------------------------------------
(* event_notification.py, alarm_summary.py                                 *)

EventNotificationRequest ==
  Struct(<<F("process_identifier", 0, "uns"), F("initiating_device_identifier", 1, "oid"),
           F("event_object_identifier", 2, "oid"), TimeStampF("time_stamp", 3),
           F("notification_class", 4, "uns"), F("priority", 5, "uns"),
           F("event_type", 6, "enum"), OptF("message_text", 7, "str"),
           F("notify_type", 8, "enum"), OptF("ack_required", 9, "bool"),
           OptF("from_state", 10, "enum"), F("to_state", 11, "enum"),
           <<Opt(PutSub("event_values", 12, NotificationParameters)),
             GetSubOpt("event_values", 12, NotificationParameters)>> >>)

AcknowledgeAlarmRequest ==
  Struct(<<F("acknowledging_process_identifier", 0, "uns"),
           F("event_object_identifier", 1, "oid"), F("event_state_acknowledged", 2, "enum"),
           TimeStampF("time_stamp", 3), F("acknowledgment_source", 4, "str"),
           TimeStampF("time_of_acknowledgment", 5)>>)

LifeSafetyOperationRequest ==
  Struct(<<F("requesting_process_identifier", 0, "uns"), F("requesting_source", 1, "str"),
           F("request", 2, "enum"), OptF("object_identifier", 3, "oid")>>)

AlarmSummary ==
  Struct(<<AppF("object_identifier", "oid"), AppF("alarm_state", "enum"),
           AppF("acknowledged_transitions", "bits")>>)

GetAlarmSummaryACK == Struct(<<AllOf("list_of_alarm_summaries", AlarmSummary)>>)

(* Both bounds of the priority or neither; the enrollment filter [1] is    *)
(* not sent.                                                               *)
Priorities == Struct(<<AppF("priority_min", "uns"), AppF("priority_max", "uns")>>)

GetEnrollmentSummaryRequest ==
  Struct(<<F("acknowledgment_filter", 0, "enum"), OptF("event_state_filter", 2, "enum"),
           OptF("event_type_filter", 3, "enum"),
           <<Opt(PutSub("priority", 4, Priorities)), GetSubOpt("priority", 4, Priorities)>>,
           OptF("notification_class_filter", 5, "uns")>>)

EnrollmentSummary ==
  Struct(<<AppF("object_identifier", "oid"), AppF("event_type", "enum"),
           AppF("event_state", "enum"), AppF("priority", "uns"),
           AppF("notification_class", "uns")>>)

GetEnrollmentSummaryACK == Struct(<<AllOf("list_of_enrollment_summaries", EnrollmentSummary)>>)

GetEventInformationRequest ==
  Codec(<<Opt(Put("last_received_object_identifier", 0, "oid"))>>,
        <<GetRest("last_received_object_identifier", "oid")>>)

EventSummary ==
  Struct(<<F("object_identifier", 0, "oid"), F("event_state", 1, "enum"),
           F("acknowledged_transitions", 2, "bits"),
           ThreeOf("event_time_stamps", 3, BACnetTimeStamp), F("notify_type", 4, "enum"),
           F("event_enable", 5, "bits"), ThreeOf("event_priorities", 6, BoxedApp("uns"))>>)

GetEventInformationACK ==
  Struct(<<StructList("list_of_event_summaries", 0, EventSummary), F("more_events", 1, "bool")>>)

-----------------------------------------------------------------------------
(* file_access.py, read_range.py                                           *)

AtomicReadFileRequest ==
  Struct(<<AppF("file_identifier", "oid"),
           ChoiceOf("access_method",
             <<Alt("stream", 0, Struct(<<AppF("file_start_position", "sgn"),
                                         AppF("requested_octet_count", "uns")>>)),
               Alt("record", 1, Struct(<<AppF("file_start_record", "sgn"),
                                         AppF("requested_record_count", "uns")>>))>>)>>)

(* What both the read acknowledgment and the write request carry           *)
FileData ==
  ChoiceOf("access_method",
    <<Alt("stream", 0, Struct(<<AppF("file_start_position", "sgn"), AppF("file_data", "oct")>>)),
      Alt("record", 1, Struct(<<AppF("file_start_record", "sgn"),
                                <<PutCount("record_count"), Get("record_count", "uns")>>,
                                <<PutList("file_record_data", Bare, BoxedApp("oct")),
                                  GetCount("file_record_data", "record_count",
                                           BoxedApp("oct"))>> >>))>>)

AtomicReadFileACK == Struct(<<AppBool("end_of_file"), FileData>>)

AtomicWriteFileRequest == Struct(<<AppF("file_identifier", "oid"), FileData>>)

FileStart == <<Alt("stream", 0, Boxed(0, "sgn")), Alt("record", 1, Boxed(1, "sgn"))>>

AtomicWriteFileACK ==
  Codec(<<PutAlt("file_start", Untagged(FileStart))>>, <<GetTagged("file_start", FileStart)>>)

Ranges ==
  <<Alt("position", 3, Struct(<<AppF("reference_index", "uns"), AppF("count", "sgn")>>)),
    Alt("sequence_number", 6, Struct(<<AppF("reference_sequence_number", "uns"),
                                       AppF("count", "sgn")>>)),
    Alt("time", 7, Struct(<<AppF("reference_date", "date"), AppF("reference_time", "time"),
                            AppF("count", "sgn")>>))>>

ReadRangeRequest ==
  Struct(<<F("object_identifier", 0, "oid"), F("property_identifier", 1, "uns"),
           OptF("property_array_index", 2, "uns"),
           <<Opt(PutAlt("range", Ranges)), GetAltOpt("range", Ranges)>> >>)

ReadRangeACK ==
  Struct(<<F("object_identifier", 0, "oid"), F("property_identifier", 1, "uns"),
           OptF("property_array_index", 2, "uns"), F("result_flags", 3, "result"),
           F("item_count", 4, "uns"), RawF("item_data", 5),
           OptF("first_sequence_number", 6, "uns")>>)

-----------------------------------------------------------------------------
(* audit.py                                                                *)

QueryParameters == <<Alt("by_target", 1, AuditQueryByTarget),
                     Alt("by_source", 2, AuditQueryBySource)>>

AuditLogQueryRequest ==
  LoopCodec(<<Put("audit_log", 0, "oid"), PutAlt("query_parameters", QueryParameters),
              Opt(Put("start_at_sequence_number", 3, "uns")), Put("requested_count", 4, "uns")>>,
            <<Get("audit_log", "oid"), ScanAlt("query_parameters", QueryParameters)>>,
            <<GetOpt("start_at_sequence_number", 3, "uns"), GetOpt("requested_count", 4, "uns")>>)

AuditLogQueryACK ==
  Struct(<<F("audit_log", 0, "oid"),
           <<PutList("records", 1, BACnetAuditLogRecord),
             ScanRecords("records", BACnetAuditLogRecord)>>,
           F("no_more_items", 2, "bool")>>)

(* Confirmed and unconfirmed                                               *)
ConfirmedAuditNotificationRequest ==
  Struct(<< <<PutList("notifications", 0, BACnetAuditNotification),
              ScanNotifications("notifications", BACnetAuditNotification)>> >>)
=============================================================================
