------------------------------ MODULE MCEngines ------------------------------
(***************************************************************************)
(* Instances of Engines.                                                   *)
(*  - An object with intrinsic reporting and a recipient of unconfirmed    *)
(*    notifications, whose detection others switch; one with one limit and *)
(*    a recipient of confirmed notifications, which is restarted or        *)
(*    replaced; one whose enable bits are BitStrings; an enrollment that   *)
(*    others switch, with a recipient that has hours and does not want     *)
(*    faults; and enrollments of the other kinds, one of which is restarted*)
(*    or replaced.                                                         *)
(*  - Five trend logs with what happens to them.                           *)
(*  - Three seasons of a schedule: a leap February, a year's end, and two  *)
(*    days in which others step in.                                        *)
(*  - Two sets of audit objects.                                           *)
(*  - Four devices with their files, and what their clients do.            *)
(***************************************************************************)
EXTENDS Engines, TLC

RecipientOf(name, transitions, confirmed, windowed) ==
  [name |-> name, transitions |-> transitions, confirmed |-> confirmed, windowed |-> windowed]

Unconfirmed == RecipientOf("unconfirmed", Transitions, FALSE, FALSE)

Confirmed == RecipientOf("confirmed", Transitions, TRUE, FALSE)

InHours == RecipientOf("in_hours", {"to_offnormal", "to_normal"}, FALSE, TRUE)

Watch(intrinsic, type, limit_enable, recipients, delays, max_switched, max_stops) ==
  [intrinsic |-> intrinsic, type |-> type, limit_enable |-> limit_enable,
   limits_listed |-> TRUE, listed |-> {TRUE},
   recipients |-> recipients, delay |-> delays[1], delay_normal |-> delays[2],
   max_switched |-> max_switched, max_stops |-> max_stops]

\* Limit_Enable is a BitString, and Event_Enable one or a list.
WithBitStrings(w) == [w EXCEPT !.limits_listed = FALSE, !.listed = BOOLEAN]

Both == <<TRUE, TRUE>>

OtherTypes ==
  {"floating_limit", "unsigned_range", "change_of_state", "change_of_life_safety",
   "change_of_bitstring", "change_of_status_flags", "change_of_value",
   "change_of_reliability", "command_failure", "buffer_ready"}

MCWatched ==
  {Watch(TRUE, "out_of_range", Both, {Unconfirmed}, <<1, 0>>, 1, 0),
   Watch(TRUE, "out_of_range", <<FALSE, TRUE>>, {Confirmed}, <<1, 2>>, 0, 1),
   WithBitStrings(Watch(TRUE, "out_of_range", <<FALSE, TRUE>>, {Unconfirmed}, <<0, 0>>, 1, 0)),
   Watch(FALSE, "out_of_range", Both, {InHours}, <<0, 0>>, 1, 0)}
  \cup {Watch(FALSE, t, Both, {}, <<2, 1>>, 0, IF t = "buffer_ready" THEN 1 ELSE 0) : t \in OtherTypes}

-----------------------------------------------------------------------------
TrendLogOf(type, align, size, stop) ==
  [enabled |-> TRUE, open |-> TRUE, type |-> type, target |-> "a", trigger |-> FALSE,
   align |-> align, size |-> size, stop_when_full |-> stop, buffer |-> <<>>,
   count |-> 0, total |-> 0]

LogSetting(start, writes, last_tick, restarts, records) ==
  [start |-> start, writes |-> writes, last_tick |-> last_tick, resets |-> restarts,
   records |-> records]

MCLogSettings ==
  {LogSetting(TrendLogOf("cov", FALSE, 1, FALSE), {"value", "type"}, 0, 0, 3),
   LogSetting(TrendLogOf("cov", FALSE, 2, FALSE), {"value", "enabled", "target"}, 0, 1, 1),
   LogSetting(TrendLogOf("cov", FALSE, 2, TRUE), {"value", "open", "size"}, 0, 2, 3),
   LogSetting(TrendLogOf("polled", TRUE, 1, FALSE), {"enabled", "align"}, 9, 1, 6),
   LogSetting(TrendLogOf("triggered", FALSE, 2, FALSE), {"value", "trigger", "size"}, 0, 0, 4)}

-----------------------------------------------------------------------------
DateEntry(y, m, d, w) == [kind |-> "date", year |-> y, month |-> m, day |-> d, dow |-> w]

WeekEntry(m, w, d) == [kind |-> "week_n_day", month |-> m, week |-> w, dow |-> d]

RangeEntry(a, b) == [kind |-> "range", from |-> a, to |-> b]

Calendar == [kind |-> "calendar"]

(* Last day of odd months, odd Mondays of even ones, Thursdays of a last   *)
(* week, Tuesdays of a second, first Fridays of even months, three days in *)
(* March, Saturdays of an even date.                                       *)
MCCalendarEntries ==
  {DateEntry(ANY, 13, 32, ANY), DateEntry(ANY, 14, 33, 1), WeekEntry(ANY, 6, 4),
   WeekEntry(ANY, 2, 2), WeekEntry(14, 1, 5), DateEntry(ANY, ANY, 34, 6),
   RangeEntry(DateEntry(2024, 3, 3, ANY), DateEntry(2024, 3, 5, ANY))}

At(t, v) == [time |-> t, value |-> v]

Exception(priority, period, values) ==
  [priority |-> priority, period |-> period, values |-> values]

PlanOf(default, effective, exceptions, targets) ==
  [default |-> default, effective |-> effective, exceptions |-> exceptions, targets |-> targets,
   weekly |-> [d \in 1 .. 7 |-> IF d > 5 THEN <<>> ELSE <<At(2, 2), At(1, 1), At(2, 0)>>]]

AllTime == RangeEntry(DateEntry(1900, 1, 1, ANY), DateEntry(2155, 12, 31, ANY))

TillLeapDay == RangeEntry(DateEntry(ANY, ANY, ANY, ANY), DateEntry(2024, 2, 29, ANY))

Exceptional ==
  PlanOf(0, AllTime,
         <<Exception(10, Calendar, <<At(ANY, 3)>>),
           Exception(5, WeekEntry(ANY, 6, ANY), <<At(1, 2), At(0, 1)>>),
           Exception(10, DateEntry(ANY, ANY, 33, ANY), <<At(1, 0)>>)>>, <<"t1", "t2">>)

Plain == PlanOf(3, TillLeapDay, <<>>, <<"t2">>)

WithoutDefault == PlanOf(UNSET, AllTime, <<>>, <<"t1">>)

Season(y, m, d, w, last, plans, others_may) ==
  [start |-> [year |-> y, month |-> m, day |-> d, dow |-> w], last_day |-> last,
   plans |-> plans, meddling |-> others_may]

MCSeasons ==
  {Season(2024, 2, 18, 7, 24, {Exceptional, Plain}, 0),
   Season(2023, 12, 24, 7, 14, {Exceptional, Plain}, 0),
   Season(2024, 2, 28, 3, 2, {Exceptional, Plain, WithoutDefault}, 2)}

-----------------------------------------------------------------------------
Oid(t, n) == [type |-> t, instance |-> n]

AuditLogOf(n, size, stop) ==
  [oid |-> Oid("log", n), enabled |-> TRUE, size |-> size, stop_when_full |-> stop,
   buffer |-> <<>>, counter |-> 0, count |-> 0, total |-> 0, taken |-> <<>>]

Reporter(n, monitored, level, ops) ==
  [oid |-> Oid("reporter", n), monitored |-> monitored, level |-> level, operations |-> ops]

AuditSetting(ls, rs, os, n, p) ==
  [logs |-> ls, reporters |-> rs, others |-> os, operations |-> n, pages |-> p, count |-> 1]

MCAuditSettings ==
  {AuditSetting(<<AuditLogOf(1, 2, FALSE)>>, <<Reporter(1, <<>>, "default", <<>>)>>,
                {Oid("value", 1)}, 3, 3),
   AuditSetting(<<AuditLogOf(1, 1, FALSE), AuditLogOf(2, 2, TRUE)>>,
                <<Reporter(1, <<Oid("value", EveryInstance), Oid("value", 1)>>, "config", <<>>),
                  Reporter(2, <<Oid("value", 1), Oid("log", 1), Oid("reporter", 1)>>, "all",
                           <<{"write", "delete"}>>)>>,
                {Oid("value", 1), Oid("value", 2)}, 2, 0)}

-----------------------------------------------------------------------------
FileOf(data, stream, read_only) == [data |-> data, stream |-> stream, read_only |-> read_only]

DeviceOf(fs, configuration, archive, procedures, changes, requests) ==
  [files |-> fs, configuration |-> configuration, archive |-> archive,
   jobs |-> procedures, meddling |-> changes, calls |-> requests]

(* A backup of two files, one of them shorter than the file is now.        *)
Backup == <<[file |-> "x", data |-> <<2>>], [file |-> "y", data |-> <<1, 1>>]>>

MCMaintenanceSettings ==
  {DeviceOf([f \in Files |-> FileOf(IF f = "x" THEN <<1, 2>> ELSE <<>>, TRUE, FALSE)],
            <<"x", "y">>, {Backup}, 2, 1, 0),
   DeviceOf([f \in Files |-> FileOf(<<1>>, TRUE, TRUE)], <<"x">>, {Backup}, 2, 0, 2),
   DeviceOf([f \in Files |-> FileOf(<<1>>, f = "x", FALSE)], <<"x", "y">>, {Backup}, 1, 1, 0),
   DeviceOf([f \in Files |-> FileOf(<<1>>, TRUE, FALSE)], <<>>, {}, 0, 0, 4)}

\* The backups are among those that KeptApartTheorem is about.
ASSUME BackupsAssumption == EachFileOnce

\* The seasons are among those that ValueInForceTheorem is about.
ASSUME SeasonsAssumption == RegularSeasons
=============================================================================
