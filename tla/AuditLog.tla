------------------------------- MODULE AuditLog -------------------------------
(***************************************************************************)
(* The audit manager (app/audit.py), the Audit Log and Audit Reporter      *)
(* objects, and the handlers of app/server.py that record an operation,    *)
(* receive the notifications of other devices, and answer a query, with a  *)
(* client that reads a log page by page.                                   *)
(*                                                                         *)
(* An operation changes the objects first and is recorded then; the Audit  *)
(* Logs and Audit Reporters are themselves objects it may write, create or *)
(* delete.  What a notification tells is reduced to operation and target.  *)
(***************************************************************************)
EXTENDS Integers, FiniteSets, Sequences, SequencesExt

CONSTANTS
  AuditSettings,     \* [logs, reporters, others, operations, pages, count]: the objects
                     \* at first, how many requests and queries follow (bounds), and
                     \* the requested count of a query
  AuditLevels, BufferSizes, \* values that are written
  EveryInstance,     \* 0x3FFFFF
  NOT_PAGING,        \* the client reads no log
  FROM_START         \* no start_at_sequence_number

Oids == [type : STRING, instance : Nat]

(* An Audit Log object before anything is recorded.                        *)
NewAuditLogs ==
  [oid : Oids, enabled : BOOLEAN, size : BufferSizes, stop_when_full : BOOLEAN,
   buffer : {<<>>}, counter : {0}, count : {0}, total : {0}, taken : {<<>>}]

Levels == {"none", "all", "config", "default"}

(* Operations are <<>>, no bit string, or <<a set>>.                       *)
AuditReporters ==
  [oid : Oids, monitored : Seq(Oids), level : Levels,
   operations : Seq(SUBSET {"read", "write", "create", "delete"})]

ASSUME AuditAssumption ==
  /\ BufferSizes \subseteq Nat /\ FROM_START \notin Nat /\ EveryInstance \in Nat
  /\ AuditLevels \subseteq Levels
  /\ \A s \in AuditSettings :
       /\ s.operations \in Nat /\ s.pages \in Nat /\ s.count \in Nat \ {0}
       /\ s.logs \in Seq(NewAuditLogs) /\ s.reporters \in Seq(AuditReporters)
       /\ s.others \subseteq Oids
       /\ \A i, j \in DOMAIN s.logs : s.logs[i].oid = s.logs[j].oid => i = j

VARIABLES
  audit_setting,     \* does not change
  logs, reporters,   \* the objects, in the order they were created
  others,            \* identifiers of the other objects that exist
  pager,             \* the client: [log, at, seen, count, over, same]
  last_operation,    \* history: the last request and whether it was answered well
  operations, pages  \* bounded: requests, queries

audit_vars == <<audit_setting, logs, reporters, others, pager, last_operation,
                operations, pages>>

-----------------------------------------------------------------------------
(* AuditLogObject.                                                         *)

(* No room is made in a buffer that is empty: pop(0) raises, after the     *)
(* number has been taken.                                                  *)
NoRoomToMake(l) ==
  l.enabled /\ ~l.stop_when_full /\ l.buffer = <<>> /\ l.size = 0

Refuses(l) == ~l.enabled \/ (l.stop_when_full /\ Len(l.buffer) >= l.size)

Trimmed(l) == IF Len(l.buffer) >= l.size THEN Tail(l.buffer) ELSE l.buffer

(* append_record; "taken" is a history of all records.                     *)
append_record_to(l, what) ==
  LET r == [number |-> l.counter + 1, what |-> what]
      b == Append(Trimmed(l), r)
  IN CASE Refuses(l) -> l
       [] ~Refuses(l) /\ NoRoomToMake(l) -> [l EXCEPT !.counter = @ + 1]
       [] OTHER -> [l EXCEPT !.counter = @ + 1, !.buffer = b, !.count = Len(b),
                             !.total = l.counter + 1,
                             !.taken = Append(@, r)]

(* _append_to_logs: the logs after the first that raises get nothing.      *)
append_to_logs(ls, what) ==
  [i \in DOMAIN ls |-> IF \E j \in 1 .. i - 1 : NoRoomToMake(ls[j]) THEN ls[i]
                                                 ELSE append_record_to(ls[i], what)]

(* Several notifications, one after the other, up to the first failure.    *)
deliver_one(st, what) ==
  IF ~st.ok THEN st
    ELSE [logs |-> append_to_logs(st.logs, what),
          ok |-> \A j \in DOMAIN st.logs : ~NoRoomToMake(st.logs[j])]

Deliver(ls, whats) == FoldLeft(deliver_one, [logs |-> ls, ok |-> TRUE], whats)

(* A mutant of query_records for a number that was already returned.       *)
after_start(l, at) ==
  IF at = FROM_START THEN l.buffer ELSE SelectSeq(l.buffer, LAMBDA r : r.number > at)

keep_from(st, r) ==
  IF r.number >= st.at THEN [st EXCEPT !.found = Append(@, r)] ELSE st

(* The records query_records looks at.                                     *)
from_start(l, at) ==
  IF at = FROM_START THEN l.buffer
    ELSE FoldLeft(keep_from, [at |-> at, found |-> <<>>], l.buffer).found

-----------------------------------------------------------------------------
(* AuditManager.                                                           *)

Covers(m, target) ==
  m = target \/ (m.type = target.type /\ m.instance = EveryInstance)

(* _find_reporters: one without a list monitors every object.              *)
monitors(r, target) ==
  r.monitored = <<>> \/ \E i \in DOMAIN r.monitored : Covers(r.monitored[i], target)

(* _should_audit.  The bits past the end of the bit string are not set;    *)
(* without a bit string all operations are.                                *)
should_audit(r, operation) ==
  /\ r.level # "none"
  /\ r.level = "config" => operation \in {"write", "create", "delete"}
  /\ r.operations = <<>> \/ operation \in r.operations[1]

Reporting(rs, operation, target) ==
  {i \in DOMAIN rs : monitors(rs[i], target) /\ should_audit(rs[i], operation)}

(* record_operation: the same record for each reporter that reports it.    *)
record_operation(ls, rs, operation, target) ==
  LET what == <<operation, target>>
  IN Deliver(ls, [i \in 1 .. Cardinality(Reporting(rs, operation, target)) |-> what])

-----------------------------------------------------------------------------
AuditInit ==
  /\ audit_setting \in AuditSettings /\ logs = audit_setting.logs
  /\ reporters = audit_setting.reporters /\ others = audit_setting.others
  /\ pager = NOT_PAGING /\ last_operation = <<>> /\ operations = 0 /\ pages = 0

(* The end of a handler that has changed the objects to ls and rs.         *)
Recorded(ls, rs, operation, target) ==
  /\ operations < audit_setting.operations /\ operations' = operations + 1
  /\ LET st == record_operation(ls, rs, operation, target)
     IN /\ logs' = st.logs /\ reporters' = rs
        /\ last_operation' = <<operation, target, st.ok>>
  /\ UNCHANGED <<audit_setting, pages>>

(* handle_write_property, of an object, a log, or a reporter.              *)
WriteOther ==
  /\ \E o \in others : Recorded(logs, reporters, "write", o)
  /\ UNCHANGED <<others, pager>>

WriteAuditLog ==
  /\ \E i \in DOMAIN logs :
       \E l \in {[logs[i] EXCEPT !.enabled = ~@], [logs[i] EXCEPT !.stop_when_full = ~@],
                 [logs[i] EXCEPT !.count = 0]}
                \cup {[logs[i] EXCEPT !.size = n] : n \in BufferSizes} :
         Recorded([logs EXCEPT ![i] = l], reporters, "write", l.oid)
  /\ UNCHANGED <<others, pager>>

WriteReporter ==
  /\ \E i \in DOMAIN reporters : \E v \in AuditLevels :
       Recorded(logs, [reporters EXCEPT ![i].level = v], "write", reporters[i].oid)
  /\ UNCHANGED <<others, pager>>

Unused(oid) == \A j \in DOMAIN logs : logs[j].oid # oid

(* handle_create_object: an object is there before it is recorded.  A new  *)
(* log counts from 1 again.                                                *)
CreateOther ==
  /\ \E o \in audit_setting.others \ others :
       Recorded(logs, reporters, "create", o) /\ others' = others \cup {o}
  /\ UNCHANGED pager

CreateAuditLog ==
  /\ \E i \in DOMAIN audit_setting.logs :
       LET l == audit_setting.logs[i]
       IN /\ Unused(l.oid)
          /\ Recorded(Append(logs, l), reporters, "create", l.oid)
  /\ UNCHANGED <<others, pager>>

(* handle_delete_object: what is deleted no longer records, or reports.    *)
DeleteOther ==
  /\ \E o \in others : Recorded(logs, reporters, "delete", o) /\ others' = others \ {o}
  /\ UNCHANGED pager

DeleteAuditLog ==
  /\ \E i \in DOMAIN logs :
       /\ Recorded(RemoveAt(logs, i), reporters, "delete", logs[i].oid)
       /\ pager' = IF pager # NOT_PAGING /\ pager.log = logs[i].oid
                     THEN [pager EXCEPT !.same = FALSE] ELSE pager
  /\ UNCHANGED others

DeleteReporter ==
  /\ \E i \in DOMAIN reporters :
       Recorded(logs, RemoveAt(reporters, i), "delete", reporters[i].oid)
  /\ UNCHANGED <<others, pager>>

(* handle_(un)confirmed_audit_notification: no reporter is asked.          *)
NotificationsReceived ==
  /\ operations < audit_setting.operations /\ operations' = operations + 1
  /\ \E n \in 1 .. 2 :
       LET st == Deliver(logs, [i \in 1 .. n |-> <<"received", i>>])
       IN logs' = st.logs /\ last_operation' = <<"received", n, st.ok>>
  /\ UNCHANGED <<audit_setting, reporters, others, pager, pages>>

StartPaging ==
  /\ pager # NOT_PAGING => pager.over
  /\ \E i \in DOMAIN logs :
       pager' = [log |-> logs[i].oid, at |-> FROM_START, seen |-> <<>>, over |-> FALSE,
                 same |-> TRUE]
  /\ UNCHANGED <<audit_setting, logs, reporters, others, last_operation, operations, pages>>

(* What a page of the log l makes of the client p, which goes on behind the*)
(* last record until there are no more items.                              *)
next_page(p, l) ==
  LET filtered == from_start(l, p.at)
      n == IF Len(filtered) <= audit_setting.count THEN Len(filtered) ELSE audit_setting.count
      result == SubSeq(filtered, 1, n)
  IN [p EXCEPT !.seen = @ \o result, !.over = Len(filtered) <= audit_setting.count,
               !.at = IF result = <<>> THEN @ ELSE result[n].number + 1]

(* handle_audit_log_query and its client: the log may be unknown by then.  *)
Page ==
  /\ IF pager = NOT_PAGING THEN FALSE ELSE ~pager.over
  /\ pages < audit_setting.pages /\ pages' = pages + 1
  /\ \/ (\A i \in DOMAIN logs : logs[i].oid # pager.log) /\ pager' = NOT_PAGING
     \/ \E i \in DOMAIN logs : logs[i].oid = pager.log /\ pager' = next_page(pager, logs[i])
  /\ UNCHANGED <<audit_setting, logs, reporters, others, last_operation, operations>>

Operation ==
  \/ WriteOther \/ WriteAuditLog \/ WriteReporter \/ CreateOther \/ CreateAuditLog
  \/ DeleteOther \/ DeleteAuditLog \/ DeleteReporter

AuditNext == Operation \/ NotificationsReceived \/ StartPaging \/ Page

-----------------------------------------------------------------------------
AuditTypeOK ==
  /\ audit_setting \in AuditSettings /\ others \subseteq audit_setting.others
  /\ \A i \in DOMAIN logs :
       /\ logs[i].counter \in Nat /\ logs[i].total \in 0 .. logs[i].counter
       /\ logs[i].count \in 0 .. Len(logs[i].buffer)
  /\ \A i, j \in DOMAIN logs : logs[i].oid = logs[j].oid => i = j
  /\ operations \in 0 .. audit_setting.operations /\ pages \in 0 .. audit_setting.pages

(* A log holds the latest of the records it has taken, in order and with   *)
(* consecutive numbers up to Total_Record_Count, never more than the       *)
(* largest size it was given.                                              *)
LogIsTail ==
  \A i \in DOMAIN logs :
    LET l == logs[i]
        n == Len(l.buffer)
    IN /\ l.buffer = SubSeq(l.taken, Len(l.taken) - n + 1, Len(l.taken))
       /\ \A k \in 2 .. Len(l.taken) : l.taken[k].number = l.taken[k - 1].number + 1
       /\ l.taken # <<>> => l.buffer # <<>> /\ Last(l.taken).number = l.total
       /\ \E m \in BufferSizes : n <= m

(* A client that has read a log to the end has seen each record that is    *)
(* then in the buffer, once and in order, whatever the log took and gave up*)
(* between two pages, unless the log was replaced by another of that name. *)
ReadToEnd ==
  pager' # NOT_PAGING /\ pager'.over /\ pager'.same /\ pages' # pages =>
    \A i \in DOMAIN logs : logs[i].oid = pager'.log =>
      /\ ToSet(logs[i].buffer) \subseteq ToSet(pager'.seen)
      /\ \A k \in 2 .. Len(pager'.seen) :
           pager'.seen[k].number > pager'.seen[k - 1].number

PagingComplete == [][ReadToEnd]_audit_vars

(* The reporters that are to report: those that have the object, or all    *)
(* instances of its type, in their list, or have no list.                  *)
ToReport(rs, operation, target) ==
  {k \in DOMAIN rs :
     LET r == rs[k] IN
     /\ r.level \in {"all", "config", "default"}
     /\ r.operations # <<>> => operation \in r.operations[1]
     /\ r.monitored # <<>> =>
          {target, [target EXCEPT !.instance = EveryInstance]} \cap ToSet(r.monitored) # {}}

(* An operation that is answered well is recorded in each log that is      *)
(* enabled then and does not stop when full, once for each reporter        *)
(* that is then left to report it.                                         *)
InEachLog ==
  last_operation' # last_operation /\ operations' # operations
    /\ last_operation'[1] \in {"write", "create", "delete"} /\ last_operation'[3] =>
    \A i \in DOMAIN logs, j \in DOMAIN logs' :
      logs[i].oid = logs'[j].oid /\ logs'[j].enabled /\ ~logs'[j].stop_when_full =>
        Len(logs'[j].taken) =
          Len(logs[i].taken)
            + Cardinality(ToReport(reporters', last_operation'[1], last_operation'[2]))

RecordedByEach == [][InEachLog]_audit_vars

(* Every operation is in the logs that are to have it, and every record    *)
(* with whoever reads a log to its end.                                    *)
TrailComplete ==
  [](AuditTypeOK /\ LogIsTail) /\ PagingComplete /\ RecordedByEach
=============================================================================
