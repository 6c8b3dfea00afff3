------------------------------- MODULE TrendLog -------------------------------
(***************************************************************************)
(* The trend log engine (app/trendlog_engine.py) with one Trend Log object *)
(* (objects/trendlog.py) and the objects it may refer to.  A log is polled,*)
(* triggered, or fed by a change callback of the object database, which    *)
(* runs inside the write of the property it watches.                       *)
(*                                                                         *)
(* A callback is kept as a count at the object it is registered for: that  *)
(* of _cov_callback is "current", one the log has lost track of is stale,  *)
(* and one of a deleted log is an orphan.  A tick is the unit of the log   *)
(* interval; records carry the object they come from and the value.        *)
(***************************************************************************)
EXTENDS Integers, Sequences, SequencesExt

CONSTANTS
  Targets,           \* objects the log may refer to
  Samples,           \* values of their Present_Value
  LogInterval, IntervalOffset, DayLength, \* in ticks
  Uptime,            \* monotonic time when wall time is 0
  MaxCallbacks,      \* 100 callbacks per property
  NO_TARGET,         \* Log_DeviceObjectProperty is not set
  NEVER,             \* no entry in _last_poll, no _cov_callback
  LogSettings        \* [start, writes, last_tick, resets, records] records: the
                     \* log at first, the properties that are written, and the
                     \* bounds of a behaviour

(* A Trend Log object before anything is recorded.                         *)
NewLogs ==
  [enabled : BOOLEAN, open : BOOLEAN, type : {"polled", "triggered", "cov"},
   target : Targets \cup {NO_TARGET}, trigger : BOOLEAN, align : BOOLEAN, size : Nat,
   stop_when_full : BOOLEAN, buffer : {<<>>}, count : {0}, total : {0}]

ASSUME TrendAssumption ==
  /\ LogInterval \in Nat \ {0} /\ DayLength \in Nat \ {0}
  /\ IntervalOffset \in Nat /\ Uptime \in Nat /\ MaxCallbacks \in Nat \ {0}
  /\ NO_TARGET \notin Targets /\ NEVER \notin Targets /\ NEVER \notin Nat
  /\ Samples # {} /\ \A s \in LogSettings : s.start \in NewLogs

VARIABLES
  log,               \* properties of the Trend Log object
  setting,           \* the member of LogSettings, which does not change
  objects,           \* Present_Value of each target, and whether writes are notified
  tl_engine,         \* "running", "stopped" or "failed"
  subscribed,        \* the log is in _cov_subscriptions
  current,           \* where the callback of _cov_callback is registered
  stale, orphans,    \* other callbacks, of this log and of deleted ones
  last_poll,         \* _last_poll, as wall time
  ticks,             \* wall time
  recorded,          \* history: every record the log has taken
  lost_track,        \* history: the reference was written under a subscription, an
                     \* object replaced, or the engine stopped without the callback
  scanned,           \* history: a poll was considered since the last other step
  resets             \* bounded: restarts and replacements

trend_vars == <<log, setting, objects, tl_engine, subscribed, current, stale,
                orphans, last_poll, ticks, recorded, lost_track, scanned, resets>>

-----------------------------------------------------------------------------
(* append_record: a full buffer refuses, or gives up its oldest record.    *)
(* A Buffer_Size of 0 is no limit; one that was lowered leaves the buffer  *)
(* as long as it is.                                                       *)

Full(l) == l.size > 0 /\ Len(l.buffer) >= l.size

Room(l) == Tail(l.buffer)

append_record(l, r) ==
  IF Full(l) /\ l.stop_when_full THEN l
    ELSE LET b == Append(IF Full(l) THEN Room(l) ELSE l.buffer, r)
         IN [l EXCEPT !.buffer = b, !.count = Len(b), !.total = @ + 1]

Taken(l) == ~(Full(l) /\ l.stop_when_full)

(* The log after n records r, and the history with those that were taken.  *)
Record(r, n) ==
  LET after == FoldLeft(append_record, log, [i \in 1 .. n |-> r])
      taken == after.total - log.total
  IN /\ log' = after
     /\ Len(recorded) + taken <= setting.records
     /\ recorded' = recorded \o [i \in 1 .. taken |-> r]

(* _within_time_window is a switch of the log: open.                       *)
Logging(l) == l.enabled /\ l.open

-----------------------------------------------------------------------------
TrendInit ==
  /\ setting \in LogSettings /\ log = setting.start
  /\ objects = [t \in Targets |-> [pv |-> CHOOSE v \in Samples : TRUE, notified |-> FALSE]]
  /\ tl_engine = "running" /\ subscribed = FALSE /\ current = NEVER
  /\ stale = [t \in Targets |-> 0] /\ orphans = [t \in Targets |-> 0]
  /\ last_poll = NEVER /\ ticks = 0 /\ recorded = <<>> /\ lost_track = FALSE
  /\ scanned = FALSE /\ resets = 0

TrendTick ==
  /\ scanned' = FALSE
  /\ ticks < setting.last_tick /\ ticks' = ticks + 1
  /\ UNCHANGED <<log, setting, objects, tl_engine, subscribed, current, stale,
                 orphans, last_poll, recorded, lost_track, resets>>

(* A property of the log is written, or its time window opens or closes.   *)
WriteLog ==
  /\ scanned' = FALSE
  /\ \/ "enabled" \in setting.writes /\ log' = [log EXCEPT !.enabled = ~@]
     \/ "open" \in setting.writes /\ log' = [log EXCEPT !.open = ~@]
     \/ "align" \in setting.writes /\ log' = [log EXCEPT !.align = ~@]
     \/ "trigger" \in setting.writes /\ ~log.trigger /\ log' = [log EXCEPT !.trigger = TRUE]
     \/ "size" \in setting.writes /\ \E n \in 0 .. 2 : log' = [log EXCEPT !.size = n]
     \/ "type" \in setting.writes
          /\ \E k \in {"polled", "triggered", "cov"} : log' = [log EXCEPT !.type = k]
     \/ "target" \in setting.writes
          /\ \E t \in Targets \cup {NO_TARGET} : log' = [log EXCEPT !.target = t]
  /\ log' # log
  /\ lost_track' = (lost_track \/ (current # NEVER /\ log'.target # log.target))
  /\ UNCHANGED <<setting, objects, tl_engine, subscribed, current, stale,
                 orphans, last_poll, ticks, recorded, resets>>

(* The callbacks of the log that are registered for a target.              *)
Listening(t) == stale[t] + (IF current = t THEN 1 ELSE 0)

(* A mutant of the callback that leaves it to the cycle to end logging.    *)
OnChangeUnchecked(t, v) ==
  IF objects[t].notified THEN Record([from |-> t, value |-> v], Listening(t))
    ELSE UNCHANGED <<log, recorded>>

(* _on_change of every callback, called when the value has changed.        *)
OnChange(t, v) ==
  IF objects[t].notified /\ Logging(log)
    THEN Record([from |-> t, value |-> v], Listening(t))
    ELSE UNCHANGED <<log, recorded>>

(* write_property of a target.                                             *)
WriteTarget(t) ==
  /\ scanned' = scanned
  /\ "value" \in setting.writes
  /\ \E v \in Samples \ {objects[t].pv} :
       /\ objects' = [objects EXCEPT ![t].pv = v]
       /\ OnChange(t, v)
  /\ UNCHANGED <<setting, tl_engine, subscribed, current, stale, orphans,
                 last_poll, ticks, lost_track, resets>>

-----------------------------------------------------------------------------
(* One cycle of the engine.                                                *)

Running == tl_engine = "running"

(* _unregister_cov goes by the reference the log has now: the callback is  *)
(* only removed if it is registered there, the subscription in any case.   *)
Unregister ==
  /\ subscribed' = FALSE
  /\ current' = IF subscribed /\ log.target # NO_TARGET /\ current = log.target
                  THEN NEVER ELSE current

(* Logging is off: what is subscribed is given up.                         *)
CycleOff ==
  /\ scanned' = FALSE
  /\ Running /\ ~Logging(log) /\ Unregister
  /\ UNCHANGED <<log, setting, objects, tl_engine, stale, orphans, last_poll,
                 ticks, recorded, lost_track, resets>>

(* _record_value: nothing is recorded without a reference.                 *)
RecordValue(l) ==
  IF l.target = NO_TARGET THEN log' = l /\ recorded' = recorded
    ELSE LET r == [from |-> l.target, value |-> objects[l.target].pv]
         IN /\ log' = append_record(l, r)
            /\ IF Taken(l) THEN /\ Len(recorded) < setting.records
                                /\ recorded' = Append(recorded, r)
                           ELSE recorded' = recorded

Midnight == (ticks \div DayLength) * DayLength

(* int() rounds toward zero.                                               *)
Truncated(x) == IF x < 0 THEN -((-x) \div LogInterval) ELSE x \div LogInterval

(* A mutant that waits for the length of an interval.                      *)
IntervalPassed == last_poll = NEVER \/ ticks - last_poll >= LogInterval

(* An aligned log is due in a slot of the day after that of the last poll, *)
(* both counted from the last midnight.                                    *)
AlignedDue ==
  last_poll = NEVER \/
    Truncated(ticks - Midnight + IntervalOffset)
      > Truncated(last_poll - Midnight + IntervalOffset)

(* Without alignment the poll that never was counts as one at time 0 of    *)
(* the monotonic clock.                                                    *)
PollDue ==
  IF log.align THEN AlignedDue
    ELSE IF last_poll = NEVER THEN ticks + Uptime >= LogInterval
                              ELSE ticks - last_poll >= LogInterval

CyclePolled ==
  /\ scanned' = TRUE
  /\ Running /\ Logging(log) /\ log.type = "polled" /\ Unregister
  /\ IF PollDue THEN last_poll' = ticks /\ RecordValue(log)
                ELSE UNCHANGED <<last_poll, log, recorded>>
  /\ UNCHANGED <<setting, objects, tl_engine, stale, orphans, ticks, lost_track, resets>>

CycleTriggered ==
  /\ scanned' = FALSE
  /\ Running /\ Logging(log) /\ log.type = "triggered" /\ Unregister
  /\ IF log.trigger THEN RecordValue([log EXCEPT !.trigger = FALSE])
                    ELSE UNCHANGED <<log, recorded>>
  /\ UNCHANGED <<setting, objects, tl_engine, stale, orphans, last_poll, ticks,
                 lost_track, resets>>

Unsubscribed == ~subscribed /\ log.target # NO_TARGET

(* register_change_callback takes a limited number for a property.         *)
Registrable(t) == Listening(t) + orphans[t] < MaxCallbacks

(* _handle_cov: the callback takes the place of the last one in            *)
(* _cov_callback, which stays registered where it is.                      *)
CycleSubscribes ==
  /\ scanned' = FALSE
  /\ Running /\ Logging(log) /\ log.type = "cov" /\ Unsubscribed
  /\ Registrable(log.target)
  /\ subscribed' = TRUE /\ current' = log.target
  /\ stale' = IF current = NEVER THEN stale ELSE [stale EXCEPT ![current] = @ + 1]
  /\ objects' = [objects EXCEPT ![log.target].notified = TRUE]
  /\ UNCHANGED <<log, setting, tl_engine, orphans, last_poll, ticks, recorded,
                 lost_track, resets>>

(* It raises when there are too many; nothing catches it, the loop ends.   *)
CycleFails ==
  /\ scanned' = FALSE
  /\ Running /\ Logging(log) /\ log.type = "cov" /\ Unsubscribed
  /\ ~Registrable(log.target)
  /\ tl_engine' = "failed"
  /\ UNCHANGED <<log, setting, objects, subscribed, current, stale, orphans,
                 last_poll, ticks, recorded, lost_track, resets>>

(* stop: the subscriptions are given up as in a cycle.  After a failure it *)
(* raises before it has done anything.                                     *)
StopTrend ==
  /\ scanned' = FALSE
  /\ Running /\ resets < setting.resets /\ resets' = resets + 1
  /\ tl_engine' = "stopped" /\ last_poll' = NEVER /\ Unregister
  /\ UNCHANGED <<log, setting, objects, stale, orphans, ticks, recorded, lost_track>>

StartTrend ==
  /\ scanned' = FALSE
  /\ tl_engine = "stopped" /\ tl_engine' = "running"
  /\ UNCHANGED <<log, setting, objects, subscribed, current, stale, orphans,
                 last_poll, ticks, recorded, lost_track, resets>>

(* The log is deleted and another created with its identifier: it has no   *)
(* _cov_callback, but it is in _cov_subscriptions if the first was.  The   *)
(* callbacks of the first go on recording into an object nobody sees.      *)
ReplaceLog ==
  /\ scanned' = FALSE
  /\ resets < setting.resets /\ resets' = resets + 1
  /\ log' = setting.start /\ recorded' = <<>> /\ current' = NEVER
  /\ orphans' = [t \in Targets |-> orphans[t] + Listening(t)]
  /\ stale' = [t \in Targets |-> 0]
  /\ lost_track' = (lost_track \/ subscribed \/ (\E t \in Targets : Listening(t) > 0))
  /\ UNCHANGED <<setting, objects, tl_engine, subscribed, last_poll, ticks>>

(* A target is deleted and another created with its identifier: writes of  *)
(* the new one are not notified before the next registration for it.       *)
ReplaceTarget(t) ==
  /\ scanned' = scanned
  /\ resets < setting.resets /\ resets' = resets + 1
  /\ \E v \in Samples : objects' = [objects EXCEPT ![t] = [pv |-> v, notified |-> FALSE]]
  /\ lost_track' = (lost_track \/ Listening(t) > 0)
  /\ UNCHANGED <<log, setting, tl_engine, subscribed, current, stale, orphans,
                 last_poll, ticks, recorded>>

CycleTrend == CycleOff \/ CyclePolled \/ CycleTriggered \/ CycleSubscribes \/ CycleFails

TrendNext ==
  \/ TrendTick \/ WriteLog \/ (\E t \in Targets : WriteTarget(t) \/ ReplaceTarget(t))
  \/ CycleTrend \/ StopTrend \/ StartTrend \/ ReplaceLog

-----------------------------------------------------------------------------
Records == [from : Targets, value : Samples]

TrendTypeOK ==
  /\ setting \in LogSettings /\ log.type \in {"polled", "triggered", "cov"}
  /\ log.target \in Targets \cup {NO_TARGET} /\ current \in Targets \cup {NEVER}
  /\ recorded \in Seq(Records) /\ log.buffer \in Seq(Records)
  /\ last_poll \in {NEVER} \cup 0 .. ticks /\ tl_engine \in {"running", "stopped", "failed"}
  /\ \A t \in Targets : Listening(t) + orphans[t] <= MaxCallbacks

(* The buffer holds the latest records in the order they were taken, all   *)
(* of them when the log stops at a full buffer; the counts agree.          *)
BufferIsLatest ==
  /\ Len(log.buffer) <= Len(recorded)
  /\ log.buffer = SubSeq(recorded, Len(recorded) - Len(log.buffer) + 1, Len(recorded))
  /\ log.count = Len(log.buffer) /\ log.total = Len(recorded)
  /\ log.stop_when_full => log.buffer = recorded

(* As long as nothing was replaced and the reference not written under a   *)
(* subscription, the log has one callback, at the object it refers to,     *)
(* when it is subscribed, and none when it is not.                         *)
OneCallback ==
  ~lost_track =>
    /\ subscribed <=> current # NEVER
    /\ current # NEVER => current = log.target /\ objects[current].notified
    /\ \A t \in Targets : stale[t] = 0 /\ orphans[t] = 0

(* A log that is not enabled, or outside its window, records nothing,      *)
(* though its callback stays until the next cycle.                         *)
NothingWhileOff ==
  [][recorded' # recorded /\ recorded' # <<>> => Logging(log)]_trend_vars

(* Every change of the object a subscribed log refers to is recorded once. *)
ChangesRecorded ==
  [][\A t \in Targets :
       /\ ~lost_track /\ subscribed /\ log.target = t /\ Logging(log) /\ Taken(log)
       /\ objects'[t].pv # objects[t].pv /\ resets' = resets
       => recorded' = Append(recorded, [from |-> t, value |-> objects'[t].pv])]_trend_vars

(* The slot of the day a time is in, the days being counted.               *)
Slot(t) == <<t \div DayLength, ((t % DayLength) + IntervalOffset) \div LogInterval>>

(* An aligned log is polled in every slot of the day in which there is a   *)
(* cycle.  Only the first slot is left out when the last poll was less than*)
(* an interval before midnight: int() rounds both times to slot 0.         *)
SlotsPolled ==
  scanned /\ log.align =>
    /\ last_poll # NEVER
    /\ \/ Slot(last_poll) = Slot(ticks)
       \/ /\ last_poll < Midnight /\ Midnight - last_poll < LogInterval + IntervalOffset
          /\ ticks - Midnight < LogInterval

(* No slot is polled twice, as long as the engine is not restarted.        *)
SlotPolledOnce ==
  [][CyclePolled /\ log.align /\ last_poll # NEVER /\ last_poll' # last_poll
       => Slot(ticks) # Slot(last_poll)]_trend_vars

(* Liveness: a log of type COV that is enabled and refers to an object is  *)
(* subscribed to it in the end, if it has not lost track of a callback.    *)
CovSubscribed ==
  <>[](Running /\ Logging(log) /\ log.type = "cov" /\ log.target # NO_TARGET /\ ~lost_track)
    => <>[](current = log.target)

(* A log has the latest records, one callback, and a record of each slot.  *)
LogExact == TrendTypeOK /\ BufferIsLatest /\ OneCallback /\ SlotsPolled

(* What a log is to record it records, once, and nothing else.             *)
RecordedOnce == NothingWhileOff /\ ChangesRecorded /\ SlotPolledOnce
=============================================================================
