------------------------------- MODULE Schedule -------------------------------
(***************************************************************************)
(* The schedule engine (app/schedule_engine.py) with a Calendar            *)
(* (objects/calendar.py), a Schedule that may refer to it, and the         *)
(* properties the schedule writes.  Every scan interval the calendar is    *)
(* evaluated for the date, the value in force is resolved from exceptions, *)
(* week and default, and written to the targets when it is another than    *)
(* the one remembered.                                                     *)
(*                                                                         *)
(* A time of day is a small number.  What a target holds is its slot at    *)
(* the priority of the schedule; higher priorities are not looked at.      *)
(***************************************************************************)
EXTENDS Integers, Sequences

CONSTANTS
  Seasons,           \* [start, last_day, plans, meddling] records: the first date,
                     \* the days that follow, the properties the Schedule may have,
                     \* and how often others step in (bounds)
  CalendarEntries,   \* Date_List of the Calendar
  ScheduleTargets,   \* the objects that may be scheduled
  TimesOfDay, Commands, \* 0 .. n, and values an operator may write
  UNSET,             \* None
  ANY                \* 255: any year, month, day, weekday, or time

ASSUME ScheduleAssumption ==
  /\ TimesOfDay \subseteq Nat /\ 0 \in TimesOfDay /\ ANY = 255 /\ UNSET \notin Commands

VARIABLES
  season,            \* does not change
  plan,              \* the properties of the Schedule
  date, daytime,     \* today and now
  days,              \* days since the start
  cal_pv, sched_pv,  \* Present_Value of the Calendar and of the Schedule
  last_value,        \* _last_values of the Schedule: <<>> or <<value>>
  slots,             \* what the targets hold, and whether they take writes
  s_engine,          \* "running", "stopped" or "failed"
  resolved,          \* history: the cycle was the last step
  behind,            \* history: targets that missed a write or were written by others
  meddled            \* bounded: what others did

schedule_vars == <<season, plan, date, daytime, days, cal_pv, sched_pv, last_value,
                   slots, s_engine, resolved, behind, meddled>>

-----------------------------------------------------------------------------
(* Dates: records of year, month, day and weekday, Monday being 1.         *)

Leap(y) == (y % 4 = 0 /\ y % 100 # 0) \/ y % 400 = 0

LastDay(d) ==
  CASE d.month = 2 -> IF Leap(d.year) THEN 29 ELSE 28
    [] d.month \in {4, 6, 9, 11} -> 30
    [] OTHER -> 31

NextDate(d) ==
  LET dow == (d.dow % 7) + 1
  IN CASE d.day < LastDay(d) -> [d EXCEPT !.day = @ + 1, !.dow = dow]
       [] d.day = LastDay(d) /\ d.month < 12 ->
            [d EXCEPT !.day = 1, !.month = @ + 1, !.dow = dow]
       [] OTHER -> [year |-> d.year + 1, month |-> 1, day |-> 1, dow |-> dow]

MonthMatches(m, d) ==
  m \in {ANY, d.month} \/ (m = 13 /\ d.month % 2 = 1) \/ (m = 14 /\ d.month % 2 = 0)

(* _matches_bacnet_date.                                                   *)
matches_bacnet_date(e, d) ==
  /\ e.year \in {ANY, d.year} /\ MonthMatches(e.month, d) /\ e.dow \in {ANY, d.dow}
  /\ \/ e.day \in {ANY, d.day}
     \/ e.day = 32 /\ d.day = LastDay(d)
     \/ e.day = 33 /\ d.day % 2 = 1
     \/ e.day = 34 /\ d.day % 2 = 0

(* _date_tuple and matches_date_range: what is unspecified in a bound makes*)
(* it as early, or as late, as it can be.                                  *)
LowBound(e) ==
  <<IF e.year = ANY THEN 0 ELSE e.year, IF e.month \in {ANY, 13, 14} THEN 1 ELSE e.month,
    IF e.day \in {ANY, 32, 33, 34} THEN 1 ELSE e.day>>

HighBound(e) ==
  <<IF e.year = ANY THEN 9999 ELSE e.year, IF e.month \in {ANY, 13, 14} THEN 12 ELSE e.month,
    IF e.day \in {ANY, 32, 33, 34} THEN 31 ELSE e.day>>

NotAfter(a, b) ==
  \/ a[1] < b[1]
  \/ a[1] = b[1] /\ a[2] < b[2]
  \/ a[1] = b[1] /\ a[2] = b[2] /\ a[3] <= b[3]

matches_date_range(e, d) ==
  LET today == <<d.year, d.month, d.day>>
  IN NotAfter(LowBound(e.from), today) /\ NotAfter(today, HighBound(e.to))

(* _matches_week_n_day: week 6 is the last seven days of the month.        *)
matches_week_n_day(e, d) ==
  /\ MonthMatches(e.month, d) /\ e.dow \in {ANY, d.dow}
  /\ \/ e.week = ANY
     \/ e.week = 6 /\ d.day >= LastDay(d) - 6
     \/ e.week # 6 /\ e.week = (d.day - 1) \div 7 + 1

matches_calendar_entry(e, d) ==
  CASE e.kind = "date"       -> matches_bacnet_date(e, d)
    [] e.kind = "range"      -> matches_date_range(e, d)
    [] e.kind = "week_n_day" -> matches_week_n_day(e, d)

(* CalendarObject.evaluate.                                                *)
calendar_evaluate(d) == \E e \in CalendarEntries : matches_calendar_entry(e, d)

-----------------------------------------------------------------------------
(* The value in force.  Results are <<>> or <<value>>.                     *)

TimeOf(tv) == IF tv.time = ANY THEN 0 ELSE tv.time

later(best, tv, now) ==
  IF TimeOf(tv) <= now /\ (best = <<>> \/ TimeOf(tv) > TimeOf(best[1])) THEN <<tv>> ELSE best

(* _resolve_time_values: the latest entry of the day so far, the first of  *)
(* those of one time.                                                      *)
resolve_time_values(tvs, now) ==
  LET best[n \in 0 .. Len(tvs)] == IF n = 0 THEN <<>> ELSE later(best[n - 1], tvs[n], now)
  IN IF best[Len(tvs)] = <<>> THEN <<>> ELSE <<best[Len(tvs)][1].value>>

(* Whether an exception applies: by a reference to the Calendar, which was *)
(* evaluated before, or an entry of its own.                               *)
ExceptionApplies(exc, d, calendar) ==
  IF exc.period.kind = "calendar" THEN calendar ELSE matches_calendar_entry(exc.period, d)

HasValue(exc, d, now, calendar) ==
  ExceptionApplies(exc, d, calendar) /\ resolve_time_values(exc.values, now) # <<>>

(* A mutant in which a later exception of the same priority wins.          *)
not_worse(best, exc, d, now, calendar) ==
  IF exc.priority <= best.priority /\ HasValue(exc, d, now, calendar)
  THEN [priority |-> exc.priority, value |-> resolve_time_values(exc.values, now)] ELSE best

better(best, exc, d, now, calendar) ==
  IF exc.priority < best.priority /\ HasValue(exc, d, now, calendar)
  THEN [priority |-> exc.priority, value |-> resolve_time_values(exc.values, now)] ELSE best

(* _resolve_exception_schedule: the first of the highest priority, that is *)
(* of the lowest number, among those that have a value already.            *)
resolve_exception_schedule(exceptions, d, now, calendar) ==
  LET best[n \in 0 .. Len(exceptions)] ==
        IF n = 0 THEN [priority |-> 17, value |-> <<>>]
                 ELSE better(best[n - 1], exceptions[n], d, now, calendar)
  IN best[Len(exceptions)].value

(* _evaluate_schedule, up to _apply_value.                                 *)
evaluate_schedule(p, d, now, calendar) ==
  LET exceptional == resolve_exception_schedule(p.exceptions, d, now, calendar)
      weekly == resolve_time_values(p.weekly[d.dow], now)
  IN CASE ~matches_date_range(p.effective, d) -> p.default
       [] matches_date_range(p.effective, d) /\ exceptional # <<>> -> exceptional[1]
       [] matches_date_range(p.effective, d) /\ exceptional = <<>> /\ weekly # <<>> -> weekly[1]
       [] OTHER -> p.default

-----------------------------------------------------------------------------
ScheduleInit ==
  /\ season \in Seasons /\ plan \in season.plans
  /\ date = season.start /\ daytime = 0 /\ days = 0
  /\ cal_pv = FALSE /\ sched_pv = UNSET /\ last_value = <<>>
  /\ slots = [t \in ScheduleTargets |-> [value |-> UNSET, exists |-> TRUE, accepts |-> TRUE]]
  /\ s_engine = "running" /\ resolved = FALSE /\ behind = ScheduleTargets /\ meddled = 0

Later ==
  /\ \/ daytime + 1 \in TimesOfDay /\ daytime' = daytime + 1 /\ UNCHANGED <<date, days>>
     \/ /\ daytime + 1 \notin TimesOfDay /\ days < season.last_day
        /\ daytime' = 0 /\ date' = NextDate(date) /\ days' = days + 1
  /\ resolved' = FALSE
  /\ UNCHANGED <<season, plan, cal_pv, sched_pv, last_value, slots, s_engine, behind, meddled>>

(* The targets that take a write.                                          *)
Takes(t) == slots[t].exists /\ slots[t].accepts

(* Failures of a target are logged and the next one is written.            *)
Written == {t \in ScheduleTargets : Takes(t) /\ t \in {plan.targets[i] : i \in DOMAIN plan.targets}}

NewValue(value) == last_value # <<value>>

CalendarNow == calendar_evaluate(date)

(* _evaluate_cycle: calendars first; _apply_value remembers the value      *)
(* before anything is written.                                             *)
CycleSchedule ==
  /\ s_engine = "running" /\ plan.default # UNSET
  /\ cal_pv' = CalendarNow
  /\ LET value == evaluate_schedule(plan, date, daytime, CalendarNow) IN
     /\ sched_pv' = value
     /\ IF NewValue(value)
          THEN /\ last_value' = <<value>>
               /\ slots' = [t \in ScheduleTargets |->
                              IF t \in Written THEN [slots[t] EXCEPT !.value = value]
                                               ELSE slots[t]]
               /\ behind' = {t \in ScheduleTargets :
                               t \notin {plan.targets[i] : i \in DOMAIN plan.targets} \/ ~Takes(t)}
          ELSE UNCHANGED <<last_value, slots, behind>>
  /\ resolved' = TRUE
  /\ UNCHANGED <<season, plan, date, daytime, days, s_engine, meddled>>

(* A Schedule_Default that is None, as in a Schedule created without one,  *)
(* cannot be read: nothing catches the error, and the loop ends for good.  *)
CycleScheduleFails ==
  /\ s_engine = "running" /\ plan.default = UNSET
  /\ cal_pv' = CalendarNow /\ s_engine' = "failed" /\ resolved' = FALSE
  /\ UNCHANGED <<season, plan, date, daytime, days, sched_pv, last_value, slots,
                 behind, meddled>>

StopSchedule ==
  /\ s_engine = "running" /\ meddled < season.meddling /\ meddled' = meddled + 1
  /\ s_engine' = "stopped" /\ last_value' = <<>> /\ resolved' = FALSE
  /\ UNCHANGED <<season, plan, date, daytime, days, cal_pv, sched_pv, slots, behind>>

StartSchedule ==
  /\ s_engine = "stopped" /\ s_engine' = "running" /\ resolved' = FALSE
  /\ UNCHANGED <<season, plan, date, daytime, days, cal_pv, sched_pv, last_value, slots,
                 behind, meddled>>

(* The Schedule is written: another of the plans.                          *)
WritePlan ==
  /\ meddled < season.meddling /\ meddled' = meddled + 1
  /\ plan' \in season.plans \ {plan} /\ resolved' = FALSE
  /\ behind' = behind \cup (ScheduleTargets \ {plan.targets[i] : i \in DOMAIN plan.targets})
  /\ UNCHANGED <<season, date, daytime, days, cal_pv, sched_pv, last_value, slots, s_engine>>

(* A target is commanded by someone else, starts or stops to take writes,  *)
(* is deleted, or created again.                                           *)
Meddle(t) ==
  /\ meddled < season.meddling /\ meddled' = meddled + 1
  /\ \/ /\ slots[t].exists
        /\ \E v \in Commands \cup {UNSET} : slots' = [slots EXCEPT ![t].value = v]
        /\ behind' = behind \cup {t}
     \/ slots' = [slots EXCEPT ![t].accepts = ~@] /\ behind' = behind
     \/ /\ slots' = [slots EXCEPT ![t].exists = ~@, ![t].value = UNSET]
        /\ behind' = behind \cup {t}
  /\ resolved' = FALSE
  /\ UNCHANGED <<season, plan, date, daytime, days, cal_pv, sched_pv, last_value, s_engine>>

ScheduleNext ==
  \/ Later \/ CycleSchedule \/ CycleScheduleFails \/ StopSchedule \/ StartSchedule
  \/ WritePlan \/ \E t \in ScheduleTargets : Meddle(t)

-----------------------------------------------------------------------------
ScheduleTypeOK ==
  /\ season \in Seasons /\ plan \in season.plans /\ daytime \in TimesOfDay
  /\ date.month \in 1 .. 12 /\ date.day \in 1 .. LastDay(date) /\ date.dow \in 1 .. 7
  /\ cal_pv \in BOOLEAN /\ Len(last_value) <= 1 /\ s_engine \in {"running", "stopped", "failed"}
  /\ days \in 0 .. season.last_day /\ behind \subseteq ScheduleTargets
  /\ \A t \in ScheduleTargets : ~slots[t].exists => slots[t].value = UNSET

(* What a calendar entry means, told by walking through the calendar: the  *)
(* last day is followed by another month, the last seven days by another   *)
(* month a week later, and week n of a month is that of the n-th time its  *)
(* weekday comes round.                                                    *)
DaysAfter(n, d) ==
  LET after[k \in 0 .. 7] == IF k = 0 THEN d ELSE NextDate(after[k - 1]) IN after[n]

\* The number of a day in a calendar of twelve months of thirty-one days.
Ordinal(d) == d.year * 372 + d.month * 31 + d.day

EntryMeans(e, d) ==
  CASE e.kind = "date" ->
         /\ e.year \in {ANY, d.year} /\ e.dow \in {ANY, d.dow}
         /\ e.month \in {ANY, d.month, 14 - (d.month % 2)}
         /\ IF e.day = 32 THEN DaysAfter(1, d).day = 1
              ELSE e.day \in {ANY, d.day, 34 - (d.day % 2)}
    [] e.kind = "range" ->
         /\ e.from.year = ANY \/ Ordinal(e.from) <= Ordinal(d)
         /\ e.to.year = ANY \/ Ordinal(d) <= Ordinal(e.to)
    [] e.kind = "week_n_day" ->
         /\ e.dow \in {ANY, d.dow}
         /\ e.month \in {ANY, d.month, 14 - (d.month % 2)}
         /\ CASE e.week = ANY -> TRUE
              [] e.week = 6 -> DaysAfter(7, d).month # d.month
              [] OTHER -> d.day \in 7 * e.week - 6 .. 7 * e.week

(* After a cycle the Calendar tells whether its entries mean today.        *)
CalendarMeansToday ==
  resolved => cal_pv = (\E e \in CalendarEntries : EntryMeans(e, date))

(* The exceptions that apply and have a value already.                     *)
Active ==
  {i \in DOMAIN plan.exceptions :
     /\ IF plan.exceptions[i].period.kind = "calendar"
          THEN \E e \in CalendarEntries : EntryMeans(e, date)
          ELSE EntryMeans(plan.exceptions[i].period, date)
     /\ resolve_time_values(plan.exceptions[i].values, daytime) # <<>>}

(* The entries of a day's list whose time has come.                        *)
Past(tvs) == {i \in DOMAIN tvs : TimeOf(tvs[i]) <= daytime}

(* After a cycle within the effective period the Schedule shows the value  *)
(* of the active exception of the highest priority, the first of those;    *)
(* without one the latest of the day of the week, the first of those; else,*)
(* and outside the period, the default.  Exceptions by Calendar are of     *)
(* today.                                                                  *)
HighestExceptionInForce ==
  resolved =>
    LET week == plan.weekly[date.dow]
        effective == EntryMeans(plan.effective, date)
    IN
    /\ effective => \A i \in Active :
         (\A j \in Active : \/ plan.exceptions[i].priority < plan.exceptions[j].priority
                            \/ plan.exceptions[i].priority = plan.exceptions[j].priority /\ i <= j)
           => sched_pv = resolve_time_values(plan.exceptions[i].values, daytime)[1]
    /\ effective /\ Active = {} =>
         \A i \in Past(week) :
           (\A j \in Past(week) : \/ TimeOf(week[j]) < TimeOf(week[i])
                                  \/ TimeOf(week[j]) = TimeOf(week[i]) /\ i <= j)
             => sched_pv = week[i].value
    /\ (effective => Active = {} /\ Past(week) = {}) => sched_pv = plan.default

(* After a cycle every target holds what the Schedule shows, but for those *)
(* that did not take the write when the value changed, joined later, or    *)
(* were written by others since: a refused write is not tried again.       *)
TargetsFollow ==
  resolved => \A t \in ScheduleTargets \ behind :
                slots[t].exists => slots[t].value = sched_pv

(* After a cycle the calendar, the schedule and its targets have the values*)
(* of the day and the time.                                                *)
ValueInForce ==
  ScheduleTypeOK /\ CalendarMeansToday /\ HighestExceptionInForce /\ TargetsFollow

-----------------------------------------------------------------------------
(* The settings that the proofs are about, which are those that devices    *)
(* have: dates of the calendar before the year 9999, date ranges whose     *)
(* bounds are dates or open, and priorities of 1 to 16.                    *)

RegularDate(d) ==
  /\ d \in [year : Nat \ {0}, month : 1 .. 12, day : 1 .. 31, dow : 1 .. 7]
  /\ d.day <= LastDay(d)

RegularBound(b) ==
  b.year = ANY \/ (b.year \in Nat /\ b.month \in 1 .. 12 /\ b.day \in 1 .. 31)

RegularEntry(e) ==
  \/ e.kind = "date"
  \/ e.kind = "range" /\ RegularBound(e.from) /\ RegularBound(e.to)
  \/ e.kind = "week_n_day" /\ e.week \in Nat

RegularValues(tvs) ==
  /\ Len(tvs) \in Nat /\ DOMAIN tvs = 1 .. Len(tvs)
  /\ \A i \in DOMAIN tvs : tvs[i].time \in Nat

RegularException(exc) ==
  /\ exc.priority \in 1 .. 16 /\ RegularValues(exc.values)
  /\ exc.period.kind = "calendar" \/ RegularEntry(exc.period)

RegularPlan(p) ==
  /\ p.effective.kind = "range" /\ RegularEntry(p.effective)
  /\ Len(p.exceptions) \in Nat /\ DOMAIN p.exceptions = 1 .. Len(p.exceptions)
  /\ \A i \in DOMAIN p.exceptions : RegularException(p.exceptions[i])
  /\ \A d \in 1 .. 7 : RegularValues(p.weekly[d])

RegularSeasons ==
  /\ \A s \in Seasons :
       /\ RegularDate(s.start) /\ s.last_day \in Nat /\ s.start.year + s.last_day < 9999
       /\ \A p \in s.plans : RegularPlan(p)
  /\ \A e \in CalendarEntries : RegularEntry(e)
=============================================================================
