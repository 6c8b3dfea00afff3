------------------------------- MODULE Engines -------------------------------
(***************************************************************************)
(* The event engine, the trend log engine, the schedule engine, the audit  *)
(* manager and the maintenance services of one application, one of them at *)
(* work in a behaviour.                                                    *)
(* They share no state but the object database, and what the others would  *)
(* do there is already among the actions of each: ChangeValue, WriteSwitch *)
(* and Replace of EventEngine, WriteTarget and ReplaceTarget of TrendLog,  *)
(* Meddle and WritePlan of Schedule, Operation of AuditLog, Meddling of    *)
(* Maintenance.  The parts at rest stay in one of their initial states.    *)
(***************************************************************************)
EXTENDS EventEngine, TrendLog, Schedule, AuditLog, Maintenance

VARIABLE part        \* the part that is at work

engines_vars == <<part, event_vars, trend_vars, schedule_vars, audit_vars, maintenance_vars>>

AtRest(p, settings, current_setting) ==
  part # p => current_setting = CHOOSE s \in settings : TRUE

EnginesInit ==
  /\ part \in {"event", "trend_log", "schedule", "audit", "maintenance"}
  /\ EventInit /\ AtRest("event", Watched, watched) /\ AtRest("event", MonitoredValues, value)
  /\ AtRest("event", UsualSwitches, switches)
  /\ TrendInit /\ AtRest("trend_log", LogSettings, setting)
  /\ ScheduleInit /\ AtRest("schedule", Seasons, season)
  /\ AtRest("schedule", season.plans, plan)
  /\ AuditInit /\ AtRest("audit", AuditSettings, audit_setting)
  /\ MaintenanceInit /\ AtRest("maintenance", MaintenanceSettings, maintained)

EventPart ==
  part = "event" /\ EventNext /\ UNCHANGED <<part, trend_vars, schedule_vars, audit_vars, maintenance_vars>>

TrendPart ==
  part = "trend_log" /\ TrendNext /\ UNCHANGED <<part, event_vars, schedule_vars, audit_vars, maintenance_vars>>

SchedulePart ==
  part = "schedule" /\ ScheduleNext /\ UNCHANGED <<part, event_vars, trend_vars, audit_vars, maintenance_vars>>

AuditPart ==
  part = "audit" /\ AuditNext /\ UNCHANGED <<part, event_vars, trend_vars, schedule_vars, maintenance_vars>>

Maintained ==
  part = "maintenance" /\ MaintenanceNext
    /\ UNCHANGED <<part, event_vars, trend_vars, schedule_vars, audit_vars>>

EnginesNext == EventPart \/ TrendPart \/ SchedulePart \/ AuditPart \/ Maintained

(* The loops of the engines go on for ever, and a confirmed notification is*)
(* answered or given up in the end.                                        *)
EnginesSpec ==
  /\ EnginesInit /\ [][EnginesNext]_engines_vars
  /\ WF_engines_vars(part = "event" /\ CycleEvents
                       /\ UNCHANGED <<part, trend_vars, schedule_vars, audit_vars, maintenance_vars>>)
  /\ WF_engines_vars(part = "event" /\ Answered
                       /\ UNCHANGED <<part, trend_vars, schedule_vars, audit_vars, maintenance_vars>>)
  /\ WF_engines_vars(part = "trend_log" /\ CycleTrend
                       /\ UNCHANGED <<part, event_vars, schedule_vars, audit_vars, maintenance_vars>>)

(* ConditionReported and CovSubscribed, of the part that is at work.       *)
EnginesCatchUp ==
  /\ part = "event" => ConditionReported
  /\ part = "trend_log" => CovSubscribed
=============================================================================
