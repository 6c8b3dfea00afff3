----------------------------- MODULE EventEngine -----------------------------
(***************************************************************************)
(* The event engine (app/event_engine.py) watching one object: every scan  *)
(* interval it reads the monitored value, runs the fault and the event     *)
(* algorithm, lets the event state machine apply the delays, and sends a   *)
(* notification of every transition to the recipients of the notification  *)
(* class.  The object is either one with intrinsic reporting, whose        *)
(* Event_State the engine keeps, or an Event Enrollment, whose is not.     *)
(*                                                                         *)
(* A cycle is one unit of time: the delays are given in scan intervals.    *)
(* acked_transitions of the state machine is left out: nothing reads it.   *)
(***************************************************************************)
EXTENDS Integers, Sequences, FiniteSets

CONSTANTS
  Watched,           \* [intrinsic, type, limit_enable, limits_listed, listed, recipients,
                     \*  delay, delay_normal, max_switched, max_stops] records:
                     \*  limits_listed is FALSE where Limit_Enable is a BitString, listed
                     \*  has what Event_Enable is ever written as; the last two are bounds
  MonitoredValues,   \* numbers standing for the values of the property
  HighLimit, LowLimit, Deadband,
  AlarmValues, LifeSafetyAlarmValues,
  PreviousValue,     \* previous_value, feedback_value of the parameters
  Increment,         \* cov_increment and notification_threshold
  Bitmask,           \* bitmask, selected_flags
  UNREADABLE, BAD,   \* no such property; a value no number can be made of
  NONE,              \* None
  MaxInFlight        \* bound: confirmed notifications not answered

ASSUME EventAssumption ==
  /\ MonitoredValues \subseteq Nat /\ PreviousValue \in Nat /\ Increment \in Nat
  /\ {HighLimit, LowLimit, Deadband} \subseteq Nat
  /\ \A w \in Watched : w.delay \in Nat /\ w.delay_normal \in Nat
  /\ LowLimit + Deadband < HighLimit
  /\ AlarmValues \subseteq Nat /\ LifeSafetyAlarmValues \subseteq Nat
  /\ {UNREADABLE, BAD} \cap MonitoredValues = {} /\ UNREADABLE # BAD
  /\ \A w \in Watched : IsFiniteSet(w.recipients) /\ w.listed \subseteq BOOLEAN

VARIABLES
  watched,           \* the object and its Recipient_List, which do not change
  value,             \* the monitored value, or UNREADABLE, or BAD
  switches,          \* the properties that steer detection
  shown,             \* Event_State of the object
  context,           \* its EventStateMachine in _contexts, or NONE
  engine,            \* "stopped", "running", or "failed": the loop has raised
  in_flight,         \* confirmed notifications of _pending_confirmed_tasks
  heard,             \* the last to_state each recipient was notified of
  told,              \* history: to_state of the last notification sent
  past,              \* history: what the last cycles called for
  upset,             \* history: events since the last notification that void a claim
  stops              \* stops of the engine and replacements of the object

event_vars == <<watched, value, switches, shown, context, engine, in_flight,
                heard, told, past, upset, stops>>

EventStates == {"normal", "fault", "offnormal", "high_limit", "low_limit",
                "life_safety_alarm"}

Transitions == {"to_offnormal", "to_fault", "to_normal"}

ASSUME NoneAssumption ==
  /\ NONE \notin EventStates
  /\ NONE \notin [state : EventStates, pending : EventStates \cup {NONE}, age : Nat,
                  enable : [Transitions -> BOOLEAN]]

(* _transition_index.                                                      *)
TransitionOf(state) ==
  CASE state = "fault" -> "to_fault" [] state = "normal" -> "to_normal"
    [] OTHER -> "to_offnormal"

-----------------------------------------------------------------------------
(* The event algorithms: the state a value calls for, or NONE.             *)

evaluate_out_of_range(v, high, low, deadband, state) ==
  CASE v > high -> "high_limit"
    [] v < low  -> "low_limit"
    [] state = "high_limit" /\ low <= v /\ v <= high /\ v >= high - deadband -> "high_limit"
    [] state = "low_limit" /\ low <= v /\ v <= high /\ v <= low + deadband -> "low_limit"
    [] OTHER -> NONE

evaluate_unsigned_range(v) ==
  CASE v > HighLimit -> "high_limit" [] v < LowLimit -> "low_limit" [] OTHER -> NONE

(* The setpoint lies between the limits, at equal distance or not.         *)
evaluate_floating_limit(v, setpoint, high_diff, low_diff, state) ==
  evaluate_out_of_range(v, setpoint + high_diff, setpoint - low_diff, Deadband, state)

Offnormal(condition) == IF condition THEN "offnormal" ELSE NONE

(* Also evaluate_change_of_characterstring, _timer and evaluate_access_event.*)
evaluate_change_of_state(v) == Offnormal(v \in AlarmValues)

evaluate_change_of_life_safety(v) ==
  IF v \in LifeSafetyAlarmValues THEN "life_safety_alarm"
    ELSE evaluate_change_of_state(v)

Bit(v, i) == (v \div 2^i) % 2

Bits == 0 .. 3

evaluate_change_of_bitstring(v) ==
  Offnormal(\E a \in AlarmValues :
              \A i \in Bits : Bit(a, i) = Bit(v, i) * Bit(Bitmask, i))

evaluate_change_of_status_flags(v) ==
  Offnormal(\E i \in Bits : Bit(Bitmask, i) = 1 /\ Bit(v, i) # Bit(PreviousValue, i))

(* The previous value is a parameter: the engine never brings it up to date.*)
evaluate_change_of_value(v) ==
  Offnormal(v - PreviousValue >= Increment \/ PreviousValue - v >= Increment)

(* NO_FAULT_DETECTED is 0.                                                 *)
evaluate_change_of_reliability(v) == Offnormal(v # 0)

(* Also evaluate_change_of_discrete_value.                                 *)
evaluate_command_failure(v) == Offnormal(v # PreviousValue)

evaluate_buffer_ready(v) == Offnormal(v - PreviousValue >= Increment)

RangeTypes == {"out_of_range", "double_out_of_range", "signed_out_of_range",
               "unsigned_out_of_range", "floating_limit"}

AlarmValueTypes == {"change_of_state", "change_of_characterstring",
                    "change_of_timer", "access_event"}

(* Types whose algorithm makes a number, or a list, of the value first and *)
(* raises when it cannot.                                                  *)
ConvertingTypes ==
  RangeTypes \cup {"unsigned_range", "change_of_value", "buffer_ready", "access_event",
                   "change_of_life_safety", "change_of_bitstring", "change_of_timer",
                   "change_of_status_flags", "change_of_reliability"}

(* _limit_enable_bits: a BitString, of which the property is declared to   *)
(* be, is as good as none.                                                 *)
limit_enable_bits ==
  IF watched.limits_listed THEN watched.limit_enable ELSE <<TRUE, TRUE>>

(* _run_intrinsic_algorithm: a limit that is not enabled is out of reach.  *)
run_intrinsic_algorithm(v, state) ==
  CASE watched.type = "out_of_range" ->
         evaluate_out_of_range(v,
           IF limit_enable_bits[1] THEN HighLimit ELSE v + Deadband + 1,
           IF limit_enable_bits[2] THEN LowLimit ELSE v - Deadband - 1, Deadband, state)
    [] watched.type = "floating_limit" ->
         evaluate_floating_limit(v, LowLimit + (HighLimit - LowLimit) \div 2,
           (HighLimit - LowLimit) \div 2, (HighLimit - LowLimit) \div 2, state)
    [] watched.type = "change_of_state" -> evaluate_change_of_state(v)
    [] watched.type = "unsigned_range" -> evaluate_unsigned_range(v)
    [] watched.type = "change_of_life_safety" -> evaluate_change_of_life_safety(v)
    [] OTHER -> NONE

(* _run_event_algorithm; a vendor's callback of an extended type is taken  *)
(* to look for alarm values.                                               *)
run_event_algorithm(v, state) ==
  CASE watched.type = "floating_limit" ->
         evaluate_floating_limit(v, PreviousValue, HighLimit - PreviousValue,
                                 PreviousValue - LowLimit, state)
    [] watched.type \in RangeTypes \ {"floating_limit"} ->
         evaluate_out_of_range(v, HighLimit, LowLimit, Deadband, state)
    [] watched.type = "unsigned_range" -> evaluate_unsigned_range(v)
    [] watched.type \in AlarmValueTypes \cup {"extended"} -> evaluate_change_of_state(v)
    [] watched.type = "change_of_life_safety" -> evaluate_change_of_life_safety(v)
    [] watched.type = "change_of_bitstring" -> evaluate_change_of_bitstring(v)
    [] watched.type = "change_of_status_flags" -> evaluate_change_of_status_flags(v)
    [] watched.type = "change_of_value" -> evaluate_change_of_value(v)
    [] watched.type = "change_of_reliability" -> evaluate_change_of_reliability(v)
    [] watched.type \in {"command_failure", "change_of_discrete_value"} ->
         evaluate_command_failure(v)
    [] watched.type = "buffer_ready" -> evaluate_buffer_ready(v)
    [] OTHER -> NONE

(* Event_Algorithm_Inhibit makes the result NORMAL.                        *)
event_result(v, state) ==
  IF switches.algorithm_inhibit THEN "normal"
    ELSE LET r == IF watched.intrinsic THEN run_intrinsic_algorithm(v, state)
                                       ELSE run_event_algorithm(v, state)
         IN IF r = NONE THEN "normal" ELSE r

(* Reliability counts as a fault unless its evaluation is inhibited.       *)
fault_result == switches.fault /\ ~switches.reliability_inhibit

-----------------------------------------------------------------------------
(* EventStateMachine: [state, pending, age, enable], the age being the     *)
(* time since pending was set and enable its event_enable.  evaluate gives *)
(* the machine after the cycle; a state that differs is the transition.    *)

AllEnabled == [t \in Transitions |-> TRUE]

NewMachine == [state |-> "normal", pending |-> NONE, age |-> 0, enable |-> AllEnabled]

Idle(sm) == [sm EXCEPT !.pending = NONE, !.age = 0]

transition(sm, target) == [sm EXCEPT !.state = target, !.pending = NONE, !.age = 0]

Delay(target) == IF target = "normal" THEN watched.delay_normal ELSE watched.delay

apply_delay(sm, target) ==
  IF sm.pending # target
    THEN IF Delay(target) <= 0 THEN transition(sm, target)
                               ELSE [sm EXCEPT !.pending = target, !.age = 0]
    ELSE IF sm.age >= Delay(target) THEN transition(sm, target) ELSE sm

(* A mutant that keeps what is pending when the condition has gone.        *)
evaluate_keeps_pending(sm, result) ==
  CASE fault_result -> IF sm.state # "fault" /\ sm.enable["to_fault"]
                         THEN transition(sm, "fault") ELSE sm
    [] OTHER -> IF sm.state # result /\ sm.enable[TransitionOf(result)]
                  THEN apply_delay(sm, result) ELSE sm

(* A mutant that never leaves the state of fault for an alarm.             *)
evaluate_fault_sticks(sm, result) ==
  CASE fault_result -> IF sm.state # "fault" /\ sm.enable["to_fault"]
                         THEN transition(sm, "fault") ELSE sm
    [] ~fault_result /\ sm.state = "fault" /\ result # "normal" -> Idle(sm)
    [] OTHER -> IF sm.state # result /\ sm.enable[TransitionOf(result)]
                  THEN apply_delay(sm, result) ELSE Idle(sm)

(* A fault comes first and without delay; where it is not reported, and    *)
(* while it lasts, what is pending stays.  Leaving the state of fault with *)
(* the transition disabled keeps only a pending state that is the target.  *)
evaluate(sm, result) ==
  CASE fault_result -> IF sm.state # "fault" /\ sm.enable["to_fault"]
                         THEN transition(sm, "fault") ELSE sm
    [] ~fault_result /\ sm.state = "fault" ->
         IF sm.enable[TransitionOf(result)] THEN apply_delay(sm, result)
           ELSE IF sm.pending # result THEN Idle(sm) ELSE sm
    [] OTHER -> IF sm.state # result /\ sm.enable[TransitionOf(result)]
                  THEN apply_delay(sm, result) ELSE Idle(sm)

-----------------------------------------------------------------------------
Usual ==
  [detection |-> TRUE, algorithm_inhibit |-> FALSE, fault |-> FALSE,
   reliability_inhibit |-> FALSE, event_enable |-> AllEnabled, listed |-> TRUE]

(* A new object: its Event_Enable is a list, or the declared BitString.    *)
UsualSwitches == {[Usual EXCEPT !.listed = l] : l \in watched.listed}

EventInit ==
  /\ watched \in Watched /\ value \in MonitoredValues
  /\ switches \in UsualSwitches
  /\ shown = "normal" /\ context = NONE /\ engine = "running"
  /\ in_flight = <<>> /\ told = "normal" /\ past = <<>> /\ upset = {}
  /\ heard = [r \in watched.recipients |-> "normal"] /\ stops = 0

(* The monitored value changes, or can no longer be read.                  *)
ChangeValue ==
  /\ value' \in MonitoredValues \cup {UNREADABLE, BAD}
  /\ value' # value
  /\ UNCHANGED <<watched, switches, shown, context, engine, in_flight, heard,
                 told, past, upset, stops>>

(* Event_Enable is written, as one of what it is ever written as.          *)
EnableWritten(s, t) ==
  {[s EXCEPT !.event_enable = [@ EXCEPT ![t] = ~@], !.listed = l] : l \in watched.listed}

Flipped(s) ==
  {[s EXCEPT !.detection = ~@], [s EXCEPT !.algorithm_inhibit = ~@],
   [s EXCEPT !.fault = ~@], [s EXCEPT !.reliability_inhibit = ~@]}
  \cup UNION {EnableWritten(s, t) : t \in Transitions}

Switched(s) ==
  Cardinality({f \in DOMAIN s \ {"event_enable", "listed"} : s[f] # Usual[f]})
    + Cardinality({t \in Transitions : ~s.event_enable[t]})

(* A property that steers detection is written: Event_Enable as a list, or *)
(* as a BitString, which is what a client's write makes of it.             *)
WriteSwitch ==
  /\ switches' \in Flipped(switches) /\ Switched(switches') <= watched.max_switched
  /\ UNCHANGED <<watched, value, shown, context, engine, in_flight, heard,
                 told, past, upset, stops>>

(* _sync_state_machine and _sync_intrinsic_state_machine: the machine takes*)
(* over an Event_Enable that is a list, and keeps its own where it is a    *)
(* BitString; a machine in NORMAL takes over Event_State of an object with *)
(* intrinsic reporting.                                                    *)
Synced ==
  LET sm == IF context = NONE THEN NewMachine ELSE context
  IN [sm EXCEPT !.state = IF watched.intrinsic /\ @ = "normal" THEN shown ELSE @,
                !.enable = IF switches.listed THEN switches.event_enable ELSE @]

LongestDelay == IF watched.delay > watched.delay_normal THEN watched.delay ELSE watched.delay_normal

Aged(sm) ==
  IF sm # NONE /\ sm.pending # NONE /\ sm.age < LongestDelay
    THEN [sm EXCEPT !.age = @ + 1] ELSE sm

(* A mutant that takes the flags in another order.                         *)
recipient_matches_swapped(r, to, open) ==
  (IF to = "fault" THEN "to_normal" ELSE IF to = "normal" THEN "to_fault"
     ELSE "to_offnormal") \in r.transitions /\ (r.windowed => r \in open)

(* _recipient_matches: the transition is wanted and the window is open.    *)
recipient_matches(r, to, open) ==
  TransitionOf(to) \in r.transitions /\ (r.windowed => r \in open)

(* Only _dispatch_intrinsic_notification writes Event_State.               *)
Shows(to) == IF watched.intrinsic THEN to ELSE shown

(* _route_notification.  With no recipients at all the notification is     *)
(* broadcast.  A confirmed one is a task of its own that ends when it is   *)
(* answered or given up; several may be under way.                         *)
Notify(to, open) ==
  LET matching == {r \in watched.recipients : recipient_matches(r, to, open)}
      tasks == {r \in matching : r.confirmed}
      queued == CHOOSE s \in UNION {[1 .. n -> tasks] : n \in {Cardinality(tasks)}} :
                  \A r \in tasks : \E i \in DOMAIN s : s[i] = r
  IN /\ heard' = [r \in watched.recipients |-> IF r \in matching \ tasks THEN to ELSE heard[r]]
     /\ Len(in_flight) + Cardinality(tasks) <= MaxInFlight
     /\ in_flight' = in_flight \o [i \in DOMAIN queued |-> [to |-> to, dest |-> queued[i]]]
     /\ told' = to
     /\ upset' = IF in_flight = <<>> THEN {} ELSE {"overlap"}
     /\ shown' = Shows(to)

Remember(entry) ==
  past' = LET h == Append(past, entry)
          IN IF Len(h) > LongestDelay + 1 THEN Tail(h) ELSE h

(* Detection is off or the value cannot be read.  The machine is looked up *)
(* and synchronised first where detection is on.                           *)
SkipCycle ==
  /\ engine = "running" /\ (~switches.detection \/ value = UNREADABLE)
  /\ context' = Aged(IF switches.detection THEN Synced ELSE context)
  /\ Remember("skipped")
  /\ UNCHANGED <<watched, value, switches, shown, engine, in_flight, heard,
                 told, upset, stops>>

Convertible == value = BAD => watched.type \notin ConvertingTypes

(* The algorithm raises: nothing catches it, and the loop ends for good.   *)
FailCycle ==
  /\ engine = "running" /\ switches.detection /\ value # UNREADABLE /\ ~Convertible
  /\ engine' = "failed" /\ context' = Aged(Synced)
  /\ Remember("skipped")
  /\ UNCHANGED <<watched, value, switches, shown, in_flight, heard, told,
                 upset, stops>>

(* A value that is not of the type is equal to no value of the parameters. *)
ResultNow(sm) ==
  IF value # BAD THEN event_result(value, sm.state)
    ELSE IF switches.algorithm_inhibit
              \/ watched.type \in AlarmValueTypes \cup {"extended", "unknown"}
           THEN "normal" ELSE "offnormal"

EvaluateCycle ==
  /\ engine = "running" /\ switches.detection /\ value # UNREADABLE /\ Convertible
  /\ LET sm == Aged(Synced)
         after == evaluate(sm, ResultNow(sm))
     IN /\ context' = after
        /\ Remember(IF fault_result THEN "skipped" ELSE ResultNow(sm))
        /\ IF after.state = sm.state
             THEN UNCHANGED <<shown, heard, in_flight, told, upset>>
             ELSE \E open \in SUBSET {r \in watched.recipients : r.windowed} :
                    Notify(after.state, open)
  /\ UNCHANGED <<watched, value, switches, engine, stops>>

(* A confirmed notification is received, or given up.                      *)
Answered ==
  \E i \in DOMAIN in_flight :
    LET n == in_flight[i] IN
    /\ in_flight' = [j \in 1 .. Len(in_flight) - 1 |->
                       IF j < i THEN in_flight[j] ELSE in_flight[j + 1]]
    /\ \/ heard' = [heard EXCEPT ![n.dest] = n.to] /\ upset' = upset
       \/ heard' = heard /\ upset' = upset \cup {"lost"}
  /\ UNCHANGED <<watched, value, switches, shown, context, engine, told, past,
                 stops>>

(* stop cancels the confirmed notifications under way and forgets the      *)
(* state machines.  When the loop has failed it raises what the loop       *)
(* raised, and leaves everything as it is.                                 *)
Stop ==
  /\ engine = "running" /\ stops < watched.max_stops /\ stops' = stops + 1
  /\ engine' = "stopped" /\ context' = NONE /\ in_flight' = <<>> /\ past' = <<>>
  /\ upset' = upset \cup (IF in_flight = <<>> THEN {"stop"} ELSE {"stop", "lost"})
  /\ UNCHANGED <<watched, value, switches, shown, heard, told>>

(* start does nothing while there is a task, even one that has failed.     *)
Start ==
  /\ engine = "stopped" /\ engine' = "running"
  /\ UNCHANGED <<watched, value, switches, shown, context, in_flight, heard,
                 told, past, upset, stops>>

(* The object is deleted and another created with its identifier: the      *)
(* engine goes on with the state machine of the first.                     *)
Replace ==
  /\ stops < watched.max_stops /\ stops' = stops + 1
  /\ value' \in MonitoredValues /\ shown' = "normal"
  /\ switches' \in UsualSwitches
  /\ upset' = upset \cup {"replaced"}
  /\ UNCHANGED <<watched, context, engine, in_flight, heard, told, past>>

CycleEvents == EvaluateCycle \/ SkipCycle \/ FailCycle

EventNext ==
  \/ ChangeValue \/ WriteSwitch \/ CycleEvents \/ Answered \/ Stop \/ Start \/ Replace

-----------------------------------------------------------------------------
EventSwitches ==
  [detection : BOOLEAN, algorithm_inhibit : BOOLEAN, fault : BOOLEAN,
   reliability_inhibit : BOOLEAN, event_enable : [Transitions -> BOOLEAN],
   listed : BOOLEAN]

EventTypeOK ==
  /\ watched \in Watched
  /\ value \in MonitoredValues \cup {UNREADABLE, BAD}
  /\ switches \in EventSwitches /\ shown \in EventStates /\ told \in EventStates
  /\ context \in {NONE} \cup [state : EventStates, pending : EventStates \cup {NONE},
                              age : 0 .. LongestDelay, enable : [Transitions -> BOOLEAN]]
  /\ context # NONE => /\ context.pending # context.state
                       /\ context.pending = NONE => context.age = 0
  /\ engine \in {"stopped", "running", "failed"}
  /\ heard \in [watched.recipients -> EventStates]
  /\ \A i \in DOMAIN in_flight : in_flight[i].dest \in watched.recipients

(* Event_State of an object with intrinsic reporting is the to-state of    *)
(* the last notification, and the engine agrees, also after it was stopped *)
(* and started: only an object put in place of another (contexts are kept  *)
(* by identifier) shows a state nobody was told of.                        *)
ShownAsTold ==
  watched.intrinsic /\ "replaced" \notin upset =>
    /\ shown = told
    /\ context # NONE => context.state = told \/ context.state = "normal"

(* An unconfirmed recipient of every transition has heard the last one, and*)
(* so has a confirmed one once its answers are in, unless one was lost, or *)
(* two were under way together and may have arrived in either order.       *)
RecipientsHeard ==
  \A r \in watched.recipients :
    /\ (r.transitions = Transitions /\ ~r.windowed /\ ~r.confirmed) => heard[r] = told
    /\ (r.transitions = Transitions /\ ~r.windowed /\ r.confirmed
         /\ in_flight = <<>> /\ upset \cap {"lost", "overlap"} = {}) => heard[r] = told
    /\ TransitionOf(heard[r]) \in r.transitions \cup {"to_normal"}

(* A notification continues where the last one ended: its from-state is the*)
(* to-state of the one before.  An enrollment whose engine was restarted   *)
(* starts again from NORMAL, since its Event_State is not kept.            *)
ChainUnbroken ==
  [][EvaluateCycle /\ context'.state # Synced.state =>
       \/ Synced.state = told
       \/ ~watched.intrinsic /\ "stop" \in upset
       \/ "replaced" \in upset]_event_vars

(* A transition is made when every cycle of its whole delay called for it, *)
(* not counting cycles that were skipped or found a fault: the time delay  *)
(* runs on in those.  A fault needs no delay and no patience.              *)
DelayHonoured ==
  [][EvaluateCycle /\ context'.state # Synced.state /\ context'.state # "fault" =>
       LET to == context'.state
       IN /\ Len(past') > Delay(to)
          /\ \A i \in Len(past') - Delay(to) .. Len(past') : past'[i] \in {to, "skipped"}
    ]_event_vars

(* No return to NORMAL within the deadband, no alarm within the limits, and*)
(* none beyond a limit that Limit_Enable, being a list, does not enable; a *)
(* BitString, its declared type, does not keep the engine from any.        *)
NoChatter ==
  [][EvaluateCycle /\ told' # told /\ value # BAD /\ watched.type = "out_of_range"
     /\ ~switches.algorithm_inhibit /\ told' # "fault" =>
       /\ told' = "high_limit" => \/ value > HighLimit
                                  \/ told = "fault" /\ value >= HighLimit - Deadband
       /\ told' = "low_limit" => \/ value < LowLimit
                                 \/ told = "fault" /\ value <= LowLimit + Deadband
       /\ told' = "normal" /\ told = "high_limit" =>
            \/ value < HighLimit - Deadband
            \/ watched.limits_listed /\ ~watched.limit_enable[1]
            \/ {"stop", "replaced"} \cap upset # {}
       /\ watched.intrinsic /\ watched.limits_listed =>
            /\ told' = "high_limit" => watched.limit_enable[1]
            /\ told' = "low_limit" => watched.limit_enable[2]
    ]_event_vars

(* What the engine takes Event_Enable for: of a BitString it takes nothing,*)
(* and goes by the last list.                                              *)
Enabled(t) ==
  IF switches.listed THEN switches.event_enable[t] ELSE context # NONE => context.enable[t]

(* No transition is made that Event_Enable, being a list, disables, nor one*)
(* that the last list has disabled before a BitString took its place:      *)
(* while it is one, its declared type, what it says is not heard of.       *)
EnabledAsListed ==
  [][EvaluateCycle /\ context'.state # Synced.state =>
       Enabled(TransitionOf(context'.state))]_event_vars

(* Detection is on, every transition enabled, the value readable, and the  *)
(* engine knows what it told: that of an enrollment does not when it has   *)
(* been restarted since, nor that of an object put in place of another.    *)
Detecting ==
  /\ "replaced" \notin upset /\ (watched.intrinsic \/ "stop" \notin upset)
  /\ engine = "running" /\ switches.detection /\ value \in MonitoredValues
  /\ \A t \in Transitions : Enabled(t)

Demands(state) ==
  IF fault_result THEN state = "fault"
    ELSE state # "fault" /\ \A s \in EventStates : event_result(value, s) = state

(* Liveness: a state that the object goes on calling for is the one that   *)
(* was notified in the end.                                                *)
ConditionReported ==
  \A state \in EventStates :
    <>[](Detecting /\ Demands(state)) => <>[](told = state)

(* What was notified, what the object shows and what the recipients have   *)
(* heard is the same.                                                      *)
EventsShown == EventTypeOK /\ ShownAsTold /\ RecipientsHeard

(* What a notification says happened did: it continues the last one, its   *)
(* state lasted for the delay, no limit was passed to and fro, and it was  *)
(* enabled.                                                                *)
EventsWarranted == ChainUnbroken /\ DelayHonoured /\ NoChatter /\ EnabledAsListed
=============================================================================
