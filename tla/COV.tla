---------------------------------- MODULE COV ----------------------------------
(***************************************************************************)
(* Change-of-value reporting of a server device: the COVManager            *)
(* (app/cov.py) together with the service handlers (app/server.py) that    *)
(* write properties, create and delete objects and subscribe, over the     *)
(* object database they share.                                             *)
(*                                                                         *)
(* Handlers are coroutines, but none of them waits between its first and   *)
(* its last change of this state, so each is one action.  What the         *)
(* event loop does interleave with them are the expiry timers and the      *)
(* writes that do not come through the handlers: the schedule engine, the  *)
(* event engine and application code.                                      *)
(*                                                                         *)
(* Object-level and property-level subscriptions live in two dictionaries  *)
(* with the same operations; here the key of an object-level one has       *)
(* prop = "object".  A notification is not modelled as a message: sending  *)
(* one is what sets "last", the value last reported to the subscriber.     *)
(***************************************************************************)
EXTENDS ObjectDatabase, SequencesExt

CONSTANTS
  Subscribers,       \* pairs of a device address and a process identifier
  MonitoredProps,    \* properties a property-level subscription may name
  MaxSubscriptions,  \* max_subscriptions = max_property_subscriptions
  MaxRevision,       \* bound on Database_Revision
  InitialObjects,    \* the objects the application starts with
  CreateRequests,    \* records [oid, name, pv]
  Writes,            \* what WriteProperty may ask for
  WriteLists,        \* what WritePropertyMultiple may ask for
  LocalWrites,       \* what the engines and the application write
  Increments,        \* cov_increment of a SubscribeCOVProperty
  SubscribeLists     \* what SubscribeCOVPropertyMultiple may ask for:
                     \* sequences of references [key, increment]

Scopes == {"object"} \cup MonitoredProps

Keys == [who : Subscribers, oid : ObjectIds, prop : Scopes]

(* What a write may carry, by the datatype of the property.                *)
IsWrite(w) ==
  /\ w.oid \in ObjectIds /\ w.prop \in Props
  /\ w.priority \in Nat \cup {NULL}
  /\ CASE w.prop = "object_name"    -> w.value \in Names
       [] w.prop = "out_of_service" -> w.value \in BOOLEAN
       [] OTHER                     -> w.value \in Values \cup {NULL}

ASSUME COVAssumption ==
  /\ MonitoredProps \subseteq {"present_value", "status_flags"}
  /\ MaxSubscriptions \in Nat /\ MaxRevision \in Nat
  /\ \A w \in Writes \cup LocalWrites : IsWrite(w)
  /\ \A ws \in WriteLists : ws \in Seq({ws[i] : i \in DOMAIN ws})
  /\ \A ws \in WriteLists : \A i \in DOMAIN ws : IsWrite(ws[i])
  /\ \A r \in CreateRequests :
        r.oid \in ObjectIds /\ NewObject(r.name, r.pv) \in Objects
  /\ Increments \subseteq Values \cup {NULL}
  /\ SubscribeLists \subseteq
        Seq([key : {k \in Keys : k.prop # "object"}, increment : Values \cup {NULL}])

(* The application starts with named objects, none of them commanded.      *)
ASSUME InitialAssumption ==
  /\ DOMAIN InitialObjects \subseteq ObjectIds
  /\ \A o \in DOMAIN InitialObjects :
        /\ InitialObjects[o] \in Objects
        /\ InitialObjects[o].name # NULL
        /\ \A p \in Priorities : InitialObjects[o].priority_array[p] = NULL
  /\ \A o, q \in DOMAIN InitialObjects :
        InitialObjects[o].name = InitialObjects[q].name => o = q

VARIABLES
  db,        \* the object database
  subs,      \* _subscriptions and _property_subscriptions
  indexed,   \* keys in _subs_by_object and _prop_subs_by_obj_prop
  timers,    \* for each key, the number of expiry timers that are armed
  quiet      \* history: <<object, scope>> changed and not checked since

vars == <<db, subs, indexed, timers, quiet>>

(* What a subscription reports: Present_Value and Status_Flags, or the     *)
(* value of the one property it names.                                     *)
Watched(o, scope) ==
  CASE scope = "object"        -> <<o.pv, status_flags(o)>>
    [] scope = "present_value" -> <<o.pv>>
    [] scope = "status_flags"  -> <<status_flags(o)>>

-----------------------------------------------------------------------------
(* _should_notify and _should_notify_property                              *)

Distance(a, b) == IF a < b THEN b - a ELSE a - b

(* A changed Present_Value is worth a notification.                        *)
Exceeds(oid, old, new, increment) ==
  (oid \in Analog /\ increment \notin {NULL, 0} /\ old # NULL /\ new # NULL)
    => Distance(old, new) >= increment

should_notify(k, s, o) ==
  LET now == Watched(o, k.prop)
      increment == IF s.increment # NULL THEN s.increment ELSE o.cov_increment
  IN CASE k.prop = "object" ->
            \/ now[2] # s.last[2]
            \/ now[1] # s.last[1] /\ Exceeds(k.oid, s.last[1], now[1], increment)
       [] k.prop = "present_value" ->
            now # s.last /\ Exceeds(k.oid, s.last[1], now[1], increment)
       [] OTHER -> now # s.last

(* check_and_notify: the subscriptions that the indices list for the       *)
(* object, and for the property that was written.                          *)
check_and_notify(ss, d, w) ==
  [k \in DOMAIN ss |->
     IF /\ k \in indexed /\ k.oid = w.oid /\ k.prop \in {"object", w.prop}
        /\ should_notify(k, ss[k], d.objects[k.oid])
       THEN [ss[k] EXCEPT !.last = Watched(d.objects[k.oid], k.prop)]
       ELSE ss[k]]

-----------------------------------------------------------------------------
(* Subscribing                                                             *)

OfKind(ss, k) == {x \in DOMAIN ss : (x.prop = "object") = (k.prop = "object")}

CanSubscribe(d, ss, k) ==
  /\ k.oid \in DOMAIN d.objects
  /\ k \in DOMAIN ss \/ Cardinality(OfKind(ss, k)) < MaxSubscriptions

(* Timers armed for a key once its subscription is cancelled or replaced.  *)
Cancelled(ts, ss, k) ==
  IF k \in DOMAIN ss /\ ss[k].finite THEN [ts EXCEPT ![k] = @ - 1] ELSE ts

Subscribed(c, d, k, finite, increment) ==
  LET ts == Cancelled(c.timers, c.subs, k)
  IN [subs    |-> With(c.subs, k, [finite |-> finite, increment |-> increment,
                                   last |-> Watched(d.objects[k.oid], k.prop)]),
      indexed |-> c.indexed \cup {k},
      timers  |-> IF finite THEN [ts EXCEPT ![k] = @ + 1] ELSE ts]

Now == [subs |-> subs, indexed |-> indexed, timers |-> timers]

Become(c) == subs' = c.subs /\ indexed' = c.indexed /\ timers' = c.timers

(* handle_subscribe_cov: a request without Issue_Confirmed_Notifications   *)
(* and without Lifetime is a cancellation, one without the former only is  *)
(* rejected; a lifetime of 0 is indefinite.                                *)
handle_subscribe_cov(k, finite) ==
  /\ k.prop = "object" /\ CanSubscribe(db, subs, k)
  /\ Become(Subscribed(Now, db, k, finite, NULL))
  /\ UNCHANGED <<db, quiet>>

handle_subscribe_cov_property(k, finite, increment) ==
  /\ k.prop # "object" /\ CanSubscribe(db, subs, k)
  /\ Become(Subscribed(Now, db, k, finite, increment))
  /\ UNCHANGED <<db, quiet>>

(* One reference of a SubscribeCOVPropertyMultiple: after the first that   *)
(* fails no more are taken, those before it stay subscribed.               *)
SubscribeReference(c, ref) ==
  CASE ~c.ok -> c
    [] c.ok /\ CanSubscribe(db, c.state.subs, ref.key) ->
         [c EXCEPT !.state = Subscribed(@, db, ref.key, c.finite, ref.increment)]
    [] OTHER -> [c EXCEPT !.ok = FALSE]

handle_subscribe_cov_property_multiple(refs, finite) ==
  /\ Become(FoldLeft(SubscribeReference,
                     [state |-> Now, ok |-> TRUE, finite |-> finite], refs).state)
  /\ UNCHANGED <<db, quiet>>

(* unsubscribe, from handle_subscribe_cov when the object exists, and      *)
(* unsubscribe_property.                                                   *)
unsubscribe(k) ==
  /\ k.prop = "object" => k.oid \in DOMAIN db.objects
  /\ k \in DOMAIN subs
  /\ timers' = Cancelled(timers, subs, k)
  /\ subs' = Without(subs, {k})
  /\ indexed' = indexed \ {k}
  /\ UNCHANGED <<db, quiet>>

(* _on_subscription_expired and _on_property_subscription_expired          *)
on_subscription_expired(k) ==
  /\ timers[k] > 0
  /\ timers' = [timers EXCEPT ![k] = @ - 1]
  /\ subs' = Without(subs, {k})
  /\ indexed' = indexed \ {k}
  /\ UNCHANGED <<db, quiet>>

(* shutdown, when the application stops                                    *)
shutdown ==
  /\ subs # << >>
  /\ timers' = [k \in Keys |-> IF k \in DOMAIN subs THEN Cancelled(timers, subs, k)[k]
                                                    ELSE timers[k]]
  /\ subs' = << >>
  /\ indexed' = {}
  /\ UNCHANGED <<db, quiet>>

-----------------------------------------------------------------------------
(* Writing                                                                 *)

(* A mutant of ApplyWrite that checks Present_Value writes only.           *)
ApplyWriteNotifyingPV(c, w) ==
  LET r == write_property(c.db, w)
  IN IF ~c.ok THEN c
     ELSE IF ~r.ok THEN [c EXCEPT !.db = r.db, !.ok = FALSE]
     ELSE [db    |-> r.db, ok |-> TRUE,
           subs  |-> IF w.prop = "present_value" THEN check_and_notify(c.subs, r.db, w)
                                                 ELSE c.subs,
           quiet |-> c.quiet \ ({w.oid} \X {"object", w.prop})]

(* One write of a request and the check that follows it if it succeeds.    *)
ApplyWrite(c, w) ==
  LET r == write_property(c.db, w)
  IN IF ~c.ok THEN c
     ELSE IF ~r.ok THEN [c EXCEPT !.db = r.db, !.ok = FALSE]
     ELSE [db    |-> r.db, ok |-> TRUE,
           subs  |-> check_and_notify(c.subs, r.db, w),
           quiet |-> c.quiet \ ({w.oid} \X {"object", w.prop})]

Written(ws) ==
  FoldLeft(ApplyWrite, [db |-> db, subs |-> subs, quiet |-> quiet, ok |-> TRUE], ws)

WriteAll(ws) ==
  LET c == Written(ws)
  IN /\ c.db.revision <= MaxRevision
     /\ db' = c.db /\ subs' = c.subs /\ quiet' = c.quiet
     /\ UNCHANGED <<indexed, timers>>

handle_write_property(w) ==
  /\ w.oid \in DOMAIN db.objects
  /\ WriteAll(<<w>>)

(* Pass 1 checks the objects and the access to the properties, pass 2      *)
(* writes them and may still fail.                                         *)
handle_write_property_multiple(ws) ==
  /\ \A i \in DOMAIN ws :
        /\ ws[i].oid \in DOMAIN db.objects
        /\ ~Unknown(ws[i]) /\ ~AccessDenied(db, ws[i])
  /\ WriteAll(ws)

(* A write by the schedule engine or by application code: no check is made.*)
local_write(w) ==
  LET r == write_property(db, w)
  IN /\ w.oid \in DOMAIN db.objects
     /\ r.ok /\ r.db.revision <= MaxRevision
     /\ db' = r.db
     /\ quiet' = quiet \cup ({w.oid} \X {"object", w.prop})
     /\ UNCHANGED <<subs, indexed, timers>>

(* The event engine sets Event_State, which Status_Flags are computed from.*)
event_state_changes(oid) ==
  /\ oid \in DOMAIN db.objects \cap Alarming
  /\ db' = [db EXCEPT !.objects[oid].in_alarm = ~@]
  /\ quiet' = quiet \cup {<<oid, "object">>}
  /\ UNCHANGED <<subs, indexed, timers>>

-----------------------------------------------------------------------------
(* Creating and deleting objects                                           *)

handle_create_object(r) ==
  LET o == NewObject(r.name, r.pv)
  IN /\ CanAdd(db, r.oid, o) /\ db.revision < MaxRevision
     /\ db' = add(db, r.oid, o)
     /\ UNCHANGED <<subs, indexed, timers, quiet>>

(* A mutant of handle_delete_object that leaves the subscriptions.         *)
delete_object_only(oid) ==
  /\ oid \in DOMAIN db.objects /\ db.revision < MaxRevision
  /\ db' = remove(db, oid)
  /\ quiet' = {q \in quiet : q[1] # oid}
  /\ UNCHANGED <<subs, indexed, timers>>

handle_delete_object(oid) ==
  LET gone == {k \in indexed : k.oid = oid}
  IN /\ oid \in DOMAIN db.objects /\ db.revision < MaxRevision
     /\ db' = remove(db, oid)
     /\ timers' = [k \in Keys |-> IF k \in gone THEN Cancelled(timers, subs, k)[k]
                                                ELSE timers[k]]
     /\ subs' = Without(subs, gone)
     /\ indexed' = indexed \ gone
     /\ quiet' = {q \in quiet : q[1] # oid}

-----------------------------------------------------------------------------
InitialDatabase ==
  [objects |-> InitialObjects,
   names |-> [n \in {InitialObjects[o].name : o \in DOMAIN InitialObjects} |->
                CHOOSE o \in DOMAIN InitialObjects : InitialObjects[o].name = n],
   revision |-> 0]

Init ==
  /\ db = InitialDatabase
  /\ subs = << >>
  /\ indexed = {}
  /\ timers = [k \in Keys |-> 0]
  /\ quiet = {}

Next ==
  \/ \E k \in Keys, finite \in BOOLEAN :
        \/ handle_subscribe_cov(k, finite)
        \/ \E i \in Increments : handle_subscribe_cov_property(k, finite, i)
  \/ \E refs \in SubscribeLists, finite \in BOOLEAN :
        handle_subscribe_cov_property_multiple(refs, finite)
  \/ \E k \in Keys : unsubscribe(k) \/ on_subscription_expired(k)
  \/ shutdown
  \/ \E w \in Writes : handle_write_property(w)
  \/ \E ws \in WriteLists : handle_write_property_multiple(ws)
  \/ \E w \in LocalWrites : local_write(w)
  \/ \E oid \in ObjectIds : event_state_changes(oid) \/ handle_delete_object(oid)
  \/ \E r \in CreateRequests : handle_create_object(r)

Spec == Init /\ [][Next]_vars

-----------------------------------------------------------------------------
(* Properties                                                              *)

(* Database, subscriptions and timers have their types, and neither kind of*)
(* subscription exceeds its limit (cov.py: max_subscriptions).             *)
TypeOK ==
  /\ DOMAIN db.objects \subseteq ObjectIds
  /\ \A o \in DOMAIN db.objects : db.objects[o] \in Objects
  /\ DOMAIN db.names \subseteq Names
  /\ db.revision \in 0 .. MaxRevision
  /\ DOMAIN subs \subseteq Keys /\ indexed \subseteq Keys
  /\ timers \in [Keys -> Nat]
  /\ \A k \in DOMAIN subs : Cardinality(OfKind(subs, k)) <= MaxSubscriptions

(* _names lists exactly the names of the objects: uniqueness is decided    *)
(* with it (validate_name_unique), and a name whose object was renamed or  *)
(* deleted is free again.                                                  *)
NamesIndexed ==
  /\ \A n \in DOMAIN db.names :
        db.names[n] \in DOMAIN db.objects /\ db.objects[db.names[n]].name = n
  /\ \A o \in DOMAIN db.objects :
        db.objects[o].name # NULL =>
          db.objects[o].name \in DOMAIN db.names /\ db.names[db.objects[o].name] = o

(* While any priority is commanded, Present_Value is the command of the    *)
(* highest of them, whatever was written, relinquished or changed since    *)
(* (_write_with_priority).                                                 *)
HighestCommandWins ==
  \A o \in DOMAIN db.objects \cap Commandable :
     LET slots == db.objects[o].priority_array
     IN (\E p \in Priorities : slots[p] # NULL) => db.objects[o].pv = slots[Winner(slots)]

(* The secondary indices list exactly the subscriptions there are: none is *)
(* overlooked by check_and_notify and none is notified after its end.      *)
IndexAgrees == indexed = DOMAIN subs

(* A subscription with a lifetime has exactly one armed timer, and no timer*)
(* is left that would end another subscription made later with the key.    *)
OneTimerEach ==
  \A k \in Keys :
     timers[k] = IF k \in DOMAIN subs /\ subs[k].finite THEN 1 ELSE 0

(* A subscription never outlives its object (remove_object_subscriptions): *)
(* an object created later with the same identifier starts without any.    *)
NoOrphans == \A k \in DOMAIN subs : k.oid \in DOMAIN db.objects

(* A Present_Value need not be reported again: it is the reported one, or  *)
(* the object is analog with an increment and the change is below it.      *)
Near(oid, reported, pv, increment) ==
  \/ pv = reported
  \/ /\ oid \in Analog /\ NULL \notin {pv, reported, increment}
     /\ pv - reported < increment /\ reported - pv < increment

(* Subscribers are current: unless the object was changed behind the       *)
(* handlers' back since the last check, what was last reported to an       *)
(* object-level subscriber are its Status_Flags as they are and a          *)
(* Present_Value nearer than COV_Increment, however the value, the flags   *)
(* and the increment were changed; and a subscriber to Present_Value with  *)
(* an increment of its own holds a value nearer than that.                 *)
SubscribersCurrent ==
  \A k \in {x \in DOMAIN subs : <<x.oid, x.prop>> \notin quiet} :
     LET o == db.objects[k.oid]
         s == subs[k]
     IN /\ k.prop = "object" =>
             s.last[2] = status_flags(o) /\ Near(k.oid, s.last[1], o.pv, o.cov_increment)
        /\ k.prop = "present_value" /\ s.increment # NULL =>
             Near(k.oid, s.last[1], o.pv, s.increment)

(* Subscriptions, indices, timers and objects agree, within the limits, so *)
(* that every change finds its subscribers and every end the right one.    *)
SubscriptionsAgree == TypeOK /\ IndexAgrees /\ OneTimerEach /\ NoOrphans

-----------------------------------------------------------------------------
\* Every write a request or the application may ask for.
AllWrites == Writes \cup LocalWrites \cup UNION { { ws[i] : i \in DOMAIN ws } : ws \in WriteLists }

\* Object_Name is written without an array index, as clients do.
PlainRenames == \A w \in AllWrites : w.prop = "object_name" => w.index = NULL
=============================================================================
