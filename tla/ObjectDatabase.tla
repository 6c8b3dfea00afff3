---------------------------- MODULE ObjectDatabase ----------------------------
(***************************************************************************)
(* The object database of a device (objects/base.py): the objects with the *)
(* properties the services act on, the index of their names, and the      *)
(* writing of a property, by command priority where the object has a      *)
(* priority array.  A database is a record                                 *)
(*   objects   the objects that exist, by identifier,                      *)
(*   names     _names, the index from Object_Name to identifier,           *)
(*   revision  Database_Revision of the Device object,                     *)
(* and every operation maps a database to a database, so that the services *)
(* that write several properties can be composed of single writes.        *)
(* All properties modelled here are scalar: a write with an array index is *)
(* always answered with PROPERTY_IS_NOT_AN_ARRAY.                          *)
(***************************************************************************)
EXTENDS Integers, FiniteSetsExt

CONSTANTS
  ObjectIds,         \* identifiers of the objects besides the Device object
  Commandable,       \* those with a priority array
  Analog,            \* those of an analog type
  ReadOnly,          \* those whose Present_Value is READ_ONLY (the inputs)
  Alarming,          \* those the event engine evaluates
  MinimumTimes,      \* those with Minimum_On_Time or Minimum_Off_Time
  Names,             \* values of Object_Name
  Values,            \* values of Present_Value and COV_Increment
  InRange,           \* those between Min_Pres_Value and Max_Pres_Value
  Default,           \* initial Present_Value and Relinquish_Default
  MaxPriority,       \* 16
  MinimumTimePriority, \* 6
  NULL               \* None

ASSUME ObjectAssumption ==
  /\ Commandable \subseteq ObjectIds /\ Analog \subseteq ObjectIds
  /\ ReadOnly \subseteq ObjectIds \ Commandable
  /\ MinimumTimes \subseteq ObjectIds /\ Alarming \subseteq ObjectIds
  /\ Values \subseteq Nat /\ Default \in Values /\ InRange \subseteq Values
  /\ MaxPriority \in Nat \ {0} /\ MinimumTimePriority \in Nat
  /\ NULL \notin Values /\ NULL \notin Names /\ NULL \notin ObjectIds

Priorities == 1 .. MaxPriority

(* What is kept of an object: its name, Present_Value, priority array,     *)
(* Relinquish_Default, Out_Of_Service, COV_Increment and whether its       *)
(* Event_State is other than NORMAL.                                       *)
Objects ==
  [name : Names \cup {NULL}, pv : Values \cup {NULL},
   priority_array : [Priorities -> Values \cup {NULL}],
   relinquish_default : Values \cup {NULL}, out_of_service : BOOLEAN,
   cov_increment : Values \cup {NULL}, in_alarm : BOOLEAN]

(* An object made by create_object with the initial values of the request. *)
NewObject(name, pv) ==
  [name |-> name, pv |-> pv, priority_array |-> [p \in Priorities |-> NULL],
   relinquish_default |-> Default, out_of_service |-> FALSE,
   cov_increment |-> NULL, in_alarm |-> FALSE]

(* The Status_Flags that can change here, computed when they are read.     *)
status_flags(o) == [in_alarm |-> o.in_alarm, out_of_service |-> o.out_of_service]

-----------------------------------------------------------------------------
(* ObjectDatabase.add, remove and the index of names.                      *)

Without(f, ks) == [k \in DOMAIN f \ ks |-> f[k]]

With(f, k, v) == [x \in DOMAIN f \cup {k} |-> IF x = k THEN v ELSE f[x]]

CanAdd(d, oid, o) == oid \notin DOMAIN d.objects /\ o.name \notin DOMAIN d.names

add(d, oid, o) ==
  [objects  |-> With(d.objects, oid, o),
   names    |-> IF o.name = NULL THEN d.names ELSE With(d.names, o.name, oid),
   revision |-> d.revision + 1]

(* The entry of the index that a name has, if it belongs to the object.    *)
OwnName(d, oid) == {n \in DOMAIN d.names : n = d.objects[oid].name /\ d.names[n] = oid}

remove(d, oid) ==
  [objects  |-> Without(d.objects, {oid}),
   names    |-> Without(d.names, OwnName(d, oid)),
   revision |-> d.revision + 1]

validate_name_unique(d, name, oid) == name \in DOMAIN d.names => d.names[name] = oid

(* A mutant of update_name_index that leaves the old name in the index.    *)
update_name_index_only_adding(d, oid, name) ==
  [d EXCEPT !.names = With(@, name, oid), !.revision = @ + 1]

update_name_index(d, oid, name) ==
  [d EXCEPT !.names = With(Without(@, OwnName(d, oid)), name, oid),
            !.revision = @ + 1]

-----------------------------------------------------------------------------
(* write_property.  A write is a record [oid, prop, value, priority, index].*)

Props == {"object_name", "present_value", "relinquish_default",
          "out_of_service", "cov_increment"}

(* The property is not among the object's PROPERTY_DEFINITIONS.            *)
Unknown(w) ==
  \/ w.prop = "relinquish_default" /\ w.oid \notin Commandable
  \/ w.prop = "cov_increment" /\ w.oid \notin Analog

AccessDenied(d, w) ==
  w.prop = "present_value" /\ w.oid \in ReadOnly /\ ~d.objects[w.oid].out_of_service

(* What the analog types refuse before anything else is looked at.         *)
OutOfRange(w) ==
  w.prop = "present_value" /\ w.oid \in Analog /\ w.value \notin InRange \cup {NULL}

Commanded(w) == w.prop = "present_value" /\ w.oid \in Commandable

BadPriority(w) ==
  LET p == IF w.priority = NULL THEN MaxPriority ELSE w.priority
  IN \/ p \notin Priorities
     \/ p = MinimumTimePriority /\ w.oid \in MinimumTimes

(* The occupied slot of the lowest number, which is the highest priority.  *)
Winner(slots) == Min({p \in Priorities : slots[p] # NULL})

(* A mutant of write_with_priority in which the latest command wins.       *)
latest_command_wins(o, w) ==
  LET p == IF w.priority = NULL THEN MaxPriority ELSE w.priority
      slots == [o.priority_array EXCEPT ![p] = w.value]
  IN [o EXCEPT !.priority_array = slots,
               !.pv = IF w.value # NULL THEN w.value ELSE o.relinquish_default]

write_with_priority(o, w) ==
  LET p == IF w.priority = NULL THEN MaxPriority ELSE w.priority
      slots == [o.priority_array EXCEPT ![p] = w.value]
  IN [o EXCEPT !.priority_array = slots,
               !.pv = IF \E q \in Priorities : slots[q] # NULL
                        THEN slots[Winner(slots)] ELSE o.relinquish_default]

set_property(o, w) ==
  CASE w.prop = "object_name"        -> [o EXCEPT !.name = w.value]
    [] w.prop = "present_value"      -> [o EXCEPT !.pv = w.value]
    [] w.prop = "relinquish_default" -> [o EXCEPT !.relinquish_default = w.value]
    [] w.prop = "out_of_service"     -> [o EXCEPT !.out_of_service = w.value]
    [] w.prop = "cov_increment"      -> [o EXCEPT !.cov_increment = w.value]

Stored(d, w, o) == [db |-> [d EXCEPT !.objects[w.oid] = o], ok |-> TRUE]

Failed(d) == [db |-> d, ok |-> FALSE]

(* The database after the write, and whether the write succeeded.  The     *)
(* name index is updated before the array index is looked at.              *)
write_property(d, w) ==
  IF \/ OutOfRange(w) \/ Unknown(w) \/ AccessDenied(d, w)
     \/ w.prop = "object_name" /\ ~validate_name_unique(d, w.value, w.oid)
    THEN Failed(d)
    ELSE LET r == IF w.prop = "object_name"
                    THEN update_name_index(d, w.oid, w.value) ELSE d
             o == r.objects[w.oid]
         IN IF Commanded(w)
              THEN IF BadPriority(w) THEN Failed(r)
                                     ELSE Stored(r, w, write_with_priority(o, w))
              ELSE IF w.index # NULL THEN Failed(r)
                                     ELSE Stored(r, w, set_property(o, w))

=============================================================================
