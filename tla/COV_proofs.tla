----------------------------- MODULE COV_proofs -----------------------------
(***************************************************************************)
(* Proofs of the safety properties of COV, for every set of objects,       *)
(* subscribers, values and priorities, for every limit on subscriptions,   *)
(* and for requests with lists of any length.                              *)
(***************************************************************************)
EXTENDS COV, FiniteSetTheorems, TLAPS

-----------------------------------------------------------------------------
(* The inductive invariant: the database, the subscriptions over it, and   *)
(* what the subscribers were last told.                                    *)

IsDb(d) ==
  /\ d = [objects |-> d.objects, names |-> d.names, revision |-> d.revision]
  /\ DOMAIN d.objects \subseteq ObjectIds
  /\ \A o \in DOMAIN d.objects : d.objects[o] \in Objects
  /\ DOMAIN d.names \subseteq Names
  /\ d.revision \in Nat

\* The name index and the names agree.
NamesOK(d) ==
  /\ \A n \in DOMAIN d.names :
       d.names[n] \in DOMAIN d.objects /\ d.objects[d.names[n]].name = n
  /\ \A o \in DOMAIN d.objects :
       d.objects[o].name # NULL =>
         d.objects[o].name \in DOMAIN d.names /\ d.names[d.objects[o].name] = o

\* Present_Value is the command of the highest priority there is.
CommandOK(o) ==
  (\E p \in Priorities : o.priority_array[p] # NULL) =>
     o.pv = o.priority_array[Winner(o.priority_array)]

DbOK(d) ==
  /\ IsDb(d)
  /\ \A o \in DOMAIN d.objects \cap Commandable : CommandOK(d.objects[o])
  /\ PlainRenames => NamesOK(d)

IsSub(k, s) ==
  /\ s = [finite |-> s.finite, increment |-> s.increment, last |-> s.last]
  /\ s.finite \in BOOLEAN /\ s.increment \in Values \cup {NULL}
  /\ k.prop = "object" => s.increment = NULL /\ s.last = <<s.last[1], s.last[2]>>
  /\ k.prop = "present_value" => s.last = <<s.last[1]>>
  /\ k.prop # "status_flags" => s.last[1] \in Values \cup {NULL}

\* The dictionaries, their indices and the timers in c agree, and every
\* subscription is to an object of d.
SubsOK(c, d) ==
  /\ DOMAIN c.subs \subseteq Keys /\ IsFiniteSet(DOMAIN c.subs)
  /\ \A k \in DOMAIN c.subs :
       /\ IsSub(k, c.subs[k]) /\ k.oid \in DOMAIN d.objects
       /\ Cardinality(OfKind(c.subs, k)) <= MaxSubscriptions
  /\ c.indexed = DOMAIN c.subs
  /\ c.timers = [k \in Keys |-> IF k \in DOMAIN c.subs /\ c.subs[k].finite THEN 1 ELSE 0]

\* What the subscriber of s holds is near to what the object o has.
Current(k, s, o) ==
  /\ k.prop = "object" =>
       s.last[2] = status_flags(o) /\ Near(k.oid, s.last[1], o.pv, o.cov_increment)
  /\ k.prop = "present_value" /\ s.increment # NULL =>
       Near(k.oid, s.last[1], o.pv, s.increment)

CurrentOK(ss, d, q) ==
  \A k \in DOMAIN ss : <<k.oid, k.prop>> \notin q => Current(k, ss[k], d.objects[k.oid])

IInv ==
  /\ DbOK(db) /\ db.revision <= MaxRevision
  /\ SubsOK(Now, db)
  /\ CurrentOK(subs, db, quiet)

-----------------------------------------------------------------------------
(* The requests with lists, as inductions over the list.                   *)

\* What holds between the writes of a request: the objects are those there
\* were, and so are the subscriptions.
WriteInv(c) ==
  /\ c = [db |-> c.db, subs |-> c.subs, quiet |-> c.quiet, ok |-> c.ok]
  /\ DbOK(c.db)
  /\ DOMAIN c.db.objects = DOMAIN db.objects
  /\ DOMAIN c.subs = DOMAIN subs
  /\ \A k \in DOMAIN subs : IsSub(k, c.subs[k]) /\ c.subs[k].finite = subs[k].finite
  /\ CurrentOK(c.subs, c.db, c.quiet)

Writable == { w \in AllWrites : w.oid \in DOMAIN db.objects }

WriteFold == INSTANCE OperatorFacts
  WITH SeqSpace <- 1, MaxReassembly <- 1, Op <- ApplyWrite, Inv <- WriteInv, Elements <- Writable

\* What holds between the references of a SubscribeCOVPropertyMultiple.
ReferenceInv(c) ==
  /\ c = [state |-> c.state, ok |-> c.ok, finite |-> c.finite]
  /\ c.finite \in BOOLEAN
  /\ SubsOK(c.state, db)
  /\ CurrentOK(c.state.subs, db, quiet)

References == [key : { k \in Keys : k.prop # "object" }, increment : Values \cup {NULL}]

SubscribeFold == INSTANCE OperatorFacts
  WITH SeqSpace <- 1, MaxReassembly <- 1, Op <- SubscribeReference, Inv <- ReferenceInv, Elements <- References

-----------------------------------------------------------------------------
(* Writing a property.                                                     *)

LEMMA ScopeFact ==
  ASSUME NEW k \in Keys
  PROVE  k.prop \in {"object", "present_value", "status_flags"} /\ k.oid \in ObjectIds
<1>. QED  BY COVAssumption DEF Keys, Scopes

LEMMA WriteTypeFact ==
  ASSUME NEW w \in AllWrites
  PROVE  IsWrite(w)
<1>1. CASE w \in Writes \cup LocalWrites
  BY <1>1, COVAssumption
<1>2. CASE w \in UNION { { ws[i] : i \in DOMAIN ws } : ws \in WriteLists }
  <2>1. PICK ws \in WriteLists : \E i \in DOMAIN ws : w = ws[i]
    BY <1>2
  <2>. QED  BY <2>1, COVAssumption
<1>. QED  BY <1>1, <1>2 DEF AllWrites

\* The winning slot is an occupied one: priorities are naturals.
LEMMA WinnerFact ==
  ASSUME NEW slots, \E p \in Priorities : slots[p] # NULL
  PROVE  Winner(slots) \in Priorities
<1>. DEFINE S == { p \in Priorities : slots[p] # NULL }
<1>1. S \in SUBSET Nat /\ S # {} /\ S \subseteq Priorities
  BY ObjectAssumption DEF Priorities
<1>2. \E x \in S : \A y \in S : x <= y
  <2>. HIDE DEF S
  <2>. QED  BY <1>1, WriteFold!LeastNat
<1>3. Winner(slots) = CHOOSE x \in S : \A y \in S : x <= y
  BY DEF Winner, Min
<1>. HIDE DEF S
<1>. QED  BY <1>1, <1>2, <1>3

\* What a write may have made of the object o.
WrittenTo(w, o, p) ==
  /\ p \in Objects
  /\ w.prop # "present_value" => p.pv = o.pv
  /\ w.prop # "object_name" => p.name = o.name
  /\ w.prop = "object_name" => p.name = w.value
  /\ w.oid \in Commandable /\ CommandOK(o) => CommandOK(p)

LEMMA PriorityFact ==
  ASSUME NEW w, IsWrite(w), Commanded(w), ~BadPriority(w), NEW o \in Objects
  PROVE  WrittenTo(w, o, write_with_priority(o, w))
<1>. DEFINE q == IF w.priority = NULL THEN MaxPriority ELSE w.priority
            slots == [o.priority_array EXCEPT ![q] = w.value]
            pv == IF \E r \in Priorities : slots[r] # NULL
                    THEN slots[Winner(slots)] ELSE o.relinquish_default
            p == [o EXCEPT !.priority_array = slots, !.pv = pv]
<1>1. q \in Priorities /\ w.value \in Values \cup {NULL} /\ w.prop = "present_value"
  BY DEF BadPriority, IsWrite, Commanded
<1>2. slots \in [Priorities -> Values \cup {NULL}]
  BY <1>1 DEF Objects
<1>3. pv \in Values \cup {NULL}
  <2>. HIDE DEF slots
  <2>1. CASE \E r \in Priorities : slots[r] # NULL
    <3>1. Winner(slots) \in Priorities
      BY <2>1, WinnerFact
    <3>. QED  BY <1>2, <2>1, <3>1
  <2>2. CASE ~ \E r \in Priorities : slots[r] # NULL
    BY <2>2 DEF Objects
  <2>. QED  BY <2>1, <2>2
<1>4. (\E r \in Priorities : slots[r] # NULL) => pv = slots[Winner(slots)]
  OBVIOUS
<1>5. write_with_priority(o, w) = p
  BY DEF write_with_priority
<1>. HIDE DEF slots, pv
<1>6. /\ p \in Objects /\ p.priority_array = slots /\ p.pv = pv /\ p.name = o.name
  BY <1>2, <1>3 DEF Objects
<1>. HIDE DEF p
<1>. QED  BY <1>1, <1>4, <1>5, <1>6 DEF WrittenTo, CommandOK

LEMMA SetFact ==
  ASSUME NEW w, IsWrite(w), ~Commanded(w), NEW o \in Objects
  PROVE  WrittenTo(w, o, set_property(o, w))
<1>. w.prop \in Props
  BY DEF IsWrite
<1>1. CASE w.prop = "object_name"
  <2>1. w.value \in Names /\ set_property(o, w) = [o EXCEPT !.name = w.value]
    BY <1>1 DEF IsWrite, set_property
  <2>. QED  BY <1>1, <2>1 DEF WrittenTo, CommandOK, Objects
<1>2. CASE w.prop = "present_value"
  <2>1. /\ w.value \in Values \cup {NULL} /\ w.oid \notin Commandable
        /\ set_property(o, w) = [o EXCEPT !.pv = w.value]
    BY <1>2 DEF IsWrite, set_property, Commanded
  <2>. QED  BY <1>2, <2>1 DEF WrittenTo, Objects
<1>3. CASE w.prop = "relinquish_default"
  <2>1. /\ w.value \in Values \cup {NULL}
        /\ set_property(o, w) = [o EXCEPT !.relinquish_default = w.value]
    BY <1>3 DEF IsWrite, set_property
  <2>. QED  BY <1>3, <2>1 DEF WrittenTo, CommandOK, Objects
<1>4. CASE w.prop = "out_of_service"
  <2>1. w.value \in BOOLEAN /\ set_property(o, w) = [o EXCEPT !.out_of_service = w.value]
    BY <1>4 DEF IsWrite, set_property
  <2>. QED  BY <1>4, <2>1 DEF WrittenTo, CommandOK, Objects
<1>5. CASE w.prop = "cov_increment"
  <2>1. /\ w.value \in Values \cup {NULL}
        /\ set_property(o, w) = [o EXCEPT !.cov_increment = w.value]
    BY <1>5 DEF IsWrite, set_property
  <2>. QED  BY <1>5, <2>1 DEF WrittenTo, CommandOK, Objects
<1>. QED  BY <1>1, <1>2, <1>3, <1>4, <1>5 DEF Props

LEMMA WrittenFact ==
  ASSUME NEW w, IsWrite(w), NEW o \in Objects, Commanded(w) => ~BadPriority(w)
  PROVE  WrittenTo(w, o, IF Commanded(w) THEN write_with_priority(o, w) ELSE set_property(o, w))
<1>. QED  BY PriorityFact, SetFact

\* Renaming an object in the index: its old name is free and the new one leads
\* to it; the objects are not touched.
LEMMA RenameFact ==
  ASSUME NEW d, IsDb(d), NEW oid \in DOMAIN d.objects, NEW name \in Names
  PROVE  LET r == update_name_index(d, oid, name)
         IN  /\ IsDb(r)
             /\ r.objects = d.objects /\ r.revision = d.revision + 1
             /\ DOMAIN r.names = (DOMAIN d.names \ OwnName(d, oid)) \cup {name}
             /\ \A n \in DOMAIN r.names : r.names[n] = IF n = name THEN oid ELSE d.names[n]
<1>. DEFINE names == With(Without(d.names, OwnName(d, oid)), name, oid)
            r == update_name_index(d, oid, name)
<1>1. /\ DOMAIN names = (DOMAIN d.names \ OwnName(d, oid)) \cup {name}
      /\ \A n \in DOMAIN names : names[n] = IF n = name THEN oid ELSE d.names[n]
  BY DEF With, Without
<1>2. r = [objects |-> d.objects, names |-> names, revision |-> d.revision + 1]
  <2>1. d = [objects |-> d.objects, names |-> d.names, revision |-> d.revision]
    BY DEF IsDb
  <2>2. r = [d EXCEPT !.names = names, !.revision = d.revision + 1]
    BY DEF update_name_index
  <2>. HIDE DEF names, r
  <2>. QED  BY <2>1, <2>2
<1>. HIDE DEF names, r
<1>3. r.objects = d.objects /\ r.names = names /\ r.revision = d.revision + 1
  BY <1>2
<1>4. IsDb(r)
  BY <1>1, <1>2, <1>3 DEF IsDb
<1>. QED  BY <1>1, <1>3, <1>4 DEF r

\* An object of the database becomes o.
LEMMA ReplaceFact ==
  ASSUME NEW d, IsDb(d), NEW oid \in DOMAIN d.objects, NEW o \in Objects
  PROVE  LET r == [d EXCEPT !.objects[oid] = o]
         IN  /\ IsDb(r)
             /\ r.names = d.names /\ r.revision = d.revision
             /\ DOMAIN r.objects = DOMAIN d.objects
             /\ \A x \in DOMAIN d.objects : r.objects[x] = IF x = oid THEN o ELSE d.objects[x]
<1>. DEFINE objects == [d.objects EXCEPT ![oid] = o]
            r == [d EXCEPT !.objects[oid] = o]
<1>1. /\ DOMAIN objects = DOMAIN d.objects
      /\ \A x \in DOMAIN d.objects : objects[x] = IF x = oid THEN o ELSE d.objects[x]
  OBVIOUS
<1>2. r = [objects |-> objects, names |-> d.names, revision |-> d.revision]
  <2>1. d = [objects |-> d.objects, names |-> d.names, revision |-> d.revision]
    BY DEF IsDb
  <2>. QED  BY <2>1
<1>. HIDE DEF objects, r
<1>3. r.objects = objects /\ r.names = d.names /\ r.revision = d.revision
  BY <1>2
<1>4. IsDb(r)
  BY <1>1, <1>2, <1>3 DEF IsDb
<1>. QED  BY <1>1, <1>3, <1>4 DEF r

\* What write_property() makes of the database d.
WrittenDb(d, w, r) ==
  /\ IsDb(r.db)
  /\ r.db.revision >= d.revision
  /\ DOMAIN r.db.objects = DOMAIN d.objects
  /\ \A x \in DOMAIN d.objects \ {w.oid} : r.db.objects[x] = d.objects[x]
  /\ IF r.ok THEN WrittenTo(w, d.objects[w.oid], r.db.objects[w.oid])
             ELSE r.db.objects = d.objects
  /\ NamesOK(d) /\ (w.prop = "object_name" => w.index = NULL) => NamesOK(r.db)

LEMMA OtherPropertyFact ==
  ASSUME NEW d, IsDb(d), NEW w, IsWrite(w), w.oid \in DOMAIN d.objects,
         w.prop # "object_name"
  PROVE  WrittenDb(d, w, write_property(d, w))
<1>. DEFINE o == d.objects[w.oid]
            p == IF Commanded(w) THEN write_with_priority(o, w) ELSE set_property(o, w)
            r == write_property(d, w)
<1>1. o \in Objects
  BY DEF IsDb
<1>2. \/ r = Failed(d)
      \/ r = Stored(d, w, p) /\ (Commanded(w) => ~BadPriority(w))
  BY DEF write_property
<1>. HIDE DEF r, p
<1>3. CASE r = Failed(d)
  <2>1. r.db = d /\ r.ok = FALSE
    BY <1>3 DEF Failed
  <2>2. d.revision \in Nat
    BY DEF IsDb
  <2>. QED  BY <2>1, <2>2 DEF WrittenDb, r
<1>4. CASE r = Stored(d, w, p) /\ (Commanded(w) => ~BadPriority(w))
  <2>1. WrittenTo(w, o, p)
    BY <1>1, <1>4, WrittenFact DEF p
  <2>2. r.ok = TRUE /\ r.db = [d EXCEPT !.objects[w.oid] = p]
    BY <1>4 DEF Stored
  <2>3. p \in Objects /\ p.name = o.name
    BY <2>1 DEF WrittenTo
  <2>4. /\ IsDb(r.db)
        /\ r.db.names = d.names /\ r.db.revision = d.revision
        /\ DOMAIN r.db.objects = DOMAIN d.objects
        /\ \A x \in DOMAIN d.objects :
             r.db.objects[x] = IF x = w.oid THEN p ELSE d.objects[x]
    BY <2>2, <2>3, ReplaceFact
  <2>5. \A x \in DOMAIN d.objects : r.db.objects[x].name = d.objects[x].name
    BY <2>3, <2>4
  <2>6. NamesOK(d) => NamesOK(r.db)
    BY <2>4, <2>5 DEF NamesOK
  <2>7. d.revision \in Nat
    BY DEF IsDb
  <2>. QED  BY <2>1, <2>2, <2>4, <2>6, <2>7 DEF WrittenDb, r
<1>. QED  BY <1>2, <1>3, <1>4

LEMMA NamePropertyFact ==
  ASSUME NEW d, IsDb(d), NEW w, IsWrite(w), w.oid \in DOMAIN d.objects,
         w.prop = "object_name"
  PROVE  WrittenDb(d, w, write_property(d, w))
<1>. DEFINE o == d.objects[w.oid]
            n == update_name_index(d, w.oid, w.value)
            p == set_property(o, w)
            r == write_property(d, w)
<1>1. o \in Objects /\ d.revision \in Nat /\ w.value \in Names /\ NULL \notin Names
  BY ObjectAssumption DEF IsDb, IsWrite
<1>2. ~Commanded(w)
  BY DEF Commanded
<1>3. /\ IsDb(n)
      /\ n.objects = d.objects /\ n.revision = d.revision + 1
      /\ DOMAIN n.names = (DOMAIN d.names \ OwnName(d, w.oid)) \cup {w.value}
      /\ \A x \in DOMAIN n.names : n.names[x] = IF x = w.value THEN w.oid ELSE d.names[x]
  BY <1>1, RenameFact
<1>4. \/ r = Failed(d)
      \/ r = Failed(n) /\ w.index # NULL
      \/ r = Stored(n, w, p) /\ validate_name_unique(d, w.value, w.oid)
  <2>. HIDE DEF p
  <2>1. n.objects[w.oid] = o
    BY <1>3
  <2>. HIDE DEF n
  <2>. QED  BY <1>2, <2>1 DEF write_property, p, n
<1>. HIDE DEF r, p, n
<1>5. CASE r = Failed(d)
  <2>1. r.db = d /\ r.ok = FALSE
    BY <1>5 DEF Failed
  <2>. QED  BY <1>1, <2>1 DEF WrittenDb, r
<1>6. CASE r = Failed(n) /\ w.index # NULL
  <2>1. r.db = n /\ r.ok = FALSE
    BY <1>6 DEF Failed
  <2>. QED  BY <1>1, <1>3, <1>6, <2>1 DEF WrittenDb, r
<1>7. CASE r = Stored(n, w, p) /\ validate_name_unique(d, w.value, w.oid)
  <2>1. WrittenTo(w, o, p)
    BY <1>1, <1>2, SetFact DEF p
  <2>2. r.ok = TRUE /\ r.db = [n EXCEPT !.objects[w.oid] = p]
    BY <1>7 DEF Stored
  <2>3. p \in Objects /\ p.name = w.value
    BY <2>1 DEF WrittenTo
  <2>4. /\ IsDb(r.db)
        /\ r.db.names = n.names /\ r.db.revision = n.revision
        /\ DOMAIN r.db.objects = DOMAIN d.objects
        /\ \A x \in DOMAIN d.objects :
             r.db.objects[x] = IF x = w.oid THEN p ELSE d.objects[x]
    BY <1>3, <2>2, <2>3, ReplaceFact
  <2>5. ASSUME NamesOK(d)
        PROVE  NamesOK(r.db)
    <3>1. ASSUME NEW x \in DOMAIN r.db.names
          PROVE  r.db.names[x] \in DOMAIN r.db.objects /\ r.db.objects[r.db.names[x]].name = x
      <4>1. CASE x = w.value
        BY <1>3, <2>3, <2>4, <4>1
      <4>2. CASE x # w.value
        <5>1. x \in DOMAIN d.names /\ x \notin OwnName(d, w.oid) /\ r.db.names[x] = d.names[x]
          BY <1>3, <2>4, <3>1, <4>2
        <5>2. d.names[x] \in DOMAIN d.objects /\ d.objects[d.names[x]].name = x
          BY <2>5, <5>1 DEF NamesOK
        <5>3. d.names[x] # w.oid
          BY <5>1, <5>2 DEF OwnName
        <5>. QED  BY <2>4, <5>1, <5>2, <5>3
      <4>. QED  BY <4>1, <4>2
    <3>2. ASSUME NEW x \in DOMAIN r.db.objects, r.db.objects[x].name # NULL
          PROVE  /\ r.db.objects[x].name \in DOMAIN r.db.names
                 /\ r.db.names[r.db.objects[x].name] = x
      <4>1. CASE x = w.oid
        BY <1>3, <2>3, <2>4, <4>1
      <4>2. CASE x # w.oid
        <5>. DEFINE m == d.objects[x].name
        <5>1. x \in DOMAIN d.objects /\ r.db.objects[x] = d.objects[x] /\ m # NULL
          BY <2>4, <3>2, <4>2
        <5>2. m \in DOMAIN d.names /\ d.names[m] = x
          BY <2>5, <5>1 DEF NamesOK
        <5>3. m # w.value /\ m \notin OwnName(d, w.oid)
          BY <1>7, <4>2, <5>2 DEF validate_name_unique, OwnName
        <5>. QED  BY <1>3, <2>4, <5>1, <5>2, <5>3
      <4>. QED  BY <4>1, <4>2
    <3>. QED  BY <3>1, <3>2 DEF NamesOK
  <2>. QED  BY <1>1, <1>3, <2>1, <2>2, <2>4, <2>5 DEF WrittenDb, r
<1>. QED  BY <1>4, <1>5, <1>6, <1>7

-----------------------------------------------------------------------------
(* Deciding to notify.                                                     *)

\* What is told with a subscription, or with a notification, is current.
LEMMA ToldFact ==
  ASSUME NEW k \in Keys, NEW o \in Objects, NEW finite \in BOOLEAN,
         NEW increment \in Values \cup {NULL}, k.prop = "object" => increment = NULL
  PROVE  LET s == [finite |-> finite, increment |-> increment, last |-> Watched(o, k.prop)]
         IN  IsSub(k, s) /\ Current(k, s, o)
<1>. k.prop \in {"object", "present_value", "status_flags"}
  BY ScopeFact
<1>. o.pv \in Values \cup {NULL}
  BY DEF Objects
<1>1. CASE k.prop = "object"
  BY <1>1 DEF Watched, IsSub, Current, Near
<1>2. CASE k.prop = "present_value"
  BY <1>2 DEF Watched, IsSub, Current, Near
<1>3. CASE k.prop = "status_flags"
  BY <1>3 DEF Watched, IsSub, Current
<1>. QED  BY <1>1, <1>2, <1>3

\* A subscription that is not worth a notification is current.
LEMMA UntoldFact ==
  ASSUME NEW k \in Keys, NEW s, IsSub(k, s), NEW o \in Objects, ~should_notify(k, s, o)
  PROVE  Current(k, s, o)
<1>. k.prop \in {"object", "present_value", "status_flags"}
  BY ScopeFact
<1>1. o.pv \in Values \cup {NULL} /\ o.cov_increment \in Values \cup {NULL}
  BY DEF Objects
<1>2. Values \subseteq Nat /\ NULL \notin Values
  BY ObjectAssumption
<1>3. ASSUME NEW old \in Values \cup {NULL}, NEW new \in Values \cup {NULL},
             NEW increment \in Values \cup {NULL},
             ~(new # old /\ Exceeds(k.oid, old, new, increment))
      PROVE  Near(k.oid, old, new, increment)
  BY <1>2, <1>3 DEF Exceeds, Distance, Near
<1>4. CASE k.prop = "object"
  <2>1. /\ s.increment = NULL /\ s.last[1] \in Values \cup {NULL}
    BY <1>4 DEF IsSub
  <2>2. /\ s.last[2] = status_flags(o)
        /\ ~(o.pv # s.last[1] /\ Exceeds(k.oid, s.last[1], o.pv, o.cov_increment))
    BY <1>4, <2>1 DEF should_notify, Watched
  <2>. QED  BY <1>1, <1>3, <1>4, <2>1, <2>2 DEF Current
<1>5. CASE k.prop = "present_value"
  <2>1. /\ s.last = <<s.last[1]>> /\ s.last[1] \in Values \cup {NULL}
        /\ s.increment \in Values \cup {NULL}
    BY <1>5 DEF IsSub
  <2>2. ASSUME s.increment # NULL
        PROVE  ~(o.pv # s.last[1] /\ Exceeds(k.oid, s.last[1], o.pv, s.increment))
    <3>1. ~(<<o.pv>> # s.last /\ Exceeds(k.oid, s.last[1], o.pv, s.increment))
      BY <1>5, <2>2 DEF should_notify, Watched
    <3>2. <<o.pv>> = s.last => o.pv = s.last[1]
      BY <2>1
    <3>. QED  BY <3>1, <3>2
  <2>. QED  BY <1>1, <1>3, <1>5, <2>1, <2>2 DEF Current
<1>6. CASE k.prop = "status_flags"
  BY <1>6 DEF Current
<1>. QED  BY <1>4, <1>5, <1>6

\* One write of a request keeps what holds between the writes.
LEMMA ApplyWriteFact ==
  ASSUME IInv, NEW c, WriteInv(c), NEW w \in Writable
  PROVE  WriteInv(ApplyWrite(c, w))
<1>. DEFINE r == write_property(c.db, w)
            ss == check_and_notify(c.subs, r.db, w)
            q == c.quiet \ ({w.oid} \X {"object", w.prop})
            a == ApplyWrite(c, w)
<1>1. w \in AllWrites /\ IsWrite(w) /\ w.oid \in DOMAIN c.db.objects
  BY WriteTypeFact DEF Writable, WriteInv
<1>2. WrittenDb(c.db, w, r)
  BY <1>1, OtherPropertyFact, NamePropertyFact DEF WriteInv, DbOK
<1>3. c = [db |-> c.db, subs |-> c.subs, quiet |-> c.quiet, ok |-> c.ok]
  BY DEF WriteInv
<1>4. \/ a = c
      \/ ~r.ok /\ a = [c EXCEPT !.db = r.db, !.ok = FALSE]
      \/ r.ok /\ a = [db |-> r.db, ok |-> TRUE, subs |-> ss, quiet |-> q]
  BY DEF ApplyWrite
<1>. HIDE DEF r, a
<1>5. CASE a = c
  BY <1>5 DEF a
<1>6. DbOK(r.db) /\ DOMAIN r.db.objects = DOMAIN db.objects
  <2>1. PlainRenames => NamesOK(r.db)
    BY <1>1, <1>2 DEF WrittenDb, WriteInv, DbOK, PlainRenames
  <2>2. \A o \in DOMAIN r.db.objects \cap Commandable : CommandOK(r.db.objects[o])
    <3>1. \A o \in DOMAIN c.db.objects \cap Commandable : CommandOK(c.db.objects[o])
      BY DEF WriteInv, DbOK
    <3>2. CASE r.ok
      BY <1>1, <1>2, <3>1, <3>2 DEF WrittenDb, WrittenTo
    <3>3. CASE ~r.ok
      BY <1>2, <3>1, <3>3 DEF WrittenDb
    <3>. QED  BY <3>2, <3>3
  <2>. QED  BY <1>2, <2>1, <2>2 DEF WrittenDb, DbOK, WriteInv
<1>7. CASE ~r.ok /\ a = [c EXCEPT !.db = r.db, !.ok = FALSE]
  <2>1. a = [db |-> r.db, subs |-> c.subs, quiet |-> c.quiet, ok |-> FALSE]
    BY <1>3, <1>7
  <2>2. /\ a.db = r.db /\ a.subs = c.subs /\ a.quiet = c.quiet /\ a.ok = FALSE
    BY <2>1
  <2>3. r.db.objects = c.db.objects
    BY <1>2, <1>7 DEF WrittenDb
  <2>4. CurrentOK(c.subs, r.db, c.quiet)
    BY <2>3 DEF WriteInv, CurrentOK
  <2>. HIDE DEF a
  <2>5. WriteInv(a)
    BY <1>6, <2>1, <2>2, <2>4 DEF WriteInv
  <2>. QED  BY <2>5 DEF a
<1>8. CASE r.ok /\ a = [db |-> r.db, ok |-> TRUE, subs |-> ss, quiet |-> q]
  <2>1. /\ a.db = r.db /\ a.subs = ss /\ a.quiet = q /\ a.ok = TRUE
    BY <1>8
  <2>2. DOMAIN ss = DOMAIN subs /\ DOMAIN c.subs = DOMAIN subs
    BY DEF check_and_notify, WriteInv
  <2>3. ASSUME NEW k \in DOMAIN subs
        PROVE  /\ IsSub(k, ss[k]) /\ ss[k].finite = subs[k].finite
               /\ <<k.oid, k.prop>> \notin q => Current(k, ss[k], r.db.objects[k.oid])
    <3>. DEFINE s == c.subs[k]
                o == r.db.objects[k.oid]
                t == [s EXCEPT !.last = Watched(o, k.prop)]
                asked == k.oid = w.oid /\ k.prop \in {"object", w.prop}
    <3>1. /\ k \in Keys /\ k \in indexed /\ k.oid \in DOMAIN db.objects
          /\ IsSub(k, s) /\ s.finite = subs[k].finite
      BY DEF IInv, SubsOK, Now, WriteInv
    <3>2. o \in Objects
      BY <1>6, <3>1 DEF DbOK, IsDb
    <3>3. ss[k] = IF asked /\ should_notify(k, s, o) THEN t ELSE s
      BY <2>2, <3>1 DEF check_and_notify
    <3>4. CASE asked /\ should_notify(k, s, o)
      <4>1. /\ s = [finite |-> s.finite, increment |-> s.increment, last |-> s.last]
            /\ s.finite \in BOOLEAN /\ s.increment \in Values \cup {NULL}
            /\ k.prop = "object" => s.increment = NULL
        BY <3>1 DEF IsSub
      <4>2. t = [finite |-> s.finite, increment |-> s.increment,
                 last |-> Watched(o, k.prop)]
        BY <4>1
      <4>3. t.finite = s.finite
        BY <4>2
      <4>. HIDE DEF t, o, s
      <4>4. IsSub(k, t) /\ Current(k, t, o)
        BY <3>1, <3>2, <4>1, <4>2, ToldFact
      <4>. QED  BY <3>1, <3>3, <3>4, <4>3, <4>4 DEF o
    <3>5. CASE asked /\ ~should_notify(k, s, o)
      BY <3>1, <3>2, <3>3, <3>5, UntoldFact
    <3>6. CASE ~asked
      <4>1. ss[k] = s
        BY <3>3, <3>6
      <4>2. ASSUME <<k.oid, k.prop>> \notin q
            PROVE  Current(k, s, c.db.objects[k.oid])
        <5>1. <<k.oid, k.prop>> \notin c.quiet
          BY <3>6, <4>2
        <5>. QED  BY <2>2, <5>1 DEF WriteInv, CurrentOK
      <4>3. CASE k.oid # w.oid
        <5>1. o = c.db.objects[k.oid]
          BY <1>2, <3>1, <4>3 DEF WrittenDb, WriteInv
        <5>. QED  BY <3>1, <4>1, <4>2, <5>1
      <4>4. CASE k.oid = w.oid
        <5>1. k.prop # "object" /\ k.prop # w.prop
          BY <3>6, <4>4
        <5>2. k.prop = "present_value" => o.pv = c.db.objects[k.oid].pv
          BY <1>2, <1>8, <4>4, <5>1 DEF WrittenDb, WrittenTo
        <5>. QED  BY <3>1, <4>1, <4>2, <5>1, <5>2 DEF Current
      <4>. QED  BY <4>3, <4>4
    <3>. QED  BY <3>4, <3>5, <3>6
  <2>4. CurrentOK(ss, r.db, q)
    BY <2>2, <2>3 DEF CurrentOK
  <2>. HIDE DEF ss, q
  <2>5. a = [db |-> a.db, subs |-> a.subs, quiet |-> a.quiet, ok |-> a.ok]
    BY <1>8, <2>1
  <2>6. WriteInv(a)
    BY <1>6, <2>1, <2>2, <2>3, <2>4, <2>5 DEF WriteInv
  <2>. QED  BY <2>6 DEF a
<1>. QED  BY <1>4, <1>5, <1>7, <1>8

-----------------------------------------------------------------------------
(* The writing handlers.                                                   *)

LEMMA WriteAllStep ==
  ASSUME IInv, NEW ws \in Seq(Writable), WriteAll(ws)
  PROVE  IInv'
<1>. DEFINE base == [db |-> db, subs |-> subs, quiet |-> quiet, ok |-> TRUE]
            c == Written(ws)
<1>1. WriteInv(base)
  BY DEF WriteInv, IInv, SubsOK, Now
<1>2. \A x, w : WriteInv(x) /\ w \in Writable => WriteInv(ApplyWrite(x, w))
  BY ApplyWriteFact
<1>3. WriteInv(WriteFold!Fold(base, ws))
  <2>. HIDE DEF base
  <2>. QED  BY <1>1, <1>2, WriteFold!FoldInvariant
<1>4. WriteFold!Fold(base, ws) = c
  BY DEF Written, WriteFold!Fold, WriteFold!FoldLeft, WriteFold!MapThenFoldSet, FoldLeft,
         MapThenFoldSet, WriteFold!Max, Max
<1>5. WriteInv(c)
  BY <1>3, <1>4
<1>6. /\ c.db.revision <= MaxRevision
      /\ db' = c.db /\ subs' = c.subs /\ quiet' = c.quiet
      /\ UNCHANGED <<indexed, timers>>
  BY DEF WriteAll
<1>. HIDE DEF c
<1>7. DbOK(db') /\ db'.revision <= MaxRevision /\ CurrentOK(subs', db', quiet')
  BY <1>5, <1>6 DEF WriteInv
<1>8. SubsOK(Now', db')
  <2>1. SubsOK(Now, db)
    BY DEF IInv
  <2>2. /\ DOMAIN subs' = DOMAIN subs /\ DOMAIN db'.objects = DOMAIN db.objects
        /\ \A k \in DOMAIN subs : IsSub(k, subs'[k]) /\ subs'[k].finite = subs[k].finite
    BY <1>5, <1>6 DEF WriteInv
  <2>3. \A k : OfKind(subs', k) = OfKind(subs, k)
    BY <2>2 DEF OfKind
  <2>4. indexed' = indexed /\ timers' = timers
    BY <1>6
  <2>. QED  BY <2>1, <2>2, <2>3, <2>4 DEF SubsOK, Now
<1>. QED  BY <1>7, <1>8 DEF IInv, DbOK, IsDb, NamesOK, CurrentOK, SubsOK

LEMMA WritePropertyStep ==
  ASSUME IInv, NEW w \in Writes, handle_write_property(w)
  PROVE  IInv'
<1>1. w \in Writable /\ WriteAll(<<w>>)
  BY DEF handle_write_property, Writable, AllWrites
<1>2. <<w>> \in Seq(Writable)
  BY <1>1
<1>. QED  BY <1>1, <1>2, WriteAllStep

LEMMA WritePropertyMultipleStep ==
  ASSUME IInv, NEW ws \in WriteLists, handle_write_property_multiple(ws)
  PROVE  IInv'
<1>1. ws \in Seq({ ws[i] : i \in DOMAIN ws })
  BY COVAssumption
<1>2. \A i \in DOMAIN ws : ws[i] \in Writable
  BY DEF handle_write_property_multiple, Writable, AllWrites
<1>3. { ws[i] : i \in DOMAIN ws } \subseteq Writable
  BY <1>2
<1>4. ws \in Seq(Writable)
  BY <1>1, <1>3
<1>. QED  BY <1>4, WriteAllStep DEF handle_write_property_multiple

\* A change behind the handlers' back leaves the subscriptions as they are,
\* and what they may now be stale about is quiet.
LEMMA BehindFact ==
  ASSUME IInv, DbOK(db'), db'.revision <= MaxRevision,
         DOMAIN db'.objects = DOMAIN db.objects, UNCHANGED <<subs, indexed, timers>>,
         NEW oid, quiet \subseteq quiet', <<oid, "object">> \in quiet',
         \A x \in DOMAIN db.objects \ {oid} : db'.objects[x] = db.objects[x],
         <<oid, "present_value">> \in quiet' \/ db'.objects[oid].pv = db.objects[oid].pv
  PROVE  IInv'
<1>1. SubsOK(Now', db')
  <2>1. SubsOK(Now, db)
    BY DEF IInv
  <2>2. Now' = Now
    BY DEF Now
  <2>. HIDE DEF Now
  <2>. QED  BY <2>1, <2>2 DEF SubsOK
<1>2. ASSUME NEW k \in DOMAIN subs, <<k.oid, k.prop>> \notin quiet'
      PROVE  Current(k, subs[k], db'.objects[k.oid])
  <2>1. k \in Keys /\ k.oid \in DOMAIN db.objects /\ Current(k, subs[k], db.objects[k.oid])
    BY <1>2 DEF IInv, SubsOK, Now, CurrentOK
  <2>2. CASE k.oid # oid
    BY <2>1, <2>2
  <2>3. CASE k.oid = oid
    <3>1. k.prop # "object"
      BY <1>2, <2>3
    <3>2. k.prop = "present_value" => db'.objects[oid].pv = db.objects[oid].pv
      BY <1>2, <2>3
    <3>. QED  BY <2>1, <2>3, <3>1, <3>2 DEF Current
  <2>. QED  BY <2>2, <2>3
<1>3. CurrentOK(subs', db', quiet')
  BY <1>2 DEF CurrentOK
<1>. QED  BY <1>1, <1>3 DEF IInv

LEMMA LocalWriteStep ==
  ASSUME IInv, NEW w \in LocalWrites, local_write(w)
  PROVE  IInv'
<1>. DEFINE r == write_property(db, w)
<1>1. /\ w.oid \in DOMAIN db.objects /\ r.ok /\ r.db.revision <= MaxRevision
      /\ db' = r.db /\ quiet' = quiet \cup ({w.oid} \X {"object", w.prop})
      /\ UNCHANGED <<subs, indexed, timers>>
  BY DEF local_write
<1>2. w \in AllWrites /\ IsWrite(w)
  BY WriteTypeFact DEF AllWrites
<1>3. WrittenDb(db, w, r) /\ DbOK(db)
  BY <1>1, <1>2, OtherPropertyFact, NamePropertyFact DEF IInv, DbOK
<1>. HIDE DEF r
<1>4. /\ IsDb(db') /\ DOMAIN db'.objects = DOMAIN db.objects
      /\ \A x \in DOMAIN db.objects \ {w.oid} : db'.objects[x] = db.objects[x]
      /\ WrittenTo(w, db.objects[w.oid], db'.objects[w.oid])
  BY <1>1, <1>3 DEF WrittenDb
<1>5. PlainRenames => NamesOK(r.db)
  BY <1>2, <1>3 DEF WrittenDb, DbOK, PlainRenames
<1>6. \A o \in DOMAIN r.db.objects \cap Commandable : CommandOK(r.db.objects[o])
  BY <1>1, <1>3, <1>4 DEF DbOK, WrittenTo
<1>7. DbOK(r.db)
  BY <1>1, <1>3, <1>5, <1>6 DEF DbOK, WrittenDb
<1>8. DbOK(db')
  BY <1>1, <1>7
<1>9. <<w.oid, "present_value">> \in quiet' \/ db'.objects[w.oid].pv = db.objects[w.oid].pv
  BY <1>1, <1>4 DEF WrittenTo
<1>. QED  BY <1>1, <1>4, <1>8, <1>9, BehindFact

LEMMA EventStateStep ==
  ASSUME IInv, NEW oid, event_state_changes(oid)
  PROVE  IInv'
<1>. DEFINE o == db.objects[oid]
            p == [o EXCEPT !.in_alarm = ~@]
            d == [db EXCEPT !.objects[oid] = p]
<1>1. IsDb(db) /\ DbOK(db)
  BY DEF IInv, DbOK
<1>2. oid \in DOMAIN db.objects
  BY DEF event_state_changes
<1>3. o \in Objects
  BY <1>1, <1>2 DEF IsDb
<1>4. /\ p \in Objects /\ p.pv = o.pv /\ p.name = o.name
      /\ p.priority_array = o.priority_array
  BY <1>3 DEF Objects
<1>5. db' = d /\ quiet' = quiet \cup {<<oid, "object">>} /\ UNCHANGED <<subs, indexed, timers>>
  BY DEF event_state_changes
<1>. HIDE DEF p
<1>6. /\ IsDb(d) /\ d.names = db.names /\ d.revision = db.revision
      /\ DOMAIN d.objects = DOMAIN db.objects
      /\ \A x \in DOMAIN db.objects : d.objects[x] = IF x = oid THEN p ELSE db.objects[x]
  BY <1>1, <1>2, <1>4, ReplaceFact
<1>. HIDE DEF d
<1>7. \A x \in DOMAIN db.objects :
        /\ d.objects[x].name = db.objects[x].name
        /\ d.objects[x].pv = db.objects[x].pv
        /\ d.objects[x].priority_array = db.objects[x].priority_array
  BY <1>4, <1>6
<1>8. PlainRenames => NamesOK(d)
  BY <1>1, <1>6, <1>7 DEF DbOK, NamesOK
<1>9. \A x \in DOMAIN d.objects \cap Commandable : CommandOK(d.objects[x])
  BY <1>1, <1>6, <1>7 DEF DbOK, CommandOK
<1>10. DbOK(d)
  BY <1>6, <1>8, <1>9 DEF DbOK
<1>11. DbOK(db') /\ db'.revision <= MaxRevision
  BY <1>5, <1>6, <1>10 DEF IInv
<1>. QED  BY <1>2, <1>5, <1>6, <1>7, <1>11, BehindFact

-----------------------------------------------------------------------------
(* Subscribing and the end of a subscription.                              *)

\* The timer of a subscription that is cancelled or replaced is disarmed.
LEMMA CancelledFact ==
  ASSUME NEW c, NEW d, SubsOK(c, d), NEW k \in Keys
  PROVE  Cancelled(c.timers, c.subs, k) =
           [x \in Keys |-> IF x # k /\ x \in DOMAIN c.subs /\ c.subs[x].finite THEN 1 ELSE 0]
<1>1. /\ c.timers = [x \in Keys |-> c.timers[x]]
      /\ \A x \in Keys :
           c.timers[x] = IF x \in DOMAIN c.subs /\ c.subs[x].finite THEN 1 ELSE 0
  BY DEF SubsOK
<1>. DEFINE ts == Cancelled(c.timers, c.subs, k)
<1>2. ts = [x \in Keys |-> ts[x]]
  BY <1>1 DEF Cancelled
<1>3. \A x \in Keys : x # k => ts[x] = c.timers[x]
  BY <1>1 DEF Cancelled
<1>4. ts[k] = 0
  BY <1>1 DEF Cancelled
<1>. HIDE DEF ts
<1>5. \A x \in Keys :
        ts[x] = IF x # k /\ x \in DOMAIN c.subs /\ c.subs[x].finite THEN 1 ELSE 0
  BY <1>1, <1>3, <1>4
<1>. QED  BY <1>2, <1>5 DEF ts

\* A subscription within the limit keeps everything in agreement, and its
\* subscriber has been told what there is.
LEMMA SubscribedFact ==
  ASSUME NEW c, NEW d, IsDb(d), SubsOK(c, d), NEW q, CurrentOK(c.subs, d, q),
         NEW k \in Keys, CanSubscribe(d, c.subs, k), NEW finite \in BOOLEAN,
         NEW increment \in Values \cup {NULL}, k.prop = "object" => increment = NULL
  PROVE  LET n == Subscribed(c, d, k, finite, increment)
         IN  /\ SubsOK(n, d)
             /\ CurrentOK(n.subs, d, q)
<1>. DEFINE s == [finite |-> finite, increment |-> increment,
                  last |-> Watched(d.objects[k.oid], k.prop)]
            ss == With(c.subs, k, s)
            ts == Cancelled(c.timers, c.subs, k)
            n == Subscribed(c, d, k, finite, increment)
<1>1. k.oid \in DOMAIN d.objects /\ d.objects[k.oid] \in Objects
  BY DEF CanSubscribe, IsDb
<1>2. IsSub(k, s) /\ Current(k, s, d.objects[k.oid]) /\ s.finite = finite
  BY <1>1, ToldFact
<1>3. /\ n.subs = ss /\ n.indexed = c.indexed \cup {k}
      /\ n.timers = IF finite THEN [ts EXCEPT ![k] = @ + 1] ELSE ts
  BY DEF Subscribed
<1>. HIDE DEF s, n
<1>4. /\ DOMAIN ss = DOMAIN c.subs \cup {k}
      /\ \A x \in DOMAIN ss : ss[x] = IF x = k THEN s ELSE c.subs[x]
  BY DEF With
<1>. HIDE DEF ss
<1>5. DOMAIN ss \subseteq Keys /\ IsFiniteSet(DOMAIN ss)
  BY <1>4, FS_AddElement DEF SubsOK
<1>6. ASSUME NEW x \in DOMAIN ss
      PROVE  Cardinality(OfKind(ss, x)) <= MaxSubscriptions
  <2>1. CASE k \in DOMAIN c.subs
    <3>1. OfKind(ss, x) = OfKind(c.subs, x) /\ x \in DOMAIN c.subs
      BY <1>4, <2>1 DEF OfKind
    <3>. QED  BY <3>1 DEF SubsOK
  <2>2. CASE k \notin DOMAIN c.subs /\ (x.prop = "object") # (k.prop = "object")
    <3>1. OfKind(ss, x) = OfKind(c.subs, x) /\ x \in DOMAIN c.subs
      BY <1>4, <2>2 DEF OfKind
    <3>. QED  BY <3>1 DEF SubsOK
  <2>3. CASE k \notin DOMAIN c.subs /\ (x.prop = "object") = (k.prop = "object")
    <3>. DEFINE old == OfKind(c.subs, k)
    <3>1. OfKind(ss, x) = old \cup {k} /\ k \notin old
      BY <1>4, <2>3 DEF OfKind
    <3>2. old \subseteq DOMAIN c.subs
      BY DEF OfKind
    <3>3. Cardinality(old) < MaxSubscriptions
      BY <2>3 DEF CanSubscribe
    <3>. HIDE DEF old
    <3>4. IsFiniteSet(old) /\ Cardinality(old) \in Nat
      BY <3>2, FS_Subset, FS_CardinalityType DEF SubsOK
    <3>5. Cardinality(old \cup {k}) = Cardinality(old) + 1
      BY <3>1, <3>4, FS_AddElement
    <3>. QED  BY <3>1, <3>3, <3>4, <3>5, COVAssumption
  <2>. QED  BY <2>1, <2>2, <2>3
<1>7. n.timers = [x \in Keys |-> IF x \in DOMAIN ss /\ ss[x].finite THEN 1 ELSE 0]
  <2>1. ts = [x \in Keys |-> IF x # k /\ x \in DOMAIN c.subs /\ c.subs[x].finite THEN 1 ELSE 0]
    BY CancelledFact
  <2>. HIDE DEF ts
  <2>2. n.timers = [x \in Keys |-> n.timers[x]]
    BY <1>3, <2>1
  <2>3. \A x \in Keys : n.timers[x] = IF x = k THEN (IF finite THEN 1 ELSE 0) ELSE ts[x]
    BY <1>3, <2>1
  <2>4. \A x \in Keys : n.timers[x] = IF x \in DOMAIN ss /\ ss[x].finite THEN 1 ELSE 0
    BY <1>2, <1>4, <2>1, <2>3
  <2>. QED  BY <2>2, <2>4
<1>8. \A x \in DOMAIN ss : IsSub(x, ss[x]) /\ x.oid \in DOMAIN d.objects
  BY <1>1, <1>2, <1>4 DEF SubsOK
<1>9. n.indexed = DOMAIN ss
  BY <1>3, <1>4 DEF SubsOK
<1>10. SubsOK(n, d)
  BY <1>3, <1>5, <1>6, <1>7, <1>8, <1>9 DEF SubsOK
<1>11. CurrentOK(n.subs, d, q)
  BY <1>2, <1>3, <1>4 DEF CurrentOK
<1>. QED  BY <1>10, <1>11 DEF n

\* Subscriptions that end leave no index entry and no timer behind.
LEMMA EndedFact ==
  ASSUME NEW c, NEW d, SubsOK(c, d), NEW gone, NEW n,
         n.subs = Without(c.subs, gone), n.indexed = c.indexed \ gone,
         n.timers = [k \in Keys |-> IF k \in gone /\ k \in DOMAIN c.subs
                                      THEN 0 ELSE c.timers[k]]
  PROVE  SubsOK(n, d)
<1>1. /\ DOMAIN n.subs = DOMAIN c.subs \ gone
      /\ \A x \in DOMAIN n.subs : n.subs[x] = c.subs[x]
  BY DEF Without
<1>2. IsFiniteSet(DOMAIN n.subs)
  BY <1>1, FS_Subset DEF SubsOK
<1>3. ASSUME NEW x \in DOMAIN n.subs
      PROVE  Cardinality(OfKind(n.subs, x)) <= MaxSubscriptions
  <2>. DEFINE old == OfKind(c.subs, x)
              new == OfKind(n.subs, x)
  <2>1. new \subseteq old /\ old \subseteq DOMAIN c.subs /\ x \in DOMAIN c.subs
    BY <1>1 DEF OfKind
  <2>2. Cardinality(old) <= MaxSubscriptions
    BY <2>1 DEF SubsOK
  <2>. HIDE DEF old, new
  <2>3. IsFiniteSet(old)
    BY <2>1, FS_Subset DEF SubsOK
  <2>4. Cardinality(new) <= Cardinality(old) /\ Cardinality(new) \in Nat /\ Cardinality(old) \in Nat
    BY <2>1, <2>3, FS_Subset, FS_CardinalityType
  <2>5. Cardinality(new) <= MaxSubscriptions
    BY <2>2, <2>4, COVAssumption
  <2>. QED  BY <2>5 DEF new
<1>4. n.timers = [x \in Keys |-> IF x \in DOMAIN n.subs /\ n.subs[x].finite THEN 1 ELSE 0]
  <2>1. \A x \in Keys : c.timers[x] = IF x \in DOMAIN c.subs /\ c.subs[x].finite THEN 1 ELSE 0
    BY DEF SubsOK
  <2>2. \A x \in Keys : n.timers[x] = IF x \in DOMAIN n.subs /\ n.subs[x].finite THEN 1 ELSE 0
    BY <1>1, <2>1
  <2>. QED  BY <2>2
<1>. QED  BY <1>1, <1>2, <1>3, <1>4 DEF SubsOK

\* The handlers that subscribe or end subscriptions leave the objects alone.
LEMMA OnlySubsFact ==
  ASSUME IInv, UNCHANGED <<db, quiet>>, NEW c, Become(c),
         SubsOK(c, db), CurrentOK(c.subs, db, quiet)
  PROVE  IInv'
<1>1. db' = db /\ quiet' = quiet /\ subs' = c.subs /\ indexed' = c.indexed /\ timers' = c.timers
  BY DEF Become
<1>2. /\ Now'.subs = c.subs /\ Now'.indexed = c.indexed /\ Now'.timers = c.timers
  BY <1>1 DEF Now
<1>3. SubsOK(Now', db)
  <2>. DEFINE n == Now'
  <2>1. n.subs = c.subs /\ n.indexed = c.indexed /\ n.timers = c.timers
    BY <1>2
  <2>. HIDE DEF n
  <2>2. SubsOK(n, db)
    BY <2>1 DEF SubsOK
  <2>. QED  BY <2>2 DEF n
<1>4. SubsOK(Now', db')
  BY <1>1, <1>3
<1>5. DbOK(db') /\ db'.revision <= MaxRevision /\ CurrentOK(subs', db', quiet')
  BY <1>1 DEF IInv
<1>. QED  BY <1>4, <1>5 DEF IInv

LEMMA SubscribeStep ==
  ASSUME IInv, NEW k \in Keys, NEW finite \in BOOLEAN,
         \/ handle_subscribe_cov(k, finite)
         \/ \E i \in Increments : handle_subscribe_cov_property(k, finite, i)
  PROVE  IInv'
<1>1. PICK increment \in Values \cup {NULL} :
        /\ k.prop = "object" => increment = NULL
        /\ CanSubscribe(db, subs, k)
        /\ Become(Subscribed(Now, db, k, finite, increment))
        /\ UNCHANGED <<db, quiet>>
  <2>1. CASE handle_subscribe_cov(k, finite)
    <3>1. NULL \in Values \cup {NULL}
      OBVIOUS
    <3>. QED  BY <2>1, <3>1 DEF handle_subscribe_cov
  <2>2. CASE \E i \in Increments : handle_subscribe_cov_property(k, finite, i)
    BY <2>2, COVAssumption DEF handle_subscribe_cov_property
  <2>. QED  BY <2>1, <2>2
<1>. DEFINE c == Now
            n == Subscribed(c, db, k, finite, increment)
<1>2. c.subs = subs /\ IsDb(db) /\ SubsOK(c, db) /\ CurrentOK(c.subs, db, quiet)
  BY DEF IInv, DbOK, Now
<1>3. Become(n)
  BY <1>1
<1>. HIDE DEF c
<1>4. CanSubscribe(db, c.subs, k)
  BY <1>1, <1>2
<1>5. SubsOK(n, db) /\ CurrentOK(n.subs, db, quiet)
  BY <1>1, <1>2, <1>4, SubscribedFact
<1>. HIDE DEF n
<1>. QED  BY <1>1, <1>3, <1>5, OnlySubsFact

\* One reference of a SubscribeCOVPropertyMultiple.
LEMMA ReferenceFact ==
  ASSUME IInv, NEW c, ReferenceInv(c), NEW ref \in References
  PROVE  ReferenceInv(SubscribeReference(c, ref))
<1>. DEFINE n == Subscribed(c.state, db, ref.key, c.finite, ref.increment)
            r == SubscribeReference(c, ref)
<1>1. /\ ref.key \in Keys /\ ref.key.prop # "object" /\ ref.increment \in Values \cup {NULL}
  BY DEF References
<1>2. /\ c = [state |-> c.state, ok |-> c.ok, finite |-> c.finite] /\ c.finite \in BOOLEAN
      /\ SubsOK(c.state, db) /\ CurrentOK(c.state.subs, db, quiet) /\ IsDb(db)
  BY DEF ReferenceInv, IInv, DbOK
<1>3. \/ r = c
      \/ CanSubscribe(db, c.state.subs, ref.key) /\ r = [c EXCEPT !.state = n]
      \/ r = [c EXCEPT !.ok = FALSE]
  BY DEF SubscribeReference
<1>. HIDE DEF r, n
<1>4. CASE r = c
  BY <1>4 DEF r
<1>5. CASE CanSubscribe(db, c.state.subs, ref.key) /\ r = [c EXCEPT !.state = n]
  <2>1. SubsOK(n, db) /\ CurrentOK(n.subs, db, quiet)
    BY <1>1, <1>2, <1>5, SubscribedFact DEF n
  <2>2. r = [state |-> n, ok |-> c.ok, finite |-> c.finite]
    BY <1>2, <1>5
  <2>3. ReferenceInv(r)
    BY <1>2, <2>1, <2>2 DEF ReferenceInv
  <2>. QED  BY <2>3 DEF r
<1>6. CASE r = [c EXCEPT !.ok = FALSE]
  <2>1. r = [state |-> c.state, ok |-> FALSE, finite |-> c.finite]
    BY <1>2, <1>6
  <2>2. ReferenceInv(r)
    BY <1>2, <2>1 DEF ReferenceInv
  <2>. QED  BY <2>2 DEF r
<1>. QED  BY <1>3, <1>4, <1>5, <1>6

LEMMA SubscribeMultipleStep ==
  ASSUME IInv, NEW refs \in SubscribeLists, NEW finite \in BOOLEAN,
         handle_subscribe_cov_property_multiple(refs, finite)
  PROVE  IInv'
<1>. DEFINE base == [state |-> Now, ok |-> TRUE, finite |-> finite]
            c == SubscribeFold!Fold(base, refs)
<1>1. refs \in Seq(References)
  BY COVAssumption DEF References
<1>2. ReferenceInv(base)
  <2>1. Now.subs = subs
    BY DEF Now
  <2>2. base.state = Now /\ base.finite = finite /\ base.ok = TRUE
    OBVIOUS
  <2>. HIDE DEF base
  <2>3. base = [state |-> base.state, ok |-> base.ok, finite |-> base.finite]
    BY <2>2 DEF base
  <2>. QED  BY <2>1, <2>2, <2>3 DEF ReferenceInv, IInv
<1>3. \A x, ref : ReferenceInv(x) /\ ref \in References => ReferenceInv(SubscribeReference(x, ref))
  BY ReferenceFact
<1>4. ReferenceInv(c)
  <2>. HIDE DEF base
  <2>. QED  BY <1>1, <1>2, <1>3, SubscribeFold!FoldInvariant
<1>5. FoldLeft(SubscribeReference, base, refs) = c
  BY DEF SubscribeFold!Fold, SubscribeFold!FoldLeft, SubscribeFold!MapThenFoldSet, FoldLeft,
         MapThenFoldSet, SubscribeFold!Max, Max
<1>6. Become(FoldLeft(SubscribeReference, base, refs).state) /\ UNCHANGED <<db, quiet>>
  BY DEF handle_subscribe_cov_property_multiple
<1>7. Become(c.state)
  BY <1>5, <1>6
<1>. HIDE DEF c
<1>. QED  BY <1>4, <1>6, <1>7, OnlySubsFact DEF ReferenceInv

\* A subscription ends by cancellation or when its lifetime is over.
LEMMA EndStep ==
  ASSUME IInv, NEW k \in Keys, unsubscribe(k) \/ on_subscription_expired(k)
  PROVE  IInv'
<1>. DEFINE c == Now
            ts == [x \in Keys |-> IF x \in {k} /\ x \in DOMAIN c.subs THEN 0 ELSE c.timers[x]]
            n == [subs |-> Without(subs, {k}), indexed |-> indexed \ {k}, timers |-> ts]
<1>1. /\ c.subs = subs /\ c.indexed = indexed /\ c.timers = timers
      /\ SubsOK(c, db) /\ CurrentOK(subs, db, quiet)
  BY DEF IInv, Now
<1>. HIDE DEF c
<1>2. \A x \in Keys : timers[x] = IF x \in DOMAIN subs /\ subs[x].finite THEN 1 ELSE 0
  BY <1>1 DEF SubsOK
<1>3. timers' = ts
  <2>1. timers = [x \in Keys |-> timers[x]]
    BY <1>1 DEF SubsOK
  <2>2. CASE unsubscribe(k)
    <3>1. timers' = Cancelled(c.timers, c.subs, k)
      BY <1>1, <2>2 DEF unsubscribe
    <3>2. timers' = [x \in Keys |-> IF x # k /\ x \in DOMAIN subs /\ subs[x].finite THEN 1 ELSE 0]
      <4>1. Cancelled(c.timers, c.subs, k) =
              [x \in Keys |-> IF x # k /\ x \in DOMAIN c.subs /\ c.subs[x].finite THEN 1 ELSE 0]
        BY <1>1, CancelledFact
      <4>. QED  BY <1>1, <3>1, <4>1
    <3>3. \A x \in Keys : ts[x] = IF x # k /\ x \in DOMAIN subs /\ subs[x].finite THEN 1 ELSE 0
      BY <1>1, <1>2
    <3>. QED  BY <3>2, <3>3
  <2>3. CASE on_subscription_expired(k)
    <3>1. timers[k] > 0 /\ timers' = [timers EXCEPT ![k] = @ - 1]
      BY <2>3 DEF on_subscription_expired
    <3>2. timers[k] = 1 /\ k \in DOMAIN subs
      BY <1>2, <3>1
    <3>3. \A x \in Keys : timers'[x] = IF x = k THEN 0 ELSE timers[x]
      BY <2>1, <3>1, <3>2
    <3>4. timers' = [x \in Keys |-> timers'[x]]
      BY <2>1, <3>1
    <3>5. \A x \in Keys : timers'[x] = ts[x]
      BY <1>1, <3>2, <3>3
    <3>. HIDE DEF ts
    <3>6. ts = [x \in Keys |-> ts[x]]
      BY DEF ts
    <3>. QED  BY <3>4, <3>5, <3>6
  <2>. QED  BY <2>2, <2>3
<1>4. /\ subs' = Without(subs, {k}) /\ indexed' = indexed \ {k} /\ UNCHANGED <<db, quiet>>
  BY DEF unsubscribe, on_subscription_expired
<1>5. n.subs = Without(c.subs, {k}) /\ n.indexed = c.indexed \ {k} /\ n.timers = ts
  BY <1>1
<1>6. Become(n)
  BY <1>3, <1>4 DEF Become
<1>. HIDE DEF n
<1>7. SubsOK(n, db)
  BY <1>1, <1>5, EndedFact
<1>8. CurrentOK(n.subs, db, quiet)
  BY <1>1, <1>5 DEF CurrentOK, Without
<1>. QED  BY <1>4, <1>6, <1>7, <1>8, OnlySubsFact

\* Disarming the timers of several subscriptions at once.
LEMMA DisarmedFact ==
  ASSUME NEW c, NEW d, SubsOK(c, d), NEW gone
  PROVE  [k \in Keys |-> IF k \in gone /\ k \in DOMAIN c.subs
                           THEN Cancelled(c.timers, c.subs, k)[k] ELSE c.timers[k]] =
         [k \in Keys |-> IF k \in gone /\ k \in DOMAIN c.subs THEN 0 ELSE c.timers[k]]
<1>1. ASSUME NEW k \in Keys
      PROVE  Cancelled(c.timers, c.subs, k)[k] = 0
  <2>1. Cancelled(c.timers, c.subs, k) =
          [x \in Keys |-> IF x # k /\ x \in DOMAIN c.subs /\ c.subs[x].finite THEN 1 ELSE 0]
    BY CancelledFact
  <2>. QED  BY <2>1
<1>. QED  BY <1>1

LEMMA ShutdownStep ==
  ASSUME IInv, shutdown
  PROVE  IInv'
<1>. DEFINE c == Now
            gone == DOMAIN subs
            ts == [k \in Keys |-> IF k \in gone /\ k \in DOMAIN c.subs THEN 0 ELSE c.timers[k]]
            n == [subs |-> << >>, indexed |-> {}, timers |-> ts]
<1>1. /\ c.subs = subs /\ c.indexed = indexed /\ c.timers = timers
      /\ SubsOK(c, db) /\ indexed = DOMAIN subs
  BY DEF IInv, Now, SubsOK
<1>. HIDE DEF c
<1>2. timers' = [k \in Keys |-> IF k \in gone /\ k \in DOMAIN c.subs
                                  THEN Cancelled(c.timers, c.subs, k)[k] ELSE c.timers[k]]
  BY <1>1 DEF shutdown
<1>3. timers' = ts
  BY <1>1, <1>2, DisarmedFact
<1>4. subs' = << >> /\ indexed' = {} /\ UNCHANGED <<db, quiet>>
  BY DEF shutdown
<1>5. Without(c.subs, gone) = << >>
  BY <1>1 DEF Without
<1>6. n.subs = Without(c.subs, gone) /\ n.indexed = c.indexed \ gone /\ n.timers = ts
  BY <1>1, <1>5
<1>7. Become(n)
  BY <1>3, <1>4 DEF Become
<1>8. n.subs = << >>
  OBVIOUS
<1>. HIDE DEF n
<1>9. SubsOK(n, db)
  BY <1>1, <1>6, EndedFact
<1>10. CurrentOK(n.subs, db, quiet)
  BY <1>8 DEF CurrentOK
<1>. QED  BY <1>4, <1>7, <1>9, <1>10, OnlySubsFact

-----------------------------------------------------------------------------
(* Creating and deleting objects.                                          *)

LEMMA CreateStep ==
  ASSUME IInv, NEW r \in CreateRequests, handle_create_object(r)
  PROVE  IInv'
<1>. DEFINE o == NewObject(r.name, r.pv)
            objects == With(db.objects, r.oid, o)
            names == IF o.name = NULL THEN db.names ELSE With(db.names, o.name, r.oid)
            d == add(db, r.oid, o)
<1>1. /\ r.oid \in ObjectIds /\ o \in Objects
      /\ r.oid \notin DOMAIN db.objects /\ o.name \notin DOMAIN db.names
      /\ db' = d /\ db.revision < MaxRevision /\ UNCHANGED <<subs, indexed, timers, quiet>>
  BY COVAssumption DEF handle_create_object, CanAdd
<1>2. \A p \in Priorities : o.priority_array[p] = NULL
  BY DEF NewObject
<1>. HIDE DEF o
<1>3. /\ DOMAIN objects = DOMAIN db.objects \cup {r.oid}
      /\ \A x \in DOMAIN objects : objects[x] = IF x = r.oid THEN o ELSE db.objects[x]
  BY DEF With
<1>4. /\ DOMAIN names = DOMAIN db.names \cup ({o.name} \ {NULL})
      /\ \A x \in DOMAIN names : names[x] = IF x = o.name THEN r.oid ELSE db.names[x]
  <2>1. DOMAIN db.names \subseteq Names /\ NULL \notin Names
    BY ObjectAssumption DEF IInv, DbOK, IsDb
  <2>2. CASE o.name = NULL
    BY <2>1, <2>2
  <2>3. CASE o.name # NULL
    BY <2>3 DEF With
  <2>. QED  BY <2>2, <2>3
<1>5. d.objects = objects /\ d.names = names /\ d.revision = db.revision + 1
      /\ d = [objects |-> objects, names |-> names, revision |-> db.revision + 1]
  BY DEF add
<1>. HIDE DEF objects, names, d
<1>6. o.name \in Names \cup {NULL} /\ IsDb(db) /\ NULL \notin Names
  BY <1>1, ObjectAssumption DEF Objects, IInv, DbOK
<1>7. IsDb(d)
  BY <1>1, <1>3, <1>4, <1>5, <1>6 DEF IsDb
<1>8. ASSUME PlainRenames
      PROVE  NamesOK(d)
  <2>1. NamesOK(db)
    BY <1>8 DEF IInv, DbOK
  <2>2. ASSUME NEW x \in DOMAIN d.names
        PROVE  d.names[x] \in DOMAIN d.objects /\ d.objects[d.names[x]].name = x
    <3>1. CASE x = o.name
      BY <1>3, <1>4, <1>5, <3>1
    <3>2. CASE x # o.name
      <4>1. x \in DOMAIN db.names /\ d.names[x] = db.names[x]
        BY <1>4, <1>5, <2>2, <3>2
      <4>2. db.names[x] \in DOMAIN db.objects /\ db.objects[db.names[x]].name = x
        BY <2>1, <4>1 DEF NamesOK
      <4>. QED  BY <1>1, <1>3, <1>5, <4>1, <4>2
    <3>. QED  BY <3>1, <3>2
  <2>3. ASSUME NEW x \in DOMAIN d.objects, d.objects[x].name # NULL
        PROVE  d.objects[x].name \in DOMAIN d.names /\ d.names[d.objects[x].name] = x
    <3>1. CASE x = r.oid
      BY <1>3, <1>4, <1>5, <2>3, <3>1
    <3>2. CASE x # r.oid
      <4>1. x \in DOMAIN db.objects /\ d.objects[x] = db.objects[x]
        BY <1>3, <1>5, <2>3, <3>2
      <4>2. db.objects[x].name \in DOMAIN db.names /\ db.names[db.objects[x].name] = x
        BY <2>1, <2>3, <4>1 DEF NamesOK
      <4>. QED  BY <1>1, <1>4, <1>5, <4>1, <4>2
    <3>. QED  BY <3>1, <3>2
  <2>. QED  BY <2>2, <2>3 DEF NamesOK
<1>9. \A x \in DOMAIN d.objects \cap Commandable : CommandOK(d.objects[x])
  <2>1. CommandOK(o)
    BY <1>2 DEF CommandOK
  <2>2. \A x \in DOMAIN db.objects \cap Commandable : CommandOK(db.objects[x])
    BY DEF IInv, DbOK
  <2>. QED  BY <1>3, <1>5, <2>1, <2>2
<1>10. DbOK(d)
  BY <1>7, <1>8, <1>9 DEF DbOK
<1>11. DbOK(db') /\ db'.revision <= MaxRevision
  BY <1>1, <1>5, <1>6, <1>10, COVAssumption DEF IsDb
<1>12. SubsOK(Now', db')
  <2>1. SubsOK(Now, db) /\ Now' = Now
    BY <1>1 DEF IInv, Now
  <2>. HIDE DEF Now
  <2>. QED  BY <1>1, <1>3, <1>5, <2>1 DEF SubsOK
<1>13. CurrentOK(subs', db', quiet')
  <2>1. \A k \in DOMAIN subs : k.oid \in DOMAIN db.objects
    BY DEF IInv, SubsOK, Now
  <2>2. \A x \in DOMAIN db.objects : d.objects[x] = db.objects[x]
    BY <1>1, <1>3, <1>5
  <2>3. CurrentOK(subs, db, quiet)
    BY DEF IInv
  <2>4. CurrentOK(subs, d, quiet)
    BY <2>1, <2>2, <2>3 DEF CurrentOK
  <2>. QED  BY <1>1, <2>4
<1>. QED  BY <1>11, <1>12, <1>13 DEF IInv

LEMMA DeleteStep ==
  ASSUME IInv, NEW oid, handle_delete_object(oid)
  PROVE  IInv'
<1>. DEFINE c == Now
            gone == { k \in indexed : k.oid = oid }
            d == remove(db, oid)
            ts == [k \in Keys |-> IF k \in gone /\ k \in DOMAIN c.subs THEN 0 ELSE c.timers[k]]
            n == [subs |-> Without(subs, gone), indexed |-> indexed \ gone, timers |-> ts]
<1>1. /\ c.subs = subs /\ c.indexed = indexed /\ c.timers = timers
      /\ SubsOK(c, db) /\ indexed = DOMAIN subs /\ IsDb(db)
  BY DEF IInv, Now, SubsOK, DbOK
<1>. HIDE DEF c
<1>2. /\ oid \in DOMAIN db.objects /\ db.revision < MaxRevision /\ db' = d
      /\ subs' = Without(subs, gone) /\ indexed' = indexed \ gone
      /\ quiet' = { q \in quiet : q[1] # oid }
  BY DEF handle_delete_object
<1>3. timers' = ts
  <2>1. timers' = [k \in Keys |-> IF k \in gone /\ k \in DOMAIN c.subs
                                    THEN Cancelled(c.timers, c.subs, k)[k] ELSE c.timers[k]]
    BY <1>1 DEF handle_delete_object
  <2>. QED  BY <1>1, <2>1, DisarmedFact
<1>4. n.subs = Without(c.subs, gone) /\ n.indexed = c.indexed \ gone /\ n.timers = ts
  BY <1>1
<1>5. n.subs = Without(subs, gone)
  OBVIOUS
<1>6. Now' = n
  BY <1>2, <1>3 DEF Now
<1>. HIDE DEF n
<1>7. SubsOK(n, db)
  BY <1>1, <1>4, EndedFact
<1>8. /\ DOMAIN d.objects = DOMAIN db.objects \ {oid}
      /\ \A x \in DOMAIN d.objects : d.objects[x] = db.objects[x]
      /\ DOMAIN d.names = DOMAIN db.names \ OwnName(db, oid)
      /\ \A x \in DOMAIN d.names : d.names[x] = db.names[x]
      /\ d.revision = db.revision + 1
      /\ d = [objects |-> d.objects, names |-> d.names, revision |-> d.revision]
  BY DEF remove, Without
<1>. HIDE DEF d
<1>9. \A k \in DOMAIN n.subs : k \in DOMAIN subs /\ n.subs[k] = subs[k] /\ k.oid # oid
  BY <1>1, <1>5 DEF Without
<1>10. SubsOK(n, d)
  BY <1>7, <1>8, <1>9 DEF SubsOK
<1>11. CurrentOK(n.subs, d, quiet')
  <2>. SUFFICES ASSUME NEW k \in DOMAIN n.subs, <<k.oid, k.prop>> \notin quiet'
                PROVE  Current(k, n.subs[k], d.objects[k.oid])
    BY DEF CurrentOK
  <2>1. k \in DOMAIN subs /\ n.subs[k] = subs[k] /\ k.oid # oid /\ k.oid \in DOMAIN db.objects
    BY <1>7, <1>9 DEF SubsOK
  <2>2. <<k.oid, k.prop>> \notin quiet
    BY <1>2, <2>1
  <2>3. Current(k, subs[k], db.objects[k.oid])
    BY <2>1, <2>2 DEF IInv, CurrentOK
  <2>4. d.objects[k.oid] = db.objects[k.oid]
    BY <1>8, <2>1
  <2>. QED  BY <2>1, <2>3, <2>4
<1>12. IsDb(d)
  BY <1>1, <1>8 DEF IsDb
<1>13. ASSUME PlainRenames
       PROVE  NamesOK(d)
  <2>1. NamesOK(db)
    BY <1>13 DEF IInv, DbOK
  <2>2. \A x \in DOMAIN d.names :
          d.names[x] \in DOMAIN d.objects /\ d.objects[d.names[x]].name = x
    BY <1>8, <2>1 DEF NamesOK, OwnName
  <2>3. \A x \in DOMAIN d.objects :
          d.objects[x].name # NULL =>
            d.objects[x].name \in DOMAIN d.names /\ d.names[d.objects[x].name] = x
    BY <1>8, <2>1 DEF NamesOK, OwnName
  <2>. QED  BY <2>2, <2>3 DEF NamesOK
<1>14. \A x \in DOMAIN d.objects \cap Commandable : CommandOK(d.objects[x])
  BY <1>8 DEF IInv, DbOK
<1>15. DbOK(d)
  BY <1>12, <1>13, <1>14 DEF DbOK
<1>16. DbOK(db') /\ db'.revision <= MaxRevision
  BY <1>1, <1>2, <1>8, <1>15, COVAssumption DEF IsDb
<1>17. SubsOK(Now', db')
  BY <1>2, <1>6, <1>10
<1>18. CurrentOK(subs', db', quiet')
  BY <1>2, <1>5, <1>11
<1>. QED  BY <1>16, <1>17, <1>18 DEF IInv

-----------------------------------------------------------------------------
(* The invariant and the theorems.                                         *)

LEMMA InitFact ==
  Init => IInv
<1>. SUFFICES ASSUME Init PROVE IInv
  OBVIOUS
<1>. DEFINE d == InitialDatabase
<1>1. /\ db = d /\ subs = << >> /\ indexed = {} /\ quiet = {}
      /\ timers = [k \in Keys |-> 0]
  BY DEF Init
<1>2. /\ d.objects = InitialObjects /\ d.revision = 0
      /\ DOMAIN d.names = { InitialObjects[o].name : o \in DOMAIN InitialObjects }
      /\ \A n \in DOMAIN d.names :
           d.names[n] = CHOOSE o \in DOMAIN InitialObjects : InitialObjects[o].name = n
      /\ d = [objects |-> d.objects, names |-> d.names, revision |-> d.revision]
  BY DEF InitialDatabase
<1>. HIDE DEF d
<1>3. \A o \in DOMAIN InitialObjects :
        InitialObjects[o].name \in Names /\ InitialObjects[o].name # NULL
  BY InitialAssumption DEF Objects
<1>4. IsDb(d)
  BY <1>2, <1>3, InitialAssumption DEF IsDb
<1>5. NamesOK(d)
  <2>1. ASSUME NEW n \in DOMAIN d.names
        PROVE  d.names[n] \in DOMAIN InitialObjects /\ InitialObjects[d.names[n]].name = n
    <3>1. \E o \in DOMAIN InitialObjects : InitialObjects[o].name = n
      BY <1>2
    <3>2. d.names[n] = CHOOSE o \in DOMAIN InitialObjects : InitialObjects[o].name = n
      BY <1>2
    <3>. QED  BY <3>1, <3>2
  <2>2. ASSUME NEW o \in DOMAIN InitialObjects
        PROVE  InitialObjects[o].name \in DOMAIN d.names /\ d.names[InitialObjects[o].name] = o
    <3>1. InitialObjects[o].name \in DOMAIN d.names
      BY <1>2
    <3>. QED  BY <2>1, <3>1, InitialAssumption
  <2>. QED  BY <1>2, <2>1, <2>2 DEF NamesOK
<1>6. \A o \in DOMAIN d.objects \cap Commandable : CommandOK(d.objects[o])
  BY <1>2, InitialAssumption DEF CommandOK
<1>7. SubsOK(Now, db)
  <2>1. Now.subs = << >> /\ Now.indexed = {} /\ Now.timers = [k \in Keys |-> 0]
    BY <1>1 DEF Now
  <2>2. DOMAIN Now.subs = {}
    BY <2>1
  <2>3. IsFiniteSet({})
    BY FS_EmptySet
  <2>. HIDE DEF Now
  <2>. QED  BY <2>1, <2>2, <2>3 DEF SubsOK
<1>8. CurrentOK(subs, db, quiet)
  BY <1>1 DEF CurrentOK
<1>9. DbOK(db) /\ db.revision <= MaxRevision
  BY <1>1, <1>2, <1>4, <1>5, <1>6, COVAssumption DEF DbOK
<1>. QED  BY <1>7, <1>8, <1>9 DEF IInv

LEMMA NextFact ==
  IInv /\ [Next]_vars => IInv'
<1>. SUFFICES ASSUME IInv, [Next]_vars PROVE IInv'
  OBVIOUS
<1>1. CASE \E k \in Keys, finite \in BOOLEAN :
             \/ handle_subscribe_cov(k, finite)
             \/ \E i \in Increments : handle_subscribe_cov_property(k, finite, i)
  BY <1>1, SubscribeStep
<1>2. CASE \E refs \in SubscribeLists, finite \in BOOLEAN :
             handle_subscribe_cov_property_multiple(refs, finite)
  BY <1>2, SubscribeMultipleStep
<1>3. CASE \E k \in Keys : unsubscribe(k) \/ on_subscription_expired(k)
  BY <1>3, EndStep
<1>4. CASE shutdown
  BY <1>4, ShutdownStep
<1>5. CASE \E w \in Writes : handle_write_property(w)
  BY <1>5, WritePropertyStep
<1>6. CASE \E ws \in WriteLists : handle_write_property_multiple(ws)
  BY <1>6, WritePropertyMultipleStep
<1>7. CASE \E w \in LocalWrites : local_write(w)
  BY <1>7, LocalWriteStep
<1>8. CASE \E oid \in ObjectIds : event_state_changes(oid) \/ handle_delete_object(oid)
  BY <1>8, EventStateStep, DeleteStep
<1>9. CASE \E r \in CreateRequests : handle_create_object(r)
  BY <1>9, CreateStep
<1>10. CASE UNCHANGED vars
  <2>1. Now' = Now /\ db' = db /\ subs' = subs /\ quiet' = quiet
    BY <1>10 DEF vars, Now
  <2>2. DbOK(db) /\ db.revision <= MaxRevision /\ SubsOK(Now, db) /\ CurrentOK(subs, db, quiet)
    BY DEF IInv
  <2>. HIDE DEF Now
  <2>. QED  BY <2>1, <2>2 DEF IInv
<1>. QED
  BY <1>1, <1>2, <1>3, <1>4, <1>5, <1>6, <1>7, <1>8, <1>9, <1>10 DEF Next

LEMMA Invariance ==
  Spec => []IInv
<1>. QED  BY InitFact, NextFact, PTL DEF Spec

\* Subscriptions, their indices and their timers agree with one another and
\* with the objects there are, within the limits, whatever is subscribed,
\* cancelled, expired, deleted or shut down in whatever order: every change
\* finds its subscribers and every timer ends the subscription it was armed for.
THEOREM SubscriptionsAgreeTheorem ==
  Spec => []SubscriptionsAgree
<1>1. IInv => SubscriptionsAgree
  <2>. SUFFICES ASSUME IInv PROVE SubscriptionsAgree
    OBVIOUS
  <2>1. /\ DOMAIN subs \subseteq Keys /\ indexed = DOMAIN subs
        /\ \A k \in DOMAIN subs :
             /\ IsSub(k, subs[k]) /\ k.oid \in DOMAIN db.objects
             /\ Cardinality(OfKind(subs, k)) <= MaxSubscriptions
        /\ timers = [k \in Keys |-> IF k \in DOMAIN subs /\ subs[k].finite THEN 1 ELSE 0]
    BY DEF IInv, SubsOK, Now
  <2>2. TypeOK
    <3>1. /\ DOMAIN db.objects \subseteq ObjectIds
          /\ \A o \in DOMAIN db.objects : db.objects[o] \in Objects
          /\ DOMAIN db.names \subseteq Names
          /\ db.revision \in 0 .. MaxRevision
      BY COVAssumption DEF IInv, DbOK, IsDb
    <3>2. timers \in [Keys -> Nat]
      BY <2>1
    <3>. QED  BY <2>1, <3>1, <3>2 DEF TypeOK
  <2>. QED  BY <2>1, <2>2 DEF SubscriptionsAgree, IndexAgrees, OneTimerEach, NoOrphans
<1>. QED  BY <1>1, Invariance, PTL

\* While any priority of an object is commanded its Present_Value is the command
\* of the highest of them, whatever was written, relinquished or changed since,
\* alone or in a list that failed half way (_write_with_priority).
THEOREM HighestCommandWinsTheorem ==
  Spec => []HighestCommandWins
<1>1. IInv => HighestCommandWins
  BY DEF IInv, DbOK, CommandOK, HighestCommandWins
<1>. QED  BY <1>1, Invariance, PTL

\* What the subscribers to an object or to its Present_Value were last told is
\* what it has, or nearer to it than the increment, unless it was changed behind
\* the handlers' back since the last check (check_and_notify).
THEOREM SubscribersCurrentTheorem ==
  Spec => []SubscribersCurrent
<1>1. IInv => SubscribersCurrent
  BY DEF IInv, CurrentOK, Current, SubscribersCurrent
<1>. QED  BY <1>1, Invariance, PTL

\* The index of names lists exactly the names of the objects, so that a name is
\* free as soon as its object is renamed or deleted, provided that Object_Name
\* is written without an array index: a write with one fails after the index
\* was changed (update_name_index before write_property).
THEOREM NamesIndexedTheorem ==
  ASSUME PlainRenames
  PROVE  Spec => []NamesIndexed
<1>1. IInv => NamesIndexed
  BY DEF IInv, DbOK, NamesOK, NamesIndexed
<1>. QED  BY <1>1, Invariance, PTL
=============================================================================
