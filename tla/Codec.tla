------------------------------- MODULE Codec -------------------------------
(***************************************************************************)
(* The encode and decode methods of the services and of the constructed    *)
(* types, as data: a codec is what its encode method appends, item by      *)
(* item, and what its decode method reads, item by item.  The two are      *)
(* written down separately, each from its own method, and interpreted      *)
(* here.  A value is a record of the fields of the class, NULL for None;   *)
(* enumerations stand for their numbers; a list of primitives is a list    *)
(* of records with the one field v.                                        *)
(*                                                                         *)
(* Decoders differ in how much of a tag they check.  What the interpreter  *)
(* takes for granted is told at each item; on octets that no encoder       *)
(* produced, some methods are stricter.                                    *)
(***************************************************************************)
EXTENDS Encoding, FiniteSets

-----------------------------------------------------------------------------
(* What an encode method appends                                           *)

Item(k, f, n, t, T) ==
  [k |-> k, f |-> f, n |-> n, t |-> t, sub |-> T, need |-> {}, unless |-> {}, off |-> {}]

NoSub == [enc |-> <<>>, dec |-> <<>>, arms |-> <<>>, one |-> {}]

(* A context-tagged primitive; an application-tagged one, or one that is   *)
(* the length of the list that follows; raw octets, a structure or a list   *)
(* between an opening and a closing tag (none if n is Bare); three         *)
(* elements; one of several structures, each with its own tags; the octets *)
(* of a primitive without a tag                                            *)
Bare == -1
Put(f, n, t) == Item("ctx", f, n, t, NoSub)
PutApp(f, t) == Item("app", f, Bare, t, NoSub)
PutCount(f) == Item("app", f, Bare, "uns", [counts |-> TRUE])
PutRaw(f, n) == Item("raw", f, n, "", NoSub)
PutSub(f, n, T) == Item("sub", f, n, "", T)
PutList(f, n, T) == Item("list", f, n, "", T)
PutThree(f, n, T) == Item("list", f, n, "three", T)
PutOctets(f, t) == Item("octets", f, Bare, t, NoSub)
PutAlt(f, alts) == Item("alt", f, Bare, "", alts)

(* "if self.f is not None", "if self.f" of a list, "if ... all of fs are", *)
(* "elif", "if not self.b and self.f is not None"                          *)
Opt(item) == [item EXCEPT !.need = {item.f}]
OptNonEmpty(item) == [Opt(item) EXCEPT !.t = "nonempty"]
If(item, fs) == [item EXCEPT !.need = fs]
Else(item, fs) == [item EXCEPT !.need = {item.f}, !.unless = fs]
IfNot(item, b) == [item EXCEPT !.need = {item.f}, !.off = {b}]

Bracketed(n, d) ==
  IF n = Bare THEN d ELSE encode_opening_tag(n) \o d \o encode_closing_tag(n)

Applies(item, v) ==
  /\ \A f \in item.need : v[f] # NULL
  /\ item.t = "nonempty" => v[item.f] # <<>>
  /\ \A f \in item.unless : v[f] = NULL
  /\ \A f \in item.off : ~ v[f]

RECURSIVE encode(_, _)
encode(T, v) ==
  LET one(item) ==
        CASE ~ Applies(item, v) -> <<>>
          [] item.k = "ctx" /\ Applies(item, v) ->
               encode_context_tagged(item.n, encode_primitive(item.t, v[item.f]))
          [] item.k = "app" /\ Applies(item, v) -> encode_application_tagged(item.t, v[item.f])
          [] item.k = "octets" /\ Applies(item, v) -> encode_primitive(item.t, v[item.f])
          [] item.k = "raw" /\ Applies(item, v) -> Bracketed(item.n, v[item.f])
          [] item.k = "sub" /\ Applies(item, v) ->
               Bracketed(item.n, encode(item.sub, v[item.f]))
          [] item.k = "list" /\ Applies(item, v) ->
               Bracketed(item.n, FlattenSeq([i \in DOMAIN v[item.f] |->
                                               encode(item.sub, v[item.f][i])]))
          [] item.k = "alt" /\ Applies(item, v) ->
               LET a == CHOOSE i \in DOMAIN item.sub : item.sub[i].name = v[item.f].alt
               IN Bracketed(item.sub[a].n, encode(item.sub[a].sub, v[item.f].v))
  IN FlattenSeq([i \in DOMAIN T.enc |-> one(T.enc[i])])

-----------------------------------------------------------------------------
(* What a decode method reads                                              *)

(* The next tag whatever it is, and its data                               *)
Get(f, t) == Item("get", f, Bare, t, NoSub)
(* the same of an application-tagged Boolean                               *)
GetBool(f) == Item("getbool", f, Bare, "", NoSub)
(* decode_optional_context, and its spelled-out forms                      *)
GetOpt(f, n, t) == Item("getopt", f, n, t, NoSub)
(* n octets without a tag                                                  *)
GetOctets(f, t, n) == Item("getoctets", f, n, t, NoSub)
(* a primitive if any octet is left                                        *)
GetRest(f, t) == Item("getrest", f, Bare, t, NoSub)
(* a tag, taken to be the opening one, and extract_context_value           *)
GetRaw(f, n) == Item("getraw", f, n, "", NoSub)
GetRawOpt(f, n) == Item("getrawopt", f, n, "", NoSub)
(* what is left before the closing tag of the structure itself             *)
GetInner(f) == Item("getinner", f, Bare, "", NoSub)
(* the same with a scan that skips length octets after every tag           *)
ScanRaw(f) == Item("scanraw", f, Bare, "", NoSub)
ScanRawOpt(f, n) == Item("scanrawopt", f, n, "", NoSub)
(* a structure, or the first of two whose opening tag comes next and else  *)
(* the second, cut out by that scan and then decoded                       *)
ScanSub(f, T) == Item("scansub", f, Bare, "", T)
ScanAlt(f, alts) == Item("scanalt", f, Bare, "", alts)
(* the lists of audit notifications and of audit log records, whose        *)
(* elements are cut out first                                              *)
ScanNotifications(f, T) == Item("scannotifications", f, 0, "", T)
ScanRecords(f, T) == Item("scanrecords", f, 1, "", T)
(* a structure between two tags that are not looked at, or optional        *)
GetSub(f, n, T) == Item("getsub", f, n, "", T)
GetSubOpt(f, n, T) == Item("getsubopt", f, n, "", T)
(* elements up to the closing tag n or the end of the data                 *)
GetList(f, n, T) == Item("getlist", f, n, "", T)
GetListOpt(f, n, T) == Item("getlistopt", f, n, "", T)
(* elements up to the end; as many as the field t tells; three             *)
GetAll(f, T) == Item("getall", f, Bare, "", T)
GetCount(f, t, T) == Item("getcount", f, Bare, t, T)
GetThree(f, n, T) == Item("getthree", f, n, "", T)
(* the structure whose opening tag comes next; NULL if there is none and   *)
(* the choice is optional                                                  *)
GetAlt(f, alts) == Item("getalt", f, Bare, "", alts)
GetAltOpt(f, alts) == Item("getaltopt", f, Bare, "", alts)
(* a structure told by its context tag, which belongs to the structure     *)
GetTagged(f, alts) == Item("gettagged", f, Bare, "", alts)

Alt(name, n, T) == [name |-> name, n |-> n, sub |-> T]

Codec(enc, dec) == [enc |-> enc, dec |-> dec, arms |-> <<>>, one |-> {}]

(* After the items of dec, a loop that takes the tags of arms in any order *)
(* and stops at any other                                                  *)
LoopCodec(enc, dec, arms) == [Codec(enc, dec) EXCEPT !.arms = arms]

(* __post_init__: exactly one of these fields is given.                    *)
ExactlyOne(T, fs) == [T EXCEPT !.one = fs]

(* A structure of one tagged primitive                                     *)
Boxed(n, t) == Codec(<<Put("v", n, t)>>, <<Get("v", t)>>)
BoxedApp(t) == Codec(<<PutApp("v", t)>>, <<Get("v", t)>>)

(* COVPropertyValue and the audit services look for the closing tag with   *)
(* their own scan, which takes length octets after every tag, those of a   *)
(* Boolean too.                                                            *)
RECURSIVE ScanClosing(_, _, _)
ScanClosing(data, off, depth) ==
  IF off >= Len(data) THEN Ok(off, off)
  ELSE Then(decode_tag(data, off),
            LAMBDA t : IF t.kind = "opening"
                       THEN IF depth + 1 > MaxNesting THEN Error
                            ELSE ScanClosing(data, t.off, depth + 1)
                       ELSE IF t.kind = "closing"
                       THEN IF depth = 1 THEN Ok(off, t.off)
                            ELSE ScanClosing(data, t.off, depth - 1)
                       ELSE ScanClosing(data, t.off + t.length, depth))

(* Where a notification ends: before the tag of a second operation, or at  *)
(* the closing tag of the list                                             *)
RECURSIVE NotificationEnd(_, _, _)
NotificationEnd(data, scan, seen) ==
  IF scan >= Len(data) THEN Ok(0, scan)
  ELSE Then(decode_tag(data, scan), LAMBDA t :
    LET operation == t.cls = CONTEXT /\ t.number = 4 IN
    IF IsClosing(t, 0) THEN Ok(0, scan)
    ELSE IF t.kind = "opening"
    THEN Then(ScanClosing(data, t.off, 1),
              LAMBDA inner : NotificationEnd(data, inner.off, seen))
    ELSE IF operation /\ seen THEN Ok(0, scan)
    ELSE NotificationEnd(data, t.off + t.length, seen \/ operation))

(* Mutant: the depth is counted from before the opening tag.               *)
RecordEndDeep(data, off) ==
  Then(decode_tag(data, off), LAMBDA number : ScanClosing(data, number.off + number.length, 1))

(* Where a record ends: after its sequence number and what is between the  *)
(* tags that follow                                                        *)
RecordEnd(data, off) ==
  Then(decode_tag(data, off), LAMBDA number :
    Then(decode_tag(data, number.off + number.length), LAMBDA t :
      IF t.kind = "opening" THEN ScanClosing(data, t.off, 1)
      ELSE Ok(0, number.off + number.length)))

Fields(T) == {T.dec[i].f : i \in DOMAIN T.dec} \cup {T.arms[i].f : i \in DOMAIN T.arms}

RECURSIVE decode_from(_, _, _), item_at(_, _, _, _, _), decode_item(_, _, _, _),
          decode_list(_, _, _, _, _), decode_cut(_, _, _, _), decode_arms(_, _, _)

(* Elements from off on, until the stop condition holds                    *)
decode_list(T, data, off, stop, acc) ==
  LET t == decode_tag(data, off) IN
  IF stop.k = "count" /\ Len(acc) = stop.n THEN Ok(acc, off)
  ELSE IF stop.k # "count" /\ off >= Len(data) THEN Ok(acc, off)
  ELSE IF stop.k = "closing" /\ IsClosing(t, stop.n) THEN Ok(acc, t.off)
  ELSE Then(decode_from(T, data, off),
            LAMBDA r : decode_list(T, data, r.off, stop, Append(acc, r.v)))

Until(k, n) == [k |-> k, n |-> n]

(* Elements that are cut out first, up to the closing tag                  *)
CutEnd(item, data, off) ==
  IF item.k = "scanrecords" THEN RecordEnd(data, off) ELSE NotificationEnd(data, off, FALSE)

decode_cut(item, data, off, acc) ==
  IF off >= Len(data) THEN Ok(acc, off)
  ELSE LET t == decode_tag(data, off) IN
  IF IsClosing(t, item.n) THEN Ok(acc, t.off)
  ELSE Then(CutEnd(item, data, off), LAMBDA end :
         Then(decode_from(item.sub, Slice(data, off, end.off), 0),
              LAMBDA r : decode_cut(item, data, end.off, Append(acc, r.v))))

(* The primitive after a tag; the tag that closes what r was made of       *)
After(t, type, data) ==
  Then(decode_primitive(type, Slice(data, t.off, t.off + t.length)),
       LAMBDA r : Ok(r.v, t.off + t.length))

SkipTag(r, data) == Then(decode_tag(data, r.off), LAMBDA t : Ok(r.v, t.off))

Scanned(data, start) ==
  Then(ScanClosing(data, start, 1), LAMBDA c : Ok(Slice(data, start, c.v), c.off))

Chosen(alt, v) == [alt |-> alt.name, v |-> v]

(* One item, with the tag that comes next: its value, and the offset after *)
item_at(item, data, off, val, tag) ==
  LET opening == IsOpening(tag, item.n)
      sub(start) ==
        Then(decode_from(item.sub, data, start),
             LAMBDA r : IF item.n = Bare THEN r ELSE SkipTag(r, data))
      list(start, stop) == decode_list(item.sub, data, start, stop, <<>>)
      opened == {i \in DOMAIN item.sub : IsOpening(tag, item.sub[i].n)}
      alternative(alt) ==
        Then(decode_from(alt.sub, data, tag.off),
             LAMBDA r : SkipTag(Ok(Chosen(alt, r.v), r.off), data))
      tagged == {i \in DOMAIN item.sub :
                   IsContext(tag, item.sub[i].n) \/ IsOpening(tag, item.sub[i].n)}
  IN
  CASE item.k = "getoctets" ->
         Then(decode_primitive(item.t, Slice(data, off, off + item.n)),
              LAMBDA r : Ok(r.v, off + item.n))
    [] item.k = "getopt" /\ ~ IsContext(tag, item.n) -> Ok(NULL, off)
    [] item.k \in {"scanrawopt", "getrawopt", "getsubopt", "getlistopt"} /\ ~ opening ->
         Ok(NULL, off)
    [] item.k = "getrest" /\ off >= Len(data) -> Ok(NULL, off)
    [] item.k = "getinner" ->
         Then(FindClosing(data, off, 1), LAMBDA c : Ok(Slice(data, off, c.off), c.off))
    [] item.k = "getall" -> list(off, Until("end", 0))
    [] item.k = "getcount" -> list(off, Until("count", val[item.t]))
    [] item.k \in {"getalt", "getaltopt"} ->
         IF opened # {} THEN alternative(item.sub[CHOOSE i \in opened : TRUE])
         ELSE IF item.k = "getalt" THEN Error ELSE Ok(NULL, off)
    [] item.k = "gettagged" ->
         IF tagged = {} THEN Error
         ELSE LET alt == item.sub[CHOOSE i \in tagged : TRUE] IN
              Then(decode_from(alt.sub, data, off), LAMBDA r : Ok(Chosen(alt, r.v), r.off))
    [] item.k = "getsub" /\ item.n = Bare -> sub(off)
    [] OTHER -> Then(tag, LAMBDA t :
         CASE item.k \in {"get", "getopt", "getrest"} -> After(t, item.t, data)
           [] item.k = "getbool" -> Ok(is_boolean_true(t), t.off)
           [] item.k \in {"getraw", "getrawopt"} -> extract_context_value(data, t.off, item.n)
           [] item.k \in {"scanraw", "scanrawopt"} -> Scanned(data, t.off)
           [] item.k = "scansub" ->
                Then(Scanned(data, t.off),
                     LAMBDA c : Then(decode_from(item.sub, c.v, 0), LAMBDA r : Ok(r.v, c.off)))
           [] item.k = "scanalt" ->
                LET alt == item.sub[IF IsOpening(t, item.sub[1].n) THEN 1 ELSE 2] IN
                Then(Scanned(data, t.off),
                     LAMBDA c : Then(decode_from(alt.sub, c.v, 0),
                                     LAMBDA r : Ok(Chosen(alt, r.v), c.off)))
           [] item.k \in {"scanrecords", "scannotifications"} ->
                decode_cut(item, data, t.off, <<>>)
           [] item.k \in {"getsub", "getsubopt"} -> sub(t.off)
           [] item.k \in {"getlist", "getlistopt"} -> list(t.off, Until("closing", item.n))
           [] item.k = "getthree" ->
                Then(list(t.off, Until("count", 3)), LAMBDA r : SkipTag(r, data)))

decode_item(item, data, off, val) == item_at(item, data, off, val, decode_tag(data, off))

(* The loop: the arm the next tag belongs to                               *)
ArmAt(T, tag) ==
  {i \in DOMAIN T.arms : IF T.arms[i].k = "getopt" THEN IsContext(tag, T.arms[i].n)
                         ELSE IsOpening(tag, T.arms[i].n)}

decode_arms(T, data, r) ==
  IF r.off >= Len(data) THEN r
  ELSE LET arm == ArmAt(T, decode_tag(data, r.off)) IN
  IF arm = {} THEN r
  ELSE LET item == T.arms[CHOOSE i \in arm : TRUE] IN
       Then(decode_item(item, data, r.off, r.v),
            LAMBDA x : decode_arms(T, data, Ok([r.v EXCEPT ![item.f] = x.v], x.off)))

(* The fields in the order of the decode method                            *)
decode_from(T, data, offset) ==
  Then(FoldLeft(LAMBDA s, item :
                  Then(s, LAMBDA r : Then(decode_item(item, data, r.off, r.v),
                                          LAMBDA x : Ok([r.v EXCEPT ![item.f] = x.v], x.off))),
                Ok([f \in Fields(T) |-> NULL], offset), T.dec),
       LAMBDA r : IF T.arms = <<>> THEN r ELSE decode_arms(T, data, r))

decode(T, data) == decode_from(T, data, 0)

-----------------------------------------------------------------------------
(* to_dict and from_dict: the forms of a value that JSON can hold.  Octets *)
(* become hexadecimal digits, unspecified parts of dates and times None,   *)
(* a bit string a list of Booleans, and an object type its name, which     *)
(* from_dict looks up among the named ones.  A field that is None has no   *)
(* key; a choice is told by a name.                                        *)

hex(d) == FlattenSeq([i \in DOMAIN d |-> <<d[i] \div 16, d[i] % 16>>])
fromhex(h) == [i \in 1 .. Len(h) \div 2 |-> 16 * h[2 * i - 1] + h[2 * i]]

Unspecified == 255

(* Standard object types have names that ObjectType knows.                 *)
NamedObjectTypes == 0 .. 64

primitive_to_dict(t, v) ==
  CASE t \in {"date", "time", "week"} ->
         [i \in DOMAIN v |-> IF v[i] = Unspecified THEN NULL ELSE v[i]]
    [] t = "oct" -> hex(v)
    [] t = "bits" -> [bits |-> [i \in 1 .. Significant(v) |-> Bit(v.data, i - 1)],
                      unused_bits |-> v.unused_bits]
    [] t = "oid" -> [object_type |-> <<"name of", v[1]>>, instance |-> v[2]]
    [] OTHER -> v

primitive_from_dict(t, d) ==
  CASE t \in {"date", "time", "week"} ->
         Ok([i \in DOMAIN d |-> IF d[i] = NULL THEN Unspecified ELSE d[i]], 0)
    [] t = "oct" -> Ok(fromhex(d), 0)
    [] t = "bits" ->
         LET set(i) == i <= Len(d.bits) /\ d.bits[i]
             octet(k) == FoldLeft(LAMBDA a, i : 2 * a + (IF set(8 * k - 8 + i) THEN 1 ELSE 0),
                                  0, <<1, 2, 3, 4, 5, 6, 7, 8>>)
         IN Ok([unused_bits |-> d.unused_bits,
                data |-> [k \in 1 .. (Len(d.bits) + 7) \div 8 |-> octet(k)]], 0)
    [] t = "oid" -> IF d.object_type[2] \in NamedObjectTypes
                    THEN Ok(<<d.object_type[2], d.instance>>, 0) ELSE Error
    [] OTHER -> Ok(d, 0)

ItemOf(T, f) == T.enc[CHOOSE i \in DOMAIN T.enc : T.enc[i].f = f]
FieldsOf(T) == {T.enc[i].f : i \in DOMAIN T.enc}
AltOf(alts, name) == alts[CHOOSE i \in DOMAIN alts : alts[i].name = name]

RECURSIVE to_dict(_, _), from_dict(_, _)
to_dict(T, v) ==
  LET field(f) ==
        LET item == ItemOf(T, f) IN
        CASE item.k \in {"ctx", "app", "octets"} -> primitive_to_dict(item.t, v[f])
          [] item.k = "raw" -> hex(v[f])
          [] item.k = "sub" -> to_dict(item.sub, v[f])
          [] item.k = "list" -> [i \in DOMAIN v[f] |-> to_dict(item.sub, v[f][i])]
          [] item.k = "alt" -> [choice |-> v[f].alt,
                                value |-> to_dict(AltOf(item.sub, v[f].alt).sub, v[f].v)]
  IN [f \in {g \in FieldsOf(T) : v[g] # NULL} |-> field(f)]

from_dict(T, d) ==
  LET field(f) ==
        LET item == ItemOf(T, f)
            chosen == from_dict(AltOf(item.sub, d[f].choice).sub, d[f].value)
            parts == [i \in DOMAIN d[f] |-> from_dict(item.sub, d[f][i])]
        IN CASE item.k \in {"ctx", "app", "octets"} -> primitive_from_dict(item.t, d[f])
             [] item.k = "raw" -> Ok(fromhex(d[f]), 0)
             [] item.k = "sub" -> from_dict(item.sub, d[f])
             [] item.k = "list" -> IF \E i \in DOMAIN parts : ~ parts[i].ok THEN Error
                                   ELSE Ok([i \in DOMAIN parts |-> parts[i].v], 0)
             [] item.k = "alt" -> IF chosen.ok THEN Ok([alt |-> d[f].choice, v |-> chosen.v], 0)
                                  ELSE Error
      fields == [f \in FieldsOf(T) |-> IF f \in DOMAIN d THEN field(f) ELSE Ok(NULL, 0)]
  IN IF \E f \in FieldsOf(T) : ~ fields[f].ok THEN Error
     ELSE Ok([f \in FieldsOf(T) |-> fields[f].v], 0)
=============================================================================
