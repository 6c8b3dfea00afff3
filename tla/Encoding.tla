------------------------------ MODULE Encoding ------------------------------
(***************************************************************************)
(* Octets, tags and primitive values: encoding/tags.py and                 *)
(* encoding/primitives.py.                                                 *)
(*                                                                         *)
(* An encoding is a sequence of octets; offsets count from 0, as in the    *)
(* code.  Whatever raises an exception in the code yields Error here.      *)
(* Floating-point values stand for what struct packs them into, strings    *)
(* for their code points, which are below 128.                             *)
(***************************************************************************)
EXTENDS Integers, Sequences, SequencesExt

CONSTANT NULL   \* None

Error == [ok |-> FALSE]
Ok(v, off) == [ok |-> TRUE, v |-> v, off |-> off]

(* What goes on with a result, or is left by its exception                 *)
Then(r, Continue(_)) == IF r.ok THEN Continue(r) ELSE Error

(* data[a : b], which is short where data is                               *)
Slice(data, a, b) == SubSeq(data, a + 1, IF b > Len(data) THEN Len(data) ELSE b)

(* int.to_bytes and int.from_bytes, "big"                                  *)
to_bytes(v, n) == [i \in 1 .. n |-> (v \div (256 ^ (n - i))) % 256]
from_bytes(d) == FoldLeft(LAMBDA a, o : a * 256 + o, 0, d)
Complement(d) == [i \in DOMAIN d |-> 255 - d[i]]

-----------------------------------------------------------------------------
(* Tags                                                                    *)

APPLICATION == 0
CONTEXT == 1

(* The length that follows the initial octet when it does not fit there    *)
ExtendedLength(length) ==
  IF length <= 4 THEN <<>>
  ELSE IF length <= 253 THEN <<length>>
  ELSE IF length <= 65535 THEN <<254>> \o to_bytes(length, 2)
  ELSE <<255>> \o to_bytes(length, 4)

encode_tag(tag_number, cls, length) ==
  LET nibble == IF tag_number <= 14 THEN tag_number ELSE 15
      lvt == IF length <= 4 THEN length ELSE 5
  IN <<nibble * 16 + cls * 8 + lvt>>
       \o (IF tag_number <= 14 THEN <<>> ELSE <<tag_number>>)
       \o ExtendedLength(length)

encode_opening_tag(tag_number) ==
  IF tag_number <= 14 THEN <<tag_number * 16 + 14>> ELSE <<254, tag_number>>

encode_closing_tag(tag_number) ==
  IF tag_number <= 14 THEN <<tag_number * 16 + 15>> ELSE <<255, tag_number>>

Tag(number, cls, length, kind, off) ==
  [ok |-> TRUE, number |-> number, cls |-> cls, length |-> length, kind |-> kind, off |-> off]

MaxLength == 1048576

(* The extended length at off: its value, and where it ends                *)
extended_length(buf, off) ==
  IF off >= Len(buf) THEN Error
  ELSE LET ext == buf[off + 1]
           n == IF ext <= 253 THEN 0 ELSE IF ext = 254 THEN 2 ELSE 4
       IN IF n = 0 THEN Ok(ext, off + 1)
          ELSE IF off + 1 + n > Len(buf) THEN Error
          ELSE Ok(from_bytes(Slice(buf, off + 1, off + 1 + n)), off + 1 + n)

(* The tag whose initial octet and number end before off                   *)
TagBefore(buf, off, number, cls, lvt) ==
  IF cls = CONTEXT /\ lvt = 6 THEN Tag(number, cls, 0, "opening", off)
  ELSE IF cls = CONTEXT /\ lvt = 7 THEN Tag(number, cls, 0, "closing", off)
  ELSE IF lvt < 5 THEN Tag(number, cls, lvt, "primitive", off)
  ELSE Then(extended_length(buf, off),
            LAMBDA ext : IF ext.v > MaxLength THEN Error
                         ELSE Tag(number, cls, ext.v, "primitive", ext.off))

decode_tag(buf, offset) ==
  IF offset >= Len(buf) THEN Error
  ELSE
  LET initial == buf[offset + 1] IN
  IF initial \div 16 < 15
  THEN TagBefore(buf, offset + 1, initial \div 16, (initial \div 8) % 2, initial % 8)
  ELSE IF offset + 1 >= Len(buf) THEN Error
  ELSE TagBefore(buf, offset + 2, buf[offset + 2], (initial \div 8) % 2, initial % 8)

is_boolean_true(tag) == tag.cls = APPLICATION /\ tag.number = 1 /\ tag.length # 0

IsOpening(tag, n) == tag.ok /\ tag.kind = "opening" /\ tag.number = n
IsClosing(tag, n) == tag.ok /\ tag.kind = "closing" /\ tag.number = n
IsContext(tag, n) ==
  tag.ok /\ tag.cls = CONTEXT /\ tag.kind = "primitive" /\ tag.number = n

-----------------------------------------------------------------------------
(* Constructed data                                                        *)

(* Mutant: a Boolean is taken to be followed by its value.                 *)
ContentEndScanned(tag) == tag.off + tag.length

(* Where the data of a tag ends; the value of an application-tagged        *)
(* Boolean is in its tag.                                                  *)
ContentEnd(tag) ==
  IF tag.cls = APPLICATION /\ tag.number = 1 THEN tag.off ELSE tag.off + tag.length

MaxNesting == 32

(* From an offset within depth open tags to the closing tag of the         *)
(* outermost one: where it starts, and the tag                             *)
RECURSIVE FindClosing(_, _, _)
FindClosing(data, off, depth) ==
  Then(decode_tag(data, off),
       LAMBDA t : IF t.kind = "opening"
                  THEN IF depth + 1 > MaxNesting THEN Error
                       ELSE FindClosing(data, t.off, depth + 1)
                  ELSE IF t.kind = "closing"
                  THEN IF depth = 1 THEN Ok(t, off) ELSE FindClosing(data, t.off, depth - 1)
                  ELSE IF ContentEnd(t) > Len(data) THEN Error
                  ELSE FindClosing(data, ContentEnd(t), depth))

(* The raw octets between the opening tag before offset and its closing tag *)
extract_context_value(data, offset, tag_number) ==
  Then(FindClosing(data, offset, 1),
       LAMBDA closing : IF closing.v.number # tag_number THEN Error
                        ELSE Ok(Slice(data, offset, closing.off), closing.v.off))

-----------------------------------------------------------------------------
(* Primitive values                                                        *)

encode_unsigned(v) ==
  to_bytes(v, IF v <= 255 THEN 1 ELSE IF v <= 65535 THEN 2 ELSE IF v <= 16777215 THEN 3 ELSE 4)

decode_unsigned(d) == Ok(from_bytes(d), 0)

min_signed_bytes(v) ==
  LET fits == {n \in 1 .. 3 : - (2 ^ (8 * n - 1)) <= v /\ v < 2 ^ (8 * n - 1)}
  IN IF fits = {} THEN 4 ELSE CHOOSE n \in fits : \A m \in fits : n <= m

encode_signed(v) ==
  LET n == min_signed_bytes(v) IN
  IF v < 0 THEN Complement(to_bytes(- v - 1, n)) ELSE to_bytes(v, n)

decode_signed(d) ==
  IF d = <<>> THEN Ok(0, 0)
  ELSE Ok(IF d[1] >= 128 THEN - from_bytes(Complement(d)) - 1 ELSE from_bytes(d), 0)

AtLeast(d, n, v) == IF Len(d) < n THEN Error ELSE Ok(v, 0)

encode_character_string(s) == <<0>> \o s
decode_character_string(d) == IF d = <<>> THEN Error ELSE Ok(Tail(d), 0)

encode_bit_string(b) == <<b.unused_bits>> \o b.data
decode_bit_string(d) ==
  IF d = <<>> THEN Error
  ELSE IF d[1] > 7 THEN Error
  ELSE Ok([unused_bits |-> d[1], data |-> Tail(d)], 0)

UnspecifiedYear == 255

encode_date(d) ==
  <<IF d[1] = UnspecifiedYear THEN 255 ELSE d[1] - 1900, d[2], d[3], d[4]>>
decode_date(d) ==
  IF Len(d) < 4 THEN Error
  ELSE Ok(<<IF d[1] = 255 THEN UnspecifiedYear ELSE d[1] + 1900, d[2], d[3], d[4]>>, 0)

decode_time(d) == IF Len(d) < 4 THEN Error ELSE Ok(SubSeq(d, 1, 4), 0)

(* The type in 10 bits and the instance in 22                              *)
encode_object_identifier(o) == to_bytes(o[1] * 4194304 + o[2], 4)
decode_object_identifier(d) ==
  IF Len(d) < 4 THEN Error
  ELSE LET v == from_bytes(Slice(d, 0, 4)) IN Ok(<<v \div 4194304, v % 4194304>>, 0)

(* StatusFlags and ResultFlags, sequences of Booleans, as bit strings; bits *)
(* that are not there are False                                            *)
Bit(d, i) == (d[(i \div 8) + 1] \div (2 ^ (7 - (i % 8)))) % 2 = 1
Significant(b) == 8 * Len(b.data) - b.unused_bits
to_bit_string(f) ==
  LET unused == 8 - Len(f)
      value == FoldLeft(LAMBDA a, x : 2 * a + (IF x THEN 1 ELSE 0), 0, f)
  IN [unused_bits |-> unused, data |-> <<value * 2 ^ unused>>]
from_bit_string(b, n) == [i \in 1 .. n |-> i <= Significant(b) /\ Bit(b.data, i - 1)]

encode_boolean(b) == IF b THEN <<1>> ELSE <<0>>
decode_boolean(d) == IF d = <<>> THEN Error ELSE Ok(d[1] # 0, 0)

(* What the types of fields are called here; "pri" is an Unsigned in       *)
(* 1 .. 16, "u16" one below 65536, "pwd" a string of 1 .. 20 characters,   *)
(* each checked by the decoders that use it; "flags" are StatusFlags,        *)
(* "result" ResultFlags, "week" is a BACnetWeekNDay; "null" is 0.          *)
encode_primitive(t, v) ==
  CASE t \in {"uns", "enum", "pri", "u16"} -> encode_unsigned(v)
    [] t = "sgn" -> encode_signed(v)
    [] t = "bool" -> encode_boolean(v)
    [] t \in {"str", "pwd"} -> encode_character_string(v)
    [] t = "bits" -> encode_bit_string(v)
    [] t \in {"flags", "result"} -> encode_bit_string(to_bit_string(v))
    [] t = "date" -> encode_date(v)
    [] t = "oid" -> encode_object_identifier(v)
    [] t \in {"oct", "real", "dbl", "time", "week"} -> v

Within(r, ok) == Then(r, LAMBDA x : IF ok THEN x ELSE Error)

decode_primitive(t, d) ==
  CASE t \in {"uns", "enum"} -> decode_unsigned(d)
    [] t = "pri" -> Within(decode_unsigned(d), decode_unsigned(d).v \in 1 .. 16)
    [] t = "u16" -> Within(decode_unsigned(d), decode_unsigned(d).v <= 65535)
    [] t = "sgn" -> decode_signed(d)
    [] t = "bool" -> decode_boolean(d)
    [] t = "str" -> decode_character_string(d)
    [] t = "pwd" -> Within(decode_character_string(d), Len(d) - 1 \in 1 .. 20)
    [] t = "bits" -> decode_bit_string(d)
    [] t \in {"flags", "result"} ->
         Then(decode_bit_string(d),
              LAMBDA b : Ok(from_bit_string(b.v, IF t = "flags" THEN 4 ELSE 3), 0))
    [] t = "date" -> decode_date(d)
    [] t = "oid" -> decode_object_identifier(d)
    [] t = "oct" -> Ok(d, 0)
    [] t = "real" -> AtLeast(d, 4, Slice(d, 0, 4))
    [] t = "dbl" -> AtLeast(d, 8, Slice(d, 0, 8))
    [] t = "time" -> decode_time(d)
    [] t = "null" -> Ok(0, 0)

(* _TAG_NULL .. _TAG_OBJECT_IDENTIFIER                                     *)
ApplicationTag ==
  [null |-> 0, bool |-> 1, uns |-> 2, sgn |-> 3, real |-> 4, dbl |-> 5, oct |-> 6, str |-> 7,
   bits |-> 8, enum |-> 9, date |-> 10, time |-> 11, oid |-> 12]

encode_context_tagged(n, d) == encode_tag(n, CONTEXT, Len(d)) \o d

encode_application_boolean(b) == encode_tag(1, APPLICATION, IF b THEN 1 ELSE 0)

encode_application_tagged(t, v) ==
  IF t = "null" THEN encode_tag(0, APPLICATION, 0)
  ELSE IF t = "bool" THEN encode_application_boolean(v)
  ELSE LET d == encode_primitive(t, v)
       IN encode_tag(ApplicationTag[t], APPLICATION, Len(d)) \o d

(* The type of an application-tagged value is told by its tag.             *)
decode_application_value(data) ==
  Then(decode_tag(data, 0), LAMBDA tag :
    IF tag.cls # APPLICATION THEN Error
    ELSE IF tag.number = 0 THEN Ok(<<"null", 0>>, tag.off)
    ELSE IF tag.number = 1 THEN Ok(<<"bool", is_boolean_true(tag)>>, tag.off)
    ELSE IF tag.off + tag.length > Len(data) \/ tag.number > 12 THEN Error
    ELSE LET t == CHOOSE u \in DOMAIN ApplicationTag : ApplicationTag[u] = tag.number IN
         Then(decode_primitive(t, Slice(data, tag.off, tag.off + tag.length)),
              LAMBDA r : Ok(<<t, r.v>>, tag.off + tag.length)))

(* decode_all_application_values: element by element, each cut out by its  *)
(* tag first                                                               *)
RECURSIVE decode_all_application_values(_)
decode_all_application_values(data) ==
  IF data = <<>> THEN Ok(<<>>, 0)
  ELSE Then(decode_tag(data, 0), LAMBDA tag :
    IF tag.cls # APPLICATION THEN Error
    ELSE Then(decode_application_value(Slice(data, 0, ContentEnd(tag))), LAMBDA first :
      Then(decode_all_application_values(Slice(data, ContentEnd(tag), Len(data))),
           LAMBDA rest : Ok(<<first.v>> \o rest.v, 0))))
=============================================================================
