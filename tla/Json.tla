-------------------------------- MODULE Json --------------------------------
(***************************************************************************)
(* JSON values, and which of them a declared type accepts: what serde      *)
(* makes of the attributes used throughout crates/rocketsocket-model, and  *)
(* the adapters of datetime.rs, id.rs and entity.rs that soften it.        *)
(*                                                                         *)
(* A text is told apart as far as the program takes it apart, and no       *)
(* further: most are model values.  Numbers are small, members of an       *)
(* object have one value each, and objects are written with their names.   *)
(***************************************************************************)
EXTENDS Naturals, Sequences, TLC

CONSTANT RfcDates   \* the texts that are RFC 3339 timestamps

Null == [is |-> "null"]
Truth(flag) == [is |-> "bool", flag |-> flag]
Str(text) == [is |-> "string", text |-> text]
Num(number) == [is |-> "int", number |-> number]
Fraction == [is |-> "float"]
List(items) == [is |-> "array", items |-> items]
Object(has) == [is |-> "object", has |-> has]

Given(v, name) == v.is = "object" /\ name \in DOMAIN v.has
HasText(v, name) == Given(v, name) /\ v.has[name].is = "string"

-----------------------------------------------------------------------------
(* Shapes: the types that members and arguments are declared with.         *)

All(shape, names) == [name \in names |-> shape]
NoMembers == [name \in {} |-> Null]

Raw == [reads |-> "anything"]
Text == [reads |-> "string"]
NonEmpty == [reads |-> "non-empty"]
Bool == [reads |-> "bool"]
Int == [reads |-> "int"]
Byte == [reads |-> "byte"]
Float == [reads |-> "float"]
Array == [reads |-> "array"]
Date == [reads |-> "date"]
MaybeDate == [reads |-> "maybe date"]
HoleyTexts == [reads |-> "holey texts"]

\* wire_enum: a text, whether or not it is one of the values known.
Enum(known) == [reads |-> "enum", known |-> known]
ListOf(shape) == [reads |-> "list", of |-> shape]
MapOf(shape) == [reads |-> "map", of |-> shape]
Either(first, second) == [reads |-> "either", first |-> first, second |-> second]
Tuple(slots) == [reads |-> "tuple", slots |-> slots]

\* A struct.  An optional member may be absent or null, a defaulted one only
\* absent, and a closed struct has no members beside those it declares.
Struct(required, optional) ==
  [reads |-> "struct", required |-> required, optional |-> optional,
   defaulted |-> NoMembers, closed |-> FALSE]
Defaulting(struct, members) == [struct EXCEPT !.defaulted = members]
Closed(struct) == [struct EXCEPT !.closed = TRUE]

\* One place of a positional list of arguments.
Req(shape) == [shape |-> shape, need |-> "required"]
Opt(shape) == [shape |-> shape, need |-> "optional"]
Lax(shape) == [shape |-> shape, need |-> "lenient"]

-----------------------------------------------------------------------------
(* TimestampVisitor: EJSON, milliseconds or RFC 3339, and the EJSON form   *)
(* around any of them.                                                     *)
RECURSIVE DateIn(_)
DateIn(v) ==
  CASE v.is = "null" -> "absent"
    [] v.is \in {"int", "float"} -> "date"
    [] v.is = "string" /\ v.text \in RfcDates -> "date"
    [] Given(v, "$date") -> DateIn(v.has["$date"])
    [] OTHER -> "none"

RECURSIVE Reads(_, _)

\* opt and req: a place beyond the end, or holding null, is absent; whatever
\* is there has to fit, and further places do not matter.
Fits(args, slots) ==
  \A i \in DOMAIN slots :
    LET absent == i > Len(args) \/ args[i].is = "null"
    IN \/ slots[i].need = "lenient"
       \/ slots[i].need = "optional" /\ absent
       \/ i <= Len(args) /\ Reads(slots[i].shape, args[i])

\* Mutant: deny_unknown_fields wherever a struct is declared.
ReadsMembersStrictly(s, has) ==
  /\ DOMAIN s.required \subseteq DOMAIN has
  /\ \A name \in DOMAIN has :
       \/ name \in DOMAIN s.required /\ Reads(s.required[name], has[name])
       \/ name \in DOMAIN s.optional /\ (has[name].is = "null" \/ Reads(s.optional[name], has[name]))
       \/ name \in DOMAIN s.defaulted /\ Reads(s.defaulted[name], has[name])

ReadsMembers(s, has) ==
  /\ DOMAIN s.required \subseteq DOMAIN has
  /\ \A name \in DOMAIN has :
       /\ name \in DOMAIN s.required => Reads(s.required[name], has[name])
       /\ name \in DOMAIN s.optional => has[name].is = "null" \/ Reads(s.optional[name], has[name])
       /\ name \in DOMAIN s.defaulted => Reads(s.defaulted[name], has[name])
       /\ s.closed => name \in DOMAIN s.required \cup DOMAIN s.optional \cup DOMAIN s.defaulted

\* Deserialization of `v' as `shape' succeeds.
Reads(shape, v) ==
  CASE shape.reads = "anything"   -> TRUE
    [] shape.reads \in {"string", "enum"} -> v.is = "string"
    [] shape.reads = "non-empty"  -> v.is = "string" /\ v.text # ""
    [] shape.reads \in {"bool", "int", "array"} -> v.is = shape.reads
    [] shape.reads = "byte"       -> v.is = "int" /\ v.number \in 0..255
    [] shape.reads = "float"      -> v.is \in {"int", "float"}
    [] shape.reads = "date"       -> DateIn(v) = "date"
    [] shape.reads = "maybe date" -> DateIn(v) \in {"date", "absent"}
    [] shape.reads = "holey texts" ->
         v.is = "array" /\ \A i \in DOMAIN v.items : v.items[i].is \in {"null", "string"}
    [] shape.reads = "list" ->
         v.is = "array" /\ \A i \in DOMAIN v.items : Reads(shape.of, v.items[i])
    [] shape.reads = "map" ->
         v.is = "object" /\ \A name \in DOMAIN v.has : Reads(shape.of, v.has[name])
    [] shape.reads = "either" -> Reads(shape.first, v) \/ Reads(shape.second, v)
    [] shape.reads = "tuple"  -> v.is = "array" /\ Fits(v.items, shape.slots)
    [] shape.reads = "struct" -> v.is = "object" /\ ReadsMembers(shape, v.has)

=============================================================================
