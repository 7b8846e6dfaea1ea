----------------------------- MODULE Converters -----------------------------
(***************************************************************************)
(* What the client makes of the engine's answer: the converters of each    *)
(* record backend (_fastparse.py, _slimmodel.py, _msgspecmodel.py, and     *)
(* pydantic) and the results of raw SQL (_raw_query.py).                   *)
(*                                                                         *)
(* On the wire a scalar is [text |-> v] when JSON has no such type,        *)
(* [num |-> v] for a number that need not be a float, [py |-> v] when      *)
(* nothing has to be converted; a record is [dict |-> ...], a list [list   *)
(* |-> ...], an absence None.  A Python value is [py |-> v], a record of a *)
(* class [record |-> class, of |-> ...].                                   *)
(***************************************************************************)
EXTENDS Records

Backends == {"pydantic", "fast", "slim", "msgspec"}

-----------------------------------------------------------------------------
(* Converters.                                                             *)

\* The tags whose wire form is not already the Python value, in each table:
\* the validators, converter_for_annotation, _SCALAR_BY_TAG, and msgspec with
\* strict=False and _dec_hook.
Converted(backend) ==
  CASE backend = "pydantic" -> {"bigint", "float", "datetime", "decimal", "json", "base64"}
    [] backend = "fast"     -> {"int", "bigint", "float", "datetime", "date", "decimal", "base64", "json"}
    [] backend = "slim"     -> {"int", "bigint", "float", "datetime", "date", "decimal", "json", "base64"}
    [] backend = "msgspec"  -> {"bigint", "float", "datetime", "decimal"} \cup {"base64", "json"}

ToPython(wire) ==
  [py |-> CASE "text" \in DOMAIN wire -> wire.text
            [] "num" \in DOMAIN wire  -> wire.num
            [] OTHER                  -> wire.py]

ConvertScalar(backend, tag, wire) ==
  IF wire # None /\ tag \in Converted(backend) THEN ToPython(wire) ELSE wire

\* A ValidationError somewhere below.
Invalid == [invalid |-> TRUE]

\* A required list that was never set: only the generated pydantic validator
\* turns it into an empty one, only msgspec and pydantic mind a missing value.
Absence(backend, spec) ==
  CASE spec.opt                             -> None
    [] backend = "pydantic" /\ spec.list    -> [list |-> <<>>]
    [] backend \in {"pydantic", "msgspec"}  -> Invalid
    [] OTHER                                -> None

\* from_engine, fast_parse, model_validate and msgspec.convert of a class.
RECURSIVE Parse(_, _, _)
Parse(backend, class, wire) ==
  LET item(spec, w) == IF spec.relation THEN Parse(backend, spec.of, w)
                       ELSE ConvertScalar(backend, spec.of, w)
      field(spec, w) == CASE w = None  -> Absence(backend, spec)
                          [] spec.list -> [list |-> [i \in DOMAIN w.list |-> item(spec, w.list[i])]]
                          [] OTHER     -> item(spec, w)
      get(f) == IF f \in DOMAIN wire.dict THEN wire.dict[f] ELSE None
      values == [f \in DOMAIN Fields(class) |-> field(Fields(class)[f], get(f))]
      bad(v) == \/ v = Invalid
                \/ v # None /\ "list" \in DOMAIN v /\ \E i \in DOMAIN v.list : v.list[i] = Invalid
  IN IF wire = None \/ \E f \in DOMAIN values : bad(values[f]) THEN Invalid
     ELSE [record |-> class, of |-> values]

\* model_parse: a record that the one-pass decoder already built is kept.
ModelParse(backend, class, obj) ==
  IF obj # None /\ "record" \in DOMAIN obj THEN obj ELSE Parse(backend, class, obj)

-----------------------------------------------------------------------------
(* Raw SQL: the rows come with a type for each column.                     *)

\* DESERIALIZERS.  A Json value that the database returns as an object is
\* made a string again for a record, which parses it once more.
DeserializeRaw(tag, wire, forModel) ==
  CASE wire = None    -> None
    [] tag = "bigint"  -> ToPython(wire)
    [] tag = "decimal" -> [num |-> wire.text]
    [] tag = "json" /\ forModel /\ "text" \notin DOMAIN wire -> [text |-> wire.py]
    [] OTHER           -> wire

DeserializeRow(class, row) ==
  [dict |-> [f \in DOMAIN row |->
     LET spec == ModelFields(ModelOf(class))[f]
     IN IF spec.list /\ row[f] # None
        THEN [list |-> [i \in DOMAIN row[f].list |-> DeserializeRaw(spec.of, row[f].list[i], TRUE)]]
        ELSE DeserializeRaw(spec.of, row[f], TRUE)]]

DeserializeRawResults(backend, class, rows) ==
  [i \in DOMAIN rows |-> ModelParse(backend, class, DeserializeRow(class, rows[i]))]

=============================================================================
