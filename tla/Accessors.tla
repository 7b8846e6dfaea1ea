------------------------------ MODULE Accessors ------------------------------
(* The lookups a program makes in the generated metadata (_schema.py), and   *)
(* the values it writes by hand with their help (sa/_values.py): fields      *)
(* become columns, members of enums become labels, and what the query engine *)
(* would have filled in is filled in.                                        *)
(*                                                                           *)
(* metadata is the generated module: [models, enums, provider] when the      *)
(* client was generated with schemaMetadata, else a record without them.     *)
(* enums[e][member] is the label of a member.  A value is [null |-> TRUE],   *)
(* [operation |-> ...] for a mapping, [list |-> ...], [plain |-> ...].       *)
EXTENDS Schema, Integers

Returns(value) == [returns |-> value]
Raises(class)  == [raises |-> class]

-----------------------------------------------------------------------------
(* Lookups.                                                                 *)

IsAvailable(metadata) == "models" \in DOMAIN metadata

\* One of the module's globals.
Global(metadata, name) ==
  IF name \in DOMAIN metadata THEN Returns(metadata[name]) ELSE Raises("SchemaNotAvailableError")

GetProvider(metadata) == Global(metadata, "provider")

\* The entry for key in what a lookup found.
In(found, key) ==
  IF "raises" \in DOMAIN found THEN found
  ELSE IF key \in DOMAIN found.returns THEN Returns(found.returns[key]) ELSE Raises("LookupError")

ModelSchema(metadata, m) == In(Global(metadata, "models"), m)

\* A part of the schema of a model, which has every part.
Part(metadata, m, part) == In(ModelSchema(metadata, m), part)

ColumnOf(metadata, m, f) == In(In(Part(metadata, m, "fields"), f), "column")
RelationOf(metadata, m, f) == In(Part(metadata, m, "relations"), f)
PrimaryKeyColumns(metadata, m) == In(Part(metadata, m, "key"), "columns")
EnumLabel(metadata, e, member) == In(In(Global(metadata, "enums"), e), member)

-----------------------------------------------------------------------------
(* The entries, as _schema.py describes them to its readers.                *)

\* "Any other column needs this named explicitly": a sequence is the one of an
\* integer outside the key that counts up.
FieldSchema(spec, f) ==
  LET field == spec.fields[f]
  IN field.sequence # <<>> => /\ IsAutoincrement(field.default)
                              /\ field.type \in {"Int", "BigInt"} /\ ~field.isList
                              /\ f \notin Elements(spec.key.fields)

\* Columns and fields are parallel, here in the key and below in a foreign key.
Parallel(columns, names, spec) ==
  /\ DOMAIN columns = DOMAIN names
  /\ \A i \in DOMAIN names : /\ names[i] \in DOMAIN spec.fields
                             /\ columns[i] = spec.fields[names[i]].column

ConstraintSchema(spec) == Parallel(spec.key.columns, spec.key.fields, spec)

\* "Parallel to columns, one entry per index member."
IndexSchema(spec) ==
  \A index \in spec.indexes :
    /\ DOMAIN index.columns = DOMAIN index.fields
    /\ \A i \in DOMAIN index.fields : index.fields[i].name \in DOMAIN spec.fields
         => index.columns[i] = spec.fields[index.fields[i].name].column

\* The join keys are those of a many-to-many, which has no foreign key; any
\* other relation has one, in the model fk_model, to the model at the other
\* end; it is required "when every foreign key column is NOT NULL".
RelationSchema(models, m, r) ==
  LET relation == models[m].relations[r]
      fk       == relation.fk
      target   == IF relation.owner THEN relation.to ELSE m
  IN /\ relation.to \in DOMAIN models
     /\ relation.shape = "many-to-many" <=> relation.fkModel = NoModel
     /\ relation.shape = "many-to-many" <=> relation.join # NoJoin
     /\ relation.owner <=> relation.fkName # <<>>
     /\ relation.fkModel = NoModel => fk = NoForeignKey
     /\ relation.fkModel # NoModel =>
          /\ relation.fkModel = IF relation.owner THEN m ELSE relation.to
          /\ Parallel(fk.columns, fk.fields, models[relation.fkModel])
          /\ Parallel(fk.refColumns, fk.references, models[target])
          /\ fk.required <=> \A i \in DOMAIN fk.fields : ~models[relation.fkModel].fields[fk.fields[i]].nullable

-----------------------------------------------------------------------------
(* Names that the generator and prisma.sa derive, as sequences of           *)
(* characters, and the labels of enums.                                     *)

MAX_IDENTIFIER_LENGTH == 63

\* The suffix of a name that is too long stays, and the base is cut to fit.
TruncateIdentifier(base, suffix, limit) ==
  IF Len(base) + Len(suffix) <= limit THEN base \o suffix
  ELSE SubSeq(base, 1, limit - Len(suffix)) \o suffix

BuildEnumMetadata(enums) ==
  [e \in DOMAIN enums |-> [member \in DOMAIN enums[e] |->
     IF enums[e][member] = NoName THEN member ELSE enums[e][member]]]

-----------------------------------------------------------------------------
(* Values.                                                                  *)

\* A caller's instant: what its clock shows, in microseconds, and how far that
\* clock is ahead of UTC, if it says so.
Normalise(moment) ==
  LET utc == IF "zone" \in DOMAIN moment THEN moment.clock - moment.zone ELSE moment.clock
  IN utc - (utc % 1000)

\* The wall clock of UTC for a timestamp, the instant for a timestamptz.
Timestamp(field, moment) == [stamp |-> Normalise(moment), aware |-> field.native = "Timestamptz"]

\* The members of an enum that a value names.
Members(field, value) ==
  IF field.kind # "enum" \/ "null" \in DOMAIN value THEN {}
  ELSE IF field.isList THEN Elements(value.list) ELSE {value.plain}

\* What one value raises, and what it becomes.
ConvertErrors(metadata, field, value) ==
  IF "operation" \in DOMAIN value
  THEN IF field.type = "Json" THEN {} ELSE {"NotImplementedError"}
  ELSE {EnumLabel(metadata, field.type, member).raises :
          member \in {x \in Members(field, value) : "raises" \in DOMAIN EnumLabel(metadata, field.type, x)}}

Convert(metadata, field, value) ==
  LET label(member) == EnumLabel(metadata, field.type, member).returns
  IN IF field.kind # "enum" \/ "null" \in DOMAIN value THEN value
     ELSE IF field.isList THEN [list |-> [i \in DOMAIN value.list |-> label(value.list[i])]]
     ELSE [plain |-> label(value.plain)]

\* data is keyed by field: the exceptions that the whole of it may raise.
TranslateErrors(metadata, spec, data) ==
  (IF DOMAIN data \subseteq DOMAIN spec.fields THEN {} ELSE {"LookupError"})
  \cup (UNION {ConvertErrors(metadata, spec.fields[name], data[name]) :
                 name \in DOMAIN data \cap DOMAIN spec.fields})

\* A later field overwrites an earlier one of the same column.
FieldOf(spec, names, column) == CHOOSE name \in names : spec.fields[name].column = column
ColumnsOf(spec, names) == {spec.fields[name].column : name \in names}

Translate(metadata, spec, data) ==
  [c \in ColumnsOf(spec, DOMAIN data) |->
     LET name == FieldOf(spec, DOMAIN data, c) IN Convert(metadata, spec.fields[name], data[name])]

\* The value that the client makes for a field: an id, or the instant.
Generated(field, moment) ==
  IF field.isUpdatedAt \/ field.default.name = "now" THEN Timestamp(field, moment)
                                                     ELSE [id |-> field.default.name]

Completed(spec, values, names, moment) ==
  LET added == ColumnsOf(spec, names)
  IN [c \in DOMAIN values \cup added |->
        IF c \in added THEN Generated(spec.fields[FieldOf(spec, names, c)], moment) ELSE values[c]]

FilledOnCreate(spec, data) ==
  {f \in DOMAIN spec.fields \ DOMAIN data : ClientSideValue(spec.fields[f]) = "filled"}

\* The row of an INSERT.
RowToCreate(metadata, spec, data, moment) ==
  Completed(spec, Translate(metadata, spec, data), FilledOnCreate(spec, data), moment)

\* values_for_update() stamps @updatedAt and runs no other default.
FilledOnUpdate(spec, data) == {f \in DOMAIN spec.fields \ DOMAIN data : spec.fields[f].isUpdatedAt}

UpdateRefused(spec, data) ==
  \E f \in FilledOnUpdate(spec, data) : spec.fields[f].native \notin TimestampTypes

RowToUpdate(metadata, spec, data, moment) ==
  Completed(spec, Translate(metadata, spec, data), FilledOnUpdate(spec, data), moment)

-----------------------------------------------------------------------------
(* Properties.                                                              *)

\* metadata.py of the data model, with the labels that @map gives the members.
Metadata(enums) == [models |-> schema, enums |-> enums, provider |-> "postgresql"]

\* Once every model is described, what the type declarations of _schema.py say
\* of the entries is true of all of them: a sequence is named where SERIAL does
\* not make one, columns are parallel to fields, and a foreign key is told alike
\* from either side, required when all of its columns are.
SchemaAsDocumented ==
  phase # "describe" => \A m \in Models :
    /\ \A f \in DOMAIN schema[m].fields : FieldSchema(schema[m], f)
    /\ ConstraintSchema(schema[m]) /\ IndexSchema(schema[m])
    /\ \A r \in DOMAIN schema[m].relations : RelationSchema(schema, m, r)

\* A lookup in the metadata finds the table that prisma.sa builds from it: each
\* field is a column of the table, by that column's name, or a relation and then
\* no column, and the key is the table's key.
LookupsFindTheTables ==
  Built => \A m \in Models :
    /\ \A f \in Elements(d.fields[m]) :
         IF IsRelational(f)
         THEN /\ ColumnOf(Metadata(<<>>), m, f.name) = Raises("LookupError")
              /\ RelationOf(Metadata(<<>>), m, f.name) = Returns(RelationMetadata(d, m, f))
         ELSE /\ \E c \in Elements(tables[<<m>>].columns) : ColumnOf(Metadata(<<>>), m, f.name) = Returns(c.name)
              /\ RelationOf(Metadata(<<>>), m, f.name) = Raises("LookupError")
    /\ PrimaryKeyColumns(Metadata(<<>>), m) = Returns(tables[<<m>>].key)

\* values_for_create() loses nothing: what the caller gives stands, converted,
\* in the column of its own field, each field the client fills in has its value,
\* and no other column has one.
CreateKeepsTheData(metadata, spec, data, moment) ==
  LET row    == RowToCreate(metadata, spec, data, moment)
      filled == FilledOnCreate(spec, data)
  IN /\ DOMAIN row = ValuesForCreate(spec, DOMAIN data)
     /\ \A f \in DOMAIN data : row[spec.fields[f].column] = Convert(metadata, spec.fields[f], data[f])
     /\ \A f \in filled : row[spec.fields[f].column] = Generated(spec.fields[f], moment)

\* values_for_update() adds to the caller's values the instant in @updatedAt
\* columns that the caller left out, and nothing else: no new id.
UpdateKeepsTheData(metadata, spec, data, moment) ==
  LET row == RowToUpdate(metadata, spec, data, moment)
  IN /\ \A f \in DOMAIN data : row[spec.fields[f].column] = Convert(metadata, spec.fields[f], data[f])
     /\ \A c \in DOMAIN row :
          \/ \E f \in DOMAIN data : spec.fields[f].column = c
          \/ \E f \in DOMAIN spec.fields \ DOMAIN data :
               /\ spec.fields[f].column = c /\ spec.fields[f].isUpdatedAt
               /\ row[c] = Timestamp(spec.fields[f], moment)

\* The rows of every payload for every model that is described.
RowsKeepTheData(Payloads, Moments, enums) ==
  phase # "describe" => \A m \in Models : \A data \in Payloads, moment \in Moments :
    DOMAIN data \subseteq DOMAIN schema[m].fields =>
      /\ CreateKeepsTheData(Metadata(enums), schema[m], data, moment)
      /\ UpdateKeepsTheData(Metadata(enums), schema[m], data, moment)

\* A stamp is the caller's instant to the millisecond below, whatever zone the
\* caller's clock is in.
StampIsTheInstant(clock, zone, field) ==
  LET stamp == Timestamp(field, [clock |-> clock, zone |-> zone]).stamp
  IN /\ stamp <= clock - zone /\ clock - zone < stamp + 1000 /\ stamp % 1000 = 0
     /\ stamp = Timestamp(field, [clock |-> clock - zone]).stamp

\* "Everything derived from a long name agrees on the same 63 characters": a
\* derived name fits, ends with its suffix, and is the same whether or not the
\* name of the table was cut to the limit before.
NameFits(base, suffix, limit) ==
  LET name == TruncateIdentifier(base, suffix, limit)
  IN /\ Len(name) <= limit
     /\ SubSeq(name, Len(name) - Len(suffix) + 1, Len(name)) = suffix
     /\ TruncateIdentifier(TruncateIdentifier(base, <<>>, limit), suffix, limit) = name

=============================================================================
