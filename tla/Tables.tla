-------------------------------- MODULE Tables --------------------------------
(* prisma/sa/_build.py and _types.py: the SQLAlchemy MetaData that describes *)
(* the database Prisma creates. A spec is one model of metadata.SCHEMA, the  *)
(* MetaData a function from table names to tables. What the builder cannot   *)
(* express it refuses, by an exception that leaves no MetaData behind.       *)
EXTENDS Datamodel

CONSTANT NativeTypes         \* the @db types the type table knows

NoDefault == <<>>

ClientSideGenerators == {"cuid", "uuid", "nanoid", "ulid", "auto"}
KnownGenerators      == ClientSideGenerators \cup {"autoincrement", "now", "dbgenerated"}

-----------------------------------------------------------------------------
(* Columns.                                                                 *)

NativeType(name) == <<"native", name>>

\* A @db type wins over the one the scalar has by default.
ScalarType(field) ==
  IF field.native # NoName THEN NativeType(field.native) ELSE <<"scalar", field.type>>

EnumType(name) == <<"enum", name>>

ColumnType(field) ==
  LET element == IF field.kind = "enum" THEN EnumType(field.type) ELSE ScalarType(field)
  IN IF field.isList THEN <<"array", element>> ELSE element

UnknownType(field) == field.kind # "enum" /\ field.native # NoName /\ field.native \notin NativeTypes

\* A literal is cast to the enum, or to the element type of the list.
LiteralSql(field) ==
  CASE field.kind = "enum" -> <<"literal", field.default.value, EnumType(field.type)>>
    [] field.kind # "enum" /\ field.isList ->
         <<"literal", field.default.value, ScalarType(field)>>
    [] OTHER -> <<"literal", field.default.value>>

\* The DEFAULT clause; none for what the client or SERIAL fills in.
ServerDefault(field) ==
  LET default == field.default
  IN CASE default.kind = "none" -> NoDefault
       [] default.kind = "literal" -> LiteralSql(field)
       [] default.kind = "generator" ->
            CASE default.name = "now" -> <<"CURRENT_TIMESTAMP">>
              [] default.name = "dbgenerated" -> IF default.args = <<>> THEN NoDefault ELSE <<default.args[1]>>
              [] OTHER -> NoDefault

UnknownDefault(field) ==
  field.default.kind = "generator" /\ field.default.name \notin KnownGenerators

\* A column with a sequence draws its default from it. A list is nullable,
\* whatever the data model says.
BuildColumn(field, isPrimaryKey) ==
  [name          |-> field.column,
   type          |-> ColumnType(field),
   primaryKey    |-> isPrimaryKey,
   nullable      |-> field.nullable \/ field.isList,
   autoincrement |-> IsAutoincrement(field.default),
   sequence      |-> field.sequence,
   bigSequence   |-> field.sequence # <<>> /\ field.type = "BigInt",
   default       |-> IF field.sequence # <<>> THEN <<"nextval", field.sequence>>
                     ELSE ServerDefault(field)]

-----------------------------------------------------------------------------
(* Indexes.                                                                 *)

\* A member of an index is a column, its direction and its operator class.
IndexMember(column, member) == [column |-> column, descending |-> member.sort = "Desc", ops |-> member.ops]

\* A prefix length, a class of a descending member, an unknown built-in class.
IndexRefused(index, builtins, known) ==
  \E member \in Elements(index.fields) :
    \/ member.length
    \/ member.ops # NoName /\ member.sort = "Desc"
    \/ member.ops \in builtins \ known

BuildIndex(index) ==
  [name    |-> index.name,
   unique  |-> index.unique,
   using   |-> index.algorithm,
   members |-> [i \in DOMAIN index.columns |-> IndexMember(index.columns[i], index.fields[i])]]

-----------------------------------------------------------------------------
(* Tables.                                                                  *)

PrimaryKeyNameMapped(spec) ==            \* the order of the key not asked
  IF spec.key.dbName # NoName THEN <<spec.key.dbName>> ELSE <<>>

\* The key is named by @@id(map:), and also when its order is not the order of
\* the columns, because only a named key reaches the declarative models.
PrimaryKeyName(spec) ==
  LET inFieldOrder == Keep([i \in DOMAIN spec.order |-> spec.fields[spec.order[i]].column],
                           Elements(spec.key.columns))
  IN IF spec.key.dbName # NoName THEN <<spec.key.dbName>>
     ELSE IF spec.key.columns # inFieldOrder THEN <<spec.table, "_pkey">> ELSE <<>>

Sequences(spec) == {<<spec.fields[f].sequence, spec.fields[f].column>> :
                     f \in {g \in DOMAIN spec.fields : spec.fields[g].sequence # <<>>}}

BuildTable(spec) ==
  [columns |-> [i \in DOMAIN spec.order |->
                 BuildColumn(spec.fields[spec.order[i]], spec.order[i] \in Elements(spec.key.fields))],
   key     |-> spec.key.columns,
   keyName |-> PrimaryKeyName(spec),
   keys    |-> {},
   indexes |-> {BuildIndex(i) : i \in spec.indexes},
   owned   |-> Sequences(spec)]

TableRefused(spec, builtins, known) ==
  \/ \E f \in DOMAIN spec.fields : UnknownType(spec.fields[f]) \/ UnknownDefault(spec.fields[f])
  \/ \E i \in spec.indexes : IndexRefused(i, builtins, known)

-----------------------------------------------------------------------------
(* Foreign keys.                                                            *)

RelationModes == {NoName, "foreignKeys", "prisma"}

EmitsForeignKeys(relation) == relation.mode \in {NoName, "foreignKeys"}

OnDelete(relation) ==
  IF relation.fk.onDelete # NoName THEN relation.fk.onDelete
  ELSE IF relation.fk.required THEN "Restrict" ELSE "SetNull"

OnUpdate(relation) == IF relation.fk.onUpdate # NoName THEN relation.fk.onUpdate ELSE "Cascade"

ForeignKeyConstraint(relation, schema) ==
  [columns    |-> relation.fk.columns,
   target     |-> schema[relation.to].table,
   refColumns |-> relation.fk.refColumns,
   name       |-> relation.fkName,
   onDelete   |-> OnDelete(relation),
   onUpdate   |-> OnUpdate(relation)]

ForeignKeysOfBothSides(spec, schema) ==  \* the inverse side declares it again
  {ForeignKeyConstraint(spec.relations[r], schema) :
     r \in {s \in DOMAIN spec.relations : /\ spec.relations[s].fkModel # NoModel
                                         /\ EmitsForeignKeys(spec.relations[s])}}

\* The constraints of one model's table: of the relations it owns.
ForeignKeys(spec, schema) ==
  {ForeignKeyConstraint(spec.relations[r], schema) :
     r \in {s \in DOMAIN spec.relations : spec.relations[s].owner /\ EmitsForeignKeys(spec.relations[s])}}

AddForeignKeys(tables, spec, schema) ==
  [tables EXCEPT ![spec.table].keys = @ \cup ForeignKeys(spec, schema)]

\* The join table of a many-to-many: A for the model that sorts first. The two
\* columns have the types of the keys they refer to.
JoinColumn(name, table) ==
  [name |-> name, type |-> table.columns[CHOOSE i \in DOMAIN table.columns :
                                           table.columns[i].name = table.key[1]].type,
   primaryKey |-> FALSE, nullable |-> FALSE, autoincrement |-> FALSE, sequence |-> <<>>,
   bigSequence |-> FALSE, default |-> NoDefault]

JoinKey(name, relation, spec) ==
  [columns |-> <<name>>, target |-> spec.table, refColumns |-> <<spec.key.columns[1]>>,
   name |-> relation.join.table \o <<name, "_fkey">>,
   onDelete |-> "Cascade", onUpdate |-> OnUpdate(relation)]

JoinIndex(relation, names, suffix, unique) ==
  [name |-> relation.join.table \o <<suffix>>, unique |-> unique, using |-> NoName,
   members |-> [i \in DOMAIN names |-> [column |-> names[i], descending |-> FALSE, ops |-> NoName]]]

BuildJoinTable(tables, schema, relation, model) ==
  LET left  == schema[IF relation.to < model THEN relation.to ELSE model]
      right == schema[IF relation.to < model THEN model ELSE relation.to]
  IN [columns |-> <<JoinColumn("A", tables[left.table]), JoinColumn("B", tables[right.table])>>,
      key     |-> <<>>,
      keyName |-> <<>>,
      keys    |-> IF EmitsForeignKeys(relation)
                  THEN {JoinKey("A", relation, left), JoinKey("B", relation, right)} ELSE {},
      indexes |-> {JoinIndex(relation, <<"A", "B">>, "_AB_unique", TRUE),
                   JoinIndex(relation, <<"B">>, "_B_index", FALSE)},
      owned   |-> {}]

=============================================================================
