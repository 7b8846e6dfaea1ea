----------------------------- MODULE Declarative -----------------------------
(* prisma/sa/_declarative.py: the ORM classes emitted for a schema, and what *)
(* SQLAlchemy makes of them. Every decision about DDL is read off the        *)
(* MetaData of Tables; the text of the classes carries less than the tables  *)
(* do, and what it leaves out SQLAlchemy fills in by its own rules.          *)
EXTENDS Tables

Reserved == {"metadata", "registry", "awaitable_attrs"}
Keywords == {"class"}                    \* of Python: one stands for them all

-----------------------------------------------------------------------------
(* Which models and relations are emitted.                                  *)

\* A class needs a key, a name of its own and attributes it may have.
ModelRefused(model, spec, enums) ==
  \/ spec.key.columns = <<>>
  \/ model \in enums
  \/ (DOMAIN spec.fields \cup DOMAIN spec.relations) \cap (Reserved \cup Keywords) # {}

PlanModels(schema, enums) == {m \in DOMAIN schema : ~ModelRefused(m, schema[m], enums)}

RelationRefused(relation, mappable) == relation.to \notin mappable \/ relation.join.ambiguous

\* A relation goes with its other side: back_populates needs both.
PlanRelations(schema, mappable) ==
  LET all     == UNION {{m} \X DOMAIN schema[m].relations : m \in mappable}
      relation(p) == schema[p[1]].relations[p[2]]
      refused == {p \in all : RelationRefused(relation(p), mappable)}
  IN {p \in all \ refused : <<relation(p).to, relation(p).back>> \notin refused}

-----------------------------------------------------------------------------
(* The text of a column, a constraint and a relationship.                   *)

\* The types that are subclasses of SQLAlchemy's Integer.
IntegerType(type) == \/ type \in {<<"scalar", "Int">>, <<"scalar", "BigInt">>}
                     \/ type \in {NativeType("SmallInt"), NativeType("Integer"), NativeType("BigInt")}

\* autoincrement is spelled out where SQLAlchemy's 'auto' would guess.
ColumnArgs(c) ==
  [name |-> c.name, type |-> c.type, primaryKey |-> c.primaryKey, nullable |-> c.nullable,
   sequence |-> c.sequence, bigSequence |-> c.bigSequence, default |-> c.default,
   autoincrement |-> IF c.autoincrement \/ (c.primaryKey /\ IntegerType(c.type))
                     THEN IF c.autoincrement THEN "True" ELSE "False"
                     ELSE "auto"]

\* Only a named key is spelled out, then the foreign keys.
ExplicitConstraints(table) ==
  [key |-> IF table.keyName # <<>> THEN table.key ELSE <<>>, keyName |-> table.keyName,
   keys |-> table.keys]

\* ALTER SEQUENCE ... OWNED BY follows a class.
SequenceOwnership(spec) == Sequences(spec)

RenderModel(spec, table) ==
  [columns     |-> [i \in DOMAIN spec.order |->
                     ColumnArgs(table.columns[CHOOSE j \in DOMAIN table.columns :
                       table.columns[j].name = spec.fields[spec.order[i]].column])],
   constraints |-> ExplicitConstraints(table),
   indexes     |-> table.indexes,
   owned       |-> SequenceOwnership(spec)]

\* A table with no class: of a join, or of a model that was refused.
RenderTable(table) ==
  [columns     |-> [i \in DOMAIN table.columns |-> ColumnArgs(table.columns[i])],
   constraints |-> ExplicitConstraints(table),
   indexes     |-> table.indexes,
   owned       |-> {}]

RenderLooseTables(tables, schema, mappable) ==
  [t \in DOMAIN tables \ {schema[m].table : m \in mappable} |-> RenderTable(tables[t])]

RenderClasses(tables, schema, mappable) ==
  [t \in {schema[m].table : m \in mappable} |->
     RenderModel(schema[CHOOSE m \in mappable : schema[m].table = t], tables[t])]

\* No constraint of the built table has the relation's columns.
JoinsWithoutAForeignKey(relation, tables, schema) ==
  IF relation.shape = "many-to-many" THEN tables[relation.join.table].keys = {}
  ELSE \A k \in tables[schema[relation.fkModel].table].keys : k.columns # relation.fk.columns

\* The pairs of fields that foreign(...) == ... compares, one per column.
PrimaryJoin(model, relation) ==
  LET referenced == IF relation.owner THEN relation.to ELSE model
  IN {<<<<relation.fkModel, relation.fk.fields[i]>>, <<referenced, relation.fk.references[i]>>>> :
        i \in DOMAIN relation.fk.fields}

\* The columns of a join table that hold this side and the other one.
SecondaryJoin(relation) == <<relation.join.self, relation.join.other>>

RenderRelation(model, relation, tables, schema) ==
  LET explicit == JoinsWithoutAForeignKey(relation, tables, schema)
      toMany   == relation.shape = "many-to-many"
  IN [target     |-> relation.to,
      back       |-> relation.back,
      secondary  |-> relation.join.table,
      join       |-> IF ~toMany /\ explicit THEN PrimaryJoin(model, relation) ELSE {},
      secondJoin |-> IF toMany /\ explicit THEN SecondaryJoin(relation) ELSE <<>>,
      foreign    |-> {<<relation.fkModel, f>> : f \in Elements(relation.fk.fields)},
      remote     |-> IF ~toMany /\ relation.to = model /\ ~relation.isList
                     THEN {<<relation.to, f>> : f \in Elements(relation.fk.references)} ELSE {},
      useList    |-> relation.shape # "to-one-inverse"]

-----------------------------------------------------------------------------
(* What SQLAlchemy makes of that text.                                      *)

\* 'auto': a sole integer key is SERIAL.
ReadColumn(c, key) ==
  [name |-> c.name, type |-> c.type, primaryKey |-> c.primaryKey, nullable |-> c.nullable,
   sequence |-> c.sequence, bigSequence |-> c.bigSequence, default |-> c.default,
   autoincrement |-> \/ c.autoincrement = "True"
                     \/ c.autoincrement = "auto" /\ key = <<c.name>> /\ IntegerType(c.type)]

\* A key that is not spelled out takes its columns in the order of the class.
ReadTable(text) ==
  LET names == [i \in DOMAIN text.columns |-> text.columns[i].name]
      flagged == Keep(names, {c.name : c \in {b \in Elements(text.columns) : b.primaryKey}})
      key   == IF text.constraints.key # <<>> THEN text.constraints.key ELSE flagged
  IN [columns |-> [i \in DOMAIN text.columns |-> ReadColumn(text.columns[i], key)],
      key     |-> key,
      keyName |-> text.constraints.keyName,
      keys    |-> text.constraints.keys,
      indexes |-> text.indexes,
      owned   |-> text.owned]

\* Many-to-one when the columns on the far side are not the foreign key's. Of a
\* model to itself, the far side is remote_side, or else the foreign key.
Direction(model, relationship) ==
  IF relationship.target # model
  THEN IF \A f \in relationship.foreign : f[1] = model THEN "many-to-one" ELSE "one-to-many"
  ELSE IF relationship.remote # {} /\ relationship.remote \cap relationship.foreign = {}
       THEN "many-to-one" ELSE "one-to-many"

=============================================================================
