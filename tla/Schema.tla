-------------------------------- MODULE Schema --------------------------------
(* From the data model to the database and back: the generator describes the *)
(* models (Datamodel), prisma.sa builds the MetaData (Tables), emits ORM     *)
(* classes (Declarative), fills in rows to insert (sa/_values.py), and lets  *)
(* Alembic adopt the database that Prisma created (sa/_alembic.py). Every    *)
(* pass visits the models in the order of the schema; the foreign keys wait  *)
(* until all tables exist, and a refusal ends the run.                       *)
EXTENDS Declarative

CONSTANTS Datamodels,        \* the data models the engine may send
          BuiltinClasses,    \* operator classes spelled as Prisma's built-in ones
          OperatorClasses,   \* those of them with a measured translation
          PlainSequences     \* names of sequences that PostgreSQL spells without quotes

ASSUME DatamodelsAreWellFormed == \A data \in Datamodels : WellFormed(data)

VARIABLES d,        \* the data model
          phase,    \* the pass under way
          at,       \* the position in d.order of the model it visits next
          schema,   \* metadata.SCHEMA, as far as it is described
          tables,   \* the MetaData, as far as it is built
          emitted,  \* the ORM module: classes, loose tables, relationships
          db,       \* the database: its tables, and the defaults it draws from sequences
          diff      \* what Alembic's autogenerate reports

vars == <<d, phase, at, schema, tables, emitted, db, diff>>

Model == d.order[at]

NothingEmitted == [mappable |-> {}, relations |-> {}, classes |-> <<>>, loose |-> <<>>]
NoDatabase     == [tables |-> {}, defaults |-> <<>>, stamped |-> FALSE]
NoDiff         == [missing |-> {}, dropped |-> {}, altered |-> {}]

\* Prisma's own table, which no data model describes.
Migrations == <<"_prisma", "migrations">>

Init ==
  /\ d \in Datamodels
  /\ phase = "describe"
  /\ at = 1
  /\ schema = <<>>
  /\ tables = <<>>
  /\ emitted = NothingEmitted
  /\ db = NoDatabase
  /\ diff = NoDiff

\* The pass goes on to the next model, or the next pass begins.
Advance(next) ==
  /\ at' = IF at < Len(d.order) THEN at + 1 ELSE 1
  /\ phase' = IF at < Len(d.order) THEN phase ELSE next

\* f with x added.
With(f, x, value) == [y \in DOMAIN f \cup {x} |-> IF y = x THEN value ELSE f[y]]

\* An exception: what was built so far is gone with it.
Refuse ==
  /\ phase' = "refused"
  /\ tables' = <<>>
  /\ UNCHANGED <<d, at, schema, emitted, db, diff>>

DescribeModel ==
  /\ phase = "describe"
  /\ schema' = With(schema, Model, ModelMetadata(d, Model))
  /\ Advance("tables")
  /\ UNCHANGED <<d, tables, emitted, db, diff>>

AddTable ==
  LET spec == schema[Model]
  IN /\ phase = "tables"
     /\ ~TableRefused(spec, BuiltinClasses, OperatorClasses)
     /\ tables' = With(tables, spec.table, BuildTable(spec))
     /\ Advance("keys")
     /\ UNCHANGED <<d, schema, emitted, db, diff>>

RefuseTable ==
  /\ phase = "tables"
  /\ TableRefused(schema[Model], BuiltinClasses, OperatorClasses)
  /\ Refuse

\* A relation mode that nobody measured is refused by the first relation.
UnknownMode(m) == d.mode \notin RelationModes /\ \E r \in DOMAIN schema[m].relations :
                    schema[m].relations[r].owner \/ schema[m].relations[r].shape = "many-to-many"

AddKeys ==
  /\ phase = "keys"
  /\ ~UnknownMode(Model)
  /\ tables' = AddForeignKeys(tables, schema[Model], schema)
  /\ Advance("joins")
  /\ UNCHANGED <<d, schema, emitted, db, diff>>

RefuseKeys ==
  /\ phase = "keys"
  /\ UnknownMode(Model)
  /\ Refuse

\* Whichever side comes first builds the join table; the other one skips it.
AddJoinTables ==
  LET relations == schema[Model].relations
      joins     == {r \in DOMAIN relations : /\ relations[r].shape = "many-to-many"
                                             /\ relations[r].join.table \notin DOMAIN tables}
      names     == {relations[r].join.table : r \in joins}
      First(t)  == CHOOSE r \in joins : relations[r].join.table = t
  IN /\ phase = "joins"
     /\ tables' = [t \in DOMAIN tables \cup names |->
                     IF t \in names THEN BuildJoinTable(tables, schema, relations[First(t)], Model)
                     ELSE tables[t]]
     /\ Advance("plan")
     /\ UNCHANGED <<d, schema, emitted, db, diff>>

Plan ==
  LET mappable == PlanModels(schema, d.enums)
  IN /\ phase = "plan"
     /\ emitted' = [emitted EXCEPT !.mappable = mappable,
                                   !.relations = PlanRelations(schema, mappable)]
     /\ phase' = "render"
     /\ UNCHANGED <<d, at, schema, tables, db, diff>>

Render ==
  /\ phase = "render"
  /\ emitted' = [emitted EXCEPT !.classes = RenderClasses(tables, schema, emitted.mappable),
                                !.loose = RenderLooseTables(tables, schema, emitted.mappable)]
  /\ phase' = "database"
  /\ UNCHANGED <<d, at, schema, tables, db, diff>>

-----------------------------------------------------------------------------
(* The database that Prisma created from the data model, and Alembic's view *)
(* of it. A default draws from the column's own sequence, from another one  *)
(* or from none, and the sequence belongs to the column or does not.        *)

DrawingColumns == {c \in UNION {{t} \X DOMAIN tables[t].columns : t \in DOMAIN tables} :
                     tables[c[1]].columns[c[2]].sequence # <<>>}

Draws == {draw \in [source : {"own", "another", "none"}, owned : BOOLEAN] :
            draw.owned => draw.source # "none"}

\* prisma db push, and what happens to a database in between: a default or a
\* sequence is altered or a table dropped by hand.
Push ==
  /\ phase = "database"
  /\ \E lost \in {{}} \cup {{t} : t \in DOMAIN tables}, defaults \in [DrawingColumns -> Draws] :
       db' = [db EXCEPT !.tables = (DOMAIN tables \cup {Migrations}) \ lost, !.defaults = defaults]
  /\ phase' = "upgrade"
  /\ UNCHANGED <<d, at, schema, tables, emitted, diff>>

\* The baseline creates nothing: it stamps a database that has every table,
\* and raises over any other.
Upgrade ==
  /\ phase = "upgrade"
  /\ db' = [db EXCEPT !.stamped = DOMAIN tables \subseteq db.tables]
  /\ phase' = IF db'.stamped THEN "autogenerate" ELSE "done"
  /\ UNCHANGED <<d, at, schema, tables, emitted, diff>>

OwnSequence(c) == tables[c[1]].columns[c[2]].sequence

\* The text that names a sequence in a default. The MetaData always quotes it,
\* PostgreSQL only where it must.
Wanted(c)      == [quoted |-> TRUE, name |-> OwnSequence(c)]
Spelled(name)  == [quoted |-> name \notin PlainSequences, name |-> name]

\* Alembic takes an INTEGER or BIGINT column and a sequence it owns for SERIAL.
TakenForSerial(c) ==
  /\ db.defaults[c].owned
  /\ tables[c[1]].columns[c[2]].type \in {<<"scalar", "Int">>, <<"scalar", "BigInt">>,
                                          NativeType("Integer"), NativeType("BigInt")}

\* What Alembic reflects: SERIAL shows as autoincrement, and no default at all.
Reflected(c) ==
  LET draw == db.defaults[c]
  IN [default |-> IF draw.source = "none" \/ TakenForSerial(c) THEN <<>>
                  ELSE <<Spelled(IF draw.source = "own" THEN OwnSequence(c) ELSE <<"another">>)>>,
      autoincrement |-> draw.source # "none"]

CompareServerDefaultNaively(c) ==        \* the owned sequence not recognised
  Reflected(c).default # <<Wanted(c)>>

\* Whether the default differs: the names are compared as they are spelled.
CompareServerDefault(c) ==
  LET found == Reflected(c)
  IN IF found.default # <<>> THEN found.default # <<Wanted(c)>> ELSE ~found.autoincrement

\* The filter that keeps Prisma's own table out of the comparison.
IncludeObject(t) == t # Migrations

Autogenerate ==
  /\ phase = "autogenerate"
  /\ diff' = [missing |-> DOMAIN tables \ db.tables,
              dropped |-> {t \in db.tables \ DOMAIN tables : IncludeObject(t)},
              altered |-> {c \in DrawingColumns : CompareServerDefault(c)}]
  /\ phase' = "done"
  /\ UNCHANGED <<d, at, schema, tables, emitted, db>>

Next ==
  \/ DescribeModel
  \/ AddTable \/ RefuseTable
  \/ AddKeys \/ RefuseKeys
  \/ AddJoinTables
  \/ Plan \/ Render
  \/ Push \/ Upgrade \/ Autogenerate

Spec == Init /\ [][Next]_vars

-----------------------------------------------------------------------------
(* sa/_values.py: the columns of an INSERT that the caller left out.        *)

TimestampTypes == {NoName, "Timestamp", "Timestamptz"}

\* "filled", "missing" (the database's job) or "refused".
ClientSideValue(field) ==
  LET default == field.default
      stamp   == IF field.native \in TimestampTypes THEN "filled" ELSE "refused"
  IN CASE field.isUpdatedAt -> stamp
       [] ~field.isUpdatedAt /\ default.kind # "generator" -> "missing"
       [] ~field.isUpdatedAt /\ default.kind = "generator" ->
            CASE default.name = "cuid" -> IF default.version \in {NoName, "1"} THEN "filled" ELSE "refused"
              [] default.name = "uuid" -> IF default.version \in {NoName, "4", "7"} THEN "filled" ELSE "refused"
              [] default.name = "nanoid" -> "filled"
              [] default.name = "now" -> stamp
              [] default.name \in {"autoincrement", "dbgenerated"} -> "missing"
              [] OTHER -> "refused"

\* The columns values_for_create() gives values, with those the caller gave.
ValuesForCreate(spec, given) ==
  {spec.fields[f].column : f \in {g \in DOMAIN spec.fields :
     g \in given \/ ClientSideValue(spec.fields[g]) = "filled"}}

CreateRefused(spec, given) ==
  \E f \in DOMAIN spec.fields \ given : ClientSideValue(spec.fields[f]) = "refused"

-----------------------------------------------------------------------------
(* Properties.                                                              *)

Built == phase \in {"plan", "render", "database", "upgrade", "autogenerate", "done"}
Rendered == phase \in {"database", "upgrade", "autogenerate", "done"}

Models    == Elements(d.order)
Owning(m) == {f \in Elements(d.fields[m]) : f.from # <<>>}

\* The foreign key that a field with @relation(fields:, references:) declares.
Declared(m, f) == [columns |-> Columns(d, m, f.from), target |-> <<f.type>>,
                   refColumns |-> Columns(d, f.type, f.to)]

\* The built tables carry exactly the foreign keys that the relations declare,
\* each once and on the table of the side that declares it, and none at all
\* under relationMode = "prisma": the two sides of a relation, the pass that
\* waits for all tables and the relation mode together give Prisma's own DDL.
ForeignKeysAreTheRelations ==
  Built => \A m \in Models :
    LET keys     == tables[<<m>>].keys
        declared == IF d.mode = "prisma" THEN {} ELSE Owning(m)
    IN /\ {[columns |-> k.columns, target |-> k.target, refColumns |-> k.refColumns] : k \in keys}
            = {Declared(m, f) : f \in declared}
       /\ Cardinality(keys) = Cardinality({<<f.from, f.to, f.type, f.name>> : f \in declared})

\* A join table as the other side finds it.
Crossed(join) == [table |-> join.table, ambiguous |-> join.ambiguous,
                  self |-> join.other, other |-> join.self]

\* The two sides of a relation tell one story: the same foreign key or the same
\* join table, crossed columns, and relationships emitted for both or neither,
\* each populating the other over the same columns. The column a side of a
\* many-to-many is found in is the one whose foreign key refers to its table.
SidesAgree ==
  Built => \A m \in Models : \A r \in DOMAIN schema[m].relations :
    LET here  == schema[m].relations[r]
        there == schema[here.to].relations[here.back]
        text  == RenderRelation(m, here, tables, schema)
        other == RenderRelation(here.to, there, tables, schema)
        joins == tables[here.join.table]
    IN /\ there.to = m /\ there.back = r
       /\ here.fkModel = there.fkModel /\ here.fk = there.fk
       /\ here.shape = "many-to-many" =>
            /\ there.join = Crossed(here.join)
            /\ ~here.join.ambiguous => \A k \in joins.keys :
                 k.target = schema[IF k.columns = <<here.join.self>> THEN m ELSE here.to].table
       /\ <<m, r>> \in emitted.relations =>
            /\ <<here.to, here.back>> \in emitted.relations
            /\ text.foreign = other.foreign /\ text.join = other.join
            /\ text.secondary = other.secondary /\ text.secondJoin = Reverse(other.secondJoin)

\* A row whose caller gives only the fields that create() requires, and that
\* values_for_create() completes, has a value in every NOT NULL column: from the
\* client, from a DEFAULT, from SERIAL or from a sequence. dbgenerated() without
\* an argument leaves the column to the caller.
InsertsAreComplete ==
  Built => \A m \in Models :
    LET spec  == schema[m]
        given == {f.name : f \in {g \in Elements(d.fields[m]) :
                    RequiredOnCreate(g) \/ (g.default.name = "dbgenerated" /\ g.default.args = <<>>)}}
    IN CreateRefused(spec, given) \/ \A c \in Elements(tables[<<m>>].columns) :
         \/ c.nullable
         \/ c.name \in ValuesForCreate(spec, given \cap DOMAIN spec.fields)
         \/ c.default # NoDefault
         \/ c.primaryKey /\ c.autoincrement /\ IntegerType(c.type)

\* SQLAlchemy reads the emitted classes as the tables they were emitted from:
\* the order of a key, a plain integer key that is no SERIAL, sequences and
\* their owners survive the text.
ClassesDescribeTheirTables ==
  Rendered => \A t \in DOMAIN emitted.classes : ReadTable(emitted.classes[t]) = tables[t]

\* The two cases the comparison gets wrong: the column's own sequence, not
\* taken for SERIAL and spelled without quotes, and another one taken for SERIAL.
Misjudged(c) ==
  \/ db.defaults[c].source = "own" /\ ~TakenForSerial(c) /\ OwnSequence(c) \in PlainSequences
  \/ db.defaults[c].source = "another" /\ TakenForSerial(c)

\* Autogenerate reports the columns whose default no longer draws from their
\* sequence, and no other, the two cases above apart: neither the owned sequence
\* that Alembic reflects as no default, nor one that is only no longer owned, nor
\* Prisma's own table, gives a difference that is none.
DiffIsTruth ==
  (phase = "done" /\ db.stamped) =>
    /\ diff.missing = {} /\ diff.dropped = {}
    /\ diff.altered \subseteq DrawingColumns
    /\ \A c \in DrawingColumns :
         ~Misjudged(c) => (c \in diff.altered <=> db.defaults[c].source # "own")

-----------------------------------------------------------------------------
(* What a document promises and the code does not keep: no run checks it,  *)
(* and TLC refutes it when one does (see README.md, "Disagreements").      *)

\* So do the tables with no class, which the emitter writes so that the emitted
\* schema is the one build_metadata() describes.
LooseTablesDescribeTheirTables ==
  Rendered => \A t \in DOMAIN emitted.loose : ReadTable(emitted.loose[t]) = tables[t]

\* The comparison has no spurious difference and swallows no real one, whatever
\* the name of the sequence and whoever owns it.
DiffIsWholeTruth ==
  (phase = "done" /\ db.stamped) => diff.altered = {c \in DrawingColumns : db.defaults[c].source # "own"}

\* The two sides of a relation run in opposite directions: SQLAlchemy rejects
\* back_populates between two relationships of one direction.
DirectionsOppose ==
  Rendered => \A p \in emitted.relations :
    LET here  == schema[p[1]].relations[p[2]]
        there == schema[here.to].relations[here.back]
    IN here.shape # "many-to-many" =>
         Direction(p[1], RenderRelation(p[1], here, tables, schema))
           # Direction(here.to, RenderRelation(here.to, there, tables, schema))

\* A type that the schema text declares is the type of the column.
NativeTypesReachTheColumns ==
  Built => \A m \in Models : \A f \in Elements(d.fields[m]) :
    f.line.native # NoName => \E c \in Elements(tables[<<m>>].columns) :
      c.name = ColumnName(f) /\ c.type \in {NativeType(f.line.native), <<"array", NativeType(f.line.native)>>}

=============================================================================
