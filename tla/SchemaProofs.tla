----------------------------- MODULE SchemaProofs -----------------------------
(* Proofs about Schema and Accessors, for every set of well-formed data      *)
(* models.                                                                   *)
EXTENDS Accessors, FiniteSetTheorems, SequenceTheorems, TLAPS

-----------------------------------------------------------------------------
(* The inductive invariant: what the passes have done so far. The models     *)
(* before the position of the pass are those it has visited.                 *)

Visited == {d.order[i] : i \in 1 .. at - 1}

Passes == {"describe", "tables", "keys", "joins"}
Phases == Passes \cup {"plan", "render", "database", "upgrade", "autogenerate", "done", "refused"}

Position == /\ d \in Datamodels
            /\ phase \in Phases
            /\ at \in 1 .. Len(d.order)

\* The models that the pass p has been through.
DoneBy(p, later) == IF phase = p THEN Visited ELSE IF phase \in later THEN Models ELSE {}

\* metadata.SCHEMA is the description of the models described so far.
SchemaInv == schema = [m \in IF phase = "describe" THEN Visited ELSE Models |-> ModelMetadata(d, m)]

\* The table of a model, before and after the pass that adds the foreign keys.
Bare(m)  == BuildTable(ModelMetadata(d, m))
Keyed(m) == [Bare(m) EXCEPT !.keys = ForeignKeys(schema[m], schema)]

ManyToMany(m) == {r \in DOMAIN schema[m].relations : schema[m].relations[r].shape = "many-to-many"}

IsJoinTable(t) ==
  \E m \in Models : \E r \in ManyToMany(m) :
    /\ schema[m].relations[r].join.table = t
    /\ tables[t] = BuildJoinTable(tables, schema, schema[m].relations[r], m)

WithKeys == Phases \ {"describe", "tables", "keys", "refused"}

\* The MetaData holds the tables of the models, and then those of the joins.
TablesInv ==
  /\ phase \in {"describe", "refused"} => tables = <<>>
  /\ phase = "tables" => /\ DOMAIN tables = {<<m>> : m \in Visited}
                         /\ \A m \in Visited : tables[<<m>>] = Bare(m)
  /\ phase = "keys" => /\ DOMAIN tables = {<<m>> : m \in Models}
                       /\ \A m \in Models : tables[<<m>>] = IF m \in Visited THEN Keyed(m) ELSE Bare(m)
  /\ phase \in WithKeys =>
       /\ \A m \in Models : <<m>> \in DOMAIN tables /\ tables[<<m>>] = Keyed(m)
       /\ \A t \in DOMAIN tables : (\E m \in Models : t = <<m>>) \/ IsJoinTable(t)
       /\ \A m \in DoneBy("joins", WithKeys) : \A r \in ManyToMany(m) :
            schema[m].relations[r].join.table \in DOMAIN tables

\* A model whose foreign keys are added has a relation mode the builder knows.
ModeInv == \A m \in DoneBy("keys", WithKeys) : ~UnknownMode(m)

EmittedInv ==
  LET mappable == PlanModels(schema, d.enums)
  IN /\ phase \in Passes \cup {"plan", "refused"} => emitted = NothingEmitted
     /\ phase \in {"render", "database", "upgrade", "autogenerate", "done"} =>
          emitted = [mappable |-> mappable, relations |-> PlanRelations(schema, mappable),
                     classes |-> emitted.classes, loose |-> emitted.loose]
     /\ Rendered => emitted.classes = RenderClasses(tables, schema, mappable)

\* The baseline stamps a database with every table; nothing but Prisma's own
\* table is in it besides.
DatabaseInv ==
  /\ phase \notin {"upgrade", "autogenerate", "done"} => db = NoDatabase
  /\ phase \in {"upgrade", "autogenerate", "done"} =>
       /\ db = [tables |-> db.tables, defaults |-> db.defaults, stamped |-> db.stamped]
       /\ db.tables \subseteq DOMAIN tables \cup {Migrations}
       /\ db.defaults \in [DrawingColumns -> Draws]
  /\ phase = "autogenerate" => db.stamped
  /\ phase \in {"autogenerate", "done"} => (db.stamped => DOMAIN tables \subseteq db.tables)
  /\ (phase = "done" /\ db.stamped) =>
       diff = [missing |-> DOMAIN tables \ db.tables,
               dropped |-> {t \in db.tables \ DOMAIN tables : IncludeObject(t)},
               altered |-> {c \in DrawingColumns : CompareServerDefault(c)}]

IInv == Position /\ SchemaInv /\ TablesInv /\ ModeInv /\ EmittedInv /\ DatabaseInv

-----------------------------------------------------------------------------
(* The order in which the passes visit the models.                           *)

\* The data model of a behaviour is well-formed.
LEMMA DataIsWellFormed ==
  ASSUME d \in Datamodels
  PROVE  WellFormed(d)
BY DatamodelsAreWellFormed

\* Every model is at some position, and no model at two.
LEMMA OrderIsInjective ==
  ASSUME d \in Datamodels
  PROVE  /\ Len(d.order) \in Nat /\ Len(d.order) # 0
         /\ DOMAIN d.order = 1 .. Len(d.order)
         /\ Models = {d.order[i] : i \in 1 .. Len(d.order)}
         /\ Models \subseteq Nat /\ NoModel \notin Models
         /\ \A i, j \in 1 .. Len(d.order) : d.order[i] = d.order[j] => i = j
<1>1. d.order \in Seq(Nat \ {NoModel}) /\ d.order # <<>>
  BY DataIsWellFormed DEF WellFormed
<1>2. \A i, j \in DOMAIN d.order : d.order[i] = d.order[j] => i = j
  BY DataIsWellFormed DEF WellFormed
<1>3. Len(d.order) \in Nat /\ DOMAIN d.order = 1 .. Len(d.order) /\ Len(d.order) # 0
  BY <1>1, LenProperties, EmptySeq
<1>4. \A i \in 1 .. Len(d.order) : d.order[i] \in Nat \ {NoModel}
  BY <1>1, ElementOfSeq
<1>. QED
  BY <1>2, <1>3, <1>4 DEF Models, Elements

\* A step of a pass visits one more model; the last one ends the pass.
LEMMA AdvanceVisits ==
  ASSUME Position, NEW next, Advance(next), d' = d
  PROVE  /\ Model \in Models /\ Model \notin Visited /\ Visited \subseteq Models
         /\ at' \in 1 .. Len(d.order)
         /\ \/ /\ phase' = phase /\ Visited' = Visited \cup {Model}
            \/ /\ phase' = next /\ Visited' = {} /\ Models = Visited \cup {Model}
<1>1. /\ Len(d.order) \in Nat /\ at \in 1 .. Len(d.order)
      /\ Models = {d.order[i] : i \in 1 .. Len(d.order)}
      /\ \A i, j \in 1 .. Len(d.order) : d.order[i] = d.order[j] => i = j
  BY OrderIsInjective DEF Position
<1>2. Model \in Models /\ Model \notin Visited /\ Visited \subseteq Models
  BY <1>1 DEF Model, Visited
<1>3. CASE at < Len(d.order)
  <2>1. at' = at + 1 /\ phase' = phase
    BY <1>3 DEF Advance
  <2>2. 1 .. at' - 1 = (1 .. at - 1) \cup {at}
    BY <2>1, <1>1
  <2>3. Visited' = {d.order[i] : i \in 1 .. at' - 1}
    BY DEF Visited
  <2>4. Visited' = Visited \cup {Model}
    BY <2>2, <2>3 DEF Visited, Model
  <2>5. at' \in 1 .. Len(d.order)
    BY <1>1, <1>3, <2>1
  <2>. QED
    BY <1>2, <2>1, <2>4, <2>5
<1>4. CASE ~(at < Len(d.order))
  <2>1. at' = 1 /\ phase' = next /\ at = Len(d.order)
    BY <1>1, <1>4 DEF Advance
  <2>2. 1 .. Len(d.order) = (1 .. at - 1) \cup {at}
    BY <2>1, <1>1
  <2>3. Visited' = {d.order[i] : i \in 1 .. at' - 1}
    BY DEF Visited
  <2>4. 1 .. at' - 1 = {}
    BY <2>1
  <2>. QED
    BY <1>1, <1>2, <2>1, <2>2, <2>3, <2>4 DEF Visited, Model
<1>. QED
  BY <1>3, <1>4

-----------------------------------------------------------------------------
(* One model of a well-formed data model, and its description.               *)

\* A field is found by its name.
LEMMA FieldsResolve ==
  ASSUME NEW data, WellFormed(data), NEW m \in Elements(data.order),
         NEW f \in Elements(data.fields[m])
  PROVE  ResolveField(data, m, f.name) = f
<1>1. NamesAreUnique(data, m)
  BY DEF WellFormed
<1>2. \A g \in Elements(data.fields[m]) : g.name = f.name => g = f
  BY <1>1 DEF NamesAreUnique, Elements
<1>. QED
  BY <1>2 DEF ResolveField

\* Its scalars are described at their positions, under their names.
LEMMA ScalarsAreDescribed ==
  ASSUME NEW data, WellFormed(data), NEW m \in Elements(data.order)
  PROVE  LET spec == ModelMetadata(data, m)
         IN /\ DOMAIN spec.order = {i \in DOMAIN data.fields[m] : ~IsRelational(data.fields[m][i])}
            /\ DOMAIN spec.fields = ScalarNames(data, m)
            /\ \A i \in DOMAIN spec.order :
                 /\ spec.order[i] = data.fields[m][i].name
                 /\ spec.order[i] \in DOMAIN spec.fields
                 /\ spec.fields[spec.order[i]] = FieldMetadata(data, m, data.fields[m][i])
                 /\ spec.fields[spec.order[i]].column = ColumnName(data.fields[m][i])
<1>. DEFINE spec == ModelMetadata(data, m)
<1>1. DOMAIN spec.order = {i \in DOMAIN data.fields[m] : ~IsRelational(data.fields[m][i])}
  BY DEF ModelMetadata
<1>2. \A i \in DOMAIN spec.order : spec.order[i] = data.fields[m][i].name
  BY DEF ModelMetadata
<1>3. DOMAIN spec.fields = ScalarNames(data, m)
  BY DEF ModelMetadata, ScalarNames, Elements
<1>4. ASSUME NEW i \in DOMAIN spec.order
      PROVE  /\ spec.order[i] \in DOMAIN spec.fields
             /\ spec.fields[spec.order[i]] = FieldMetadata(data, m, data.fields[m][i])
  <2>1. data.fields[m][i] \in Elements(data.fields[m]) /\ ~IsRelational(data.fields[m][i])
    BY <1>1 DEF Elements
  <2>2. spec.order[i] \in DOMAIN spec.fields
    BY <1>2, <1>3, <2>1 DEF ScalarNames
  <2>3. spec.fields[spec.order[i]] = FieldMetadata(data, m, ResolveField(data, m, spec.order[i]))
    BY <2>2 DEF ModelMetadata
  <2>. QED
    BY <1>2, <2>1, <2>2, <2>3, FieldsResolve
<1>5. \A f : FieldMetadata(data, m, f).column = ColumnName(f)
  BY DEF FieldMetadata
<1>. QED
  BY <1>1, <1>2, <1>3, <1>4, <1>5

\* Two scalars at different positions have different columns.
LEMMA ColumnsAreUnique ==
  ASSUME NEW data, WellFormed(data), NEW m \in Elements(data.order),
         NEW i \in DOMAIN ModelMetadata(data, m).order, NEW j \in DOMAIN ModelMetadata(data, m).order,
         ColumnName(data.fields[m][i]) = ColumnName(data.fields[m][j])
  PROVE  i = j
<1>1. NamesAreUnique(data, m)
  BY DEF WellFormed
<1>. QED
  BY <1>1, ScalarsAreDescribed DEF NamesAreUnique

\* Its relations are described under the names of their fields.
LEMMA RelationsAreDescribed ==
  ASSUME NEW data, WellFormed(data), NEW m \in Elements(data.order)
  PROVE  LET relations == ModelMetadata(data, m).relations
             fields    == {f \in Elements(data.fields[m]) : IsRelational(f)}
         IN /\ DOMAIN relations = {f.name : f \in fields}
            /\ \A f \in fields : relations[f.name] = RelationMetadata(data, m, f)
<1>. DEFINE relations == ModelMetadata(data, m).relations
            fields    == {f \in Elements(data.fields[m]) : IsRelational(f)}
<1>1. DOMAIN relations = {f.name : f \in fields}
  BY DEF ModelMetadata, Elements
<1>2. ASSUME NEW f \in fields
      PROVE  relations[f.name] = RelationMetadata(data, m, f)
  <2>1. f.name \in DOMAIN relations
    BY <1>1
  <2>2. relations[f.name] = RelationMetadata(data, m, ResolveField(data, m, f.name))
    BY <2>1 DEF ModelMetadata
  <2>. QED
    BY <2>2, FieldsResolve
<1>. QED
  BY <1>1, <1>2

-----------------------------------------------------------------------------
(* The initial state, and each action.                                       *)

\* At the start nothing is described, no table exists and every pass is open.
LEMMA InitIInv == Init => IInv
<1>. SUFFICES ASSUME Init PROVE IInv
  OBVIOUS
<1>1. Len(d.order) \in Nat /\ Len(d.order) # 0
  BY OrderIsInjective DEF Init
<1>2. Position
  BY <1>1 DEF Init, Position, Phases, Passes
<1>3. Visited = {}
  BY DEF Init, Visited
<1>4. SchemaInv
  BY <1>3 DEF Init, SchemaInv
<1>5. TablesInv
  BY DEF Init, TablesInv, WithKeys, Phases, Passes
<1>6. ModeInv
  BY <1>3 DEF Init, ModeInv, DoneBy, WithKeys, Phases, Passes
<1>7. EmittedInv
  BY DEF Init, EmittedInv, Passes, Rendered
<1>8. DatabaseInv
  BY DEF Init, DatabaseInv
<1>. QED
  BY <1>2, <1>4, <1>5, <1>6, <1>7, <1>8 DEF IInv

\* Outside the pass that describes, all models are described.
LEMMA AllDescribed ==
  ASSUME SchemaInv, phase # "describe"
  PROVE  /\ schema = [m \in Models |-> ModelMetadata(d, m)]
         /\ DOMAIN schema = Models
         /\ \A m \in Models : /\ schema[m] = ModelMetadata(d, m)
                              /\ schema[m].table = <<m>>
                              /\ Bare(m) = BuildTable(schema[m])
<1>1. schema = [m \in Models |-> ModelMetadata(d, m)]
  BY DEF SchemaInv
<1>2. \A m : ModelMetadata(d, m).table = <<m>>
  BY DEF ModelMetadata
<1>. QED
  BY <1>1, <1>2 DEF Bare

\* build_schema_metadata() describes the next model, and no other one changes.
LEMMA DescribeModelKeepsIInv == IInv /\ DescribeModel => IInv'
<1>. SUFFICES ASSUME IInv, DescribeModel PROVE IInv'
  OBVIOUS
<1>. USE DEF IInv
<1>1. /\ phase = "describe" /\ Advance("tables")
      /\ schema' = With(schema, Model, ModelMetadata(d, Model))
      /\ UNCHANGED <<d, tables, emitted, db, diff>>
  BY DEF DescribeModel
<1>2. /\ Model \in Models /\ Model \notin Visited /\ at' \in 1 .. Len(d.order)
      /\ \/ /\ phase' = "describe" /\ Visited' = Visited \cup {Model}
         \/ /\ phase' = "tables" /\ Visited' = {} /\ Models = Visited \cup {Model}
  BY <1>1, AdvanceVisits
<1>3. Position'
  BY <1>1, <1>2 DEF Position, Phases, Passes
<1>4. SchemaInv'
  <2>1. schema = [m \in Visited |-> ModelMetadata(d, m)]
    BY <1>1 DEF SchemaInv
  <2>2. schema' = [m \in Visited \cup {Model} |-> ModelMetadata(d, m)]
    BY <1>1, <2>1 DEF With
  <2>3. Models' = Models
    BY <1>1 DEF Models
  <2>. QED
    BY <1>1, <1>2, <2>2, <2>3 DEF SchemaInv
<1>5. TablesInv'
  <2>1. tables' = <<>> /\ DOMAIN <<>> = {}
    BY <1>1 DEF TablesInv
  <2>. QED
    BY <1>2, <2>1 DEF TablesInv, WithKeys, Phases, Passes
<1>6. ModeInv'
  BY <1>2 DEF ModeInv, DoneBy, WithKeys, Phases, Passes
<1>7. EmittedInv'
  BY <1>1, <1>2 DEF EmittedInv, Rendered, Passes
<1>8. DatabaseInv'
  BY <1>1, <1>2 DEF DatabaseInv
<1>. QED
  BY <1>3, <1>4, <1>5, <1>6, <1>7, <1>8

\* _build_table() of the next model, from a description that is complete.
LEMMA AddTableKeepsIInv == IInv /\ AddTable => IInv'
<1>. SUFFICES ASSUME IInv, AddTable PROVE IInv'
  OBVIOUS
<1>. USE DEF IInv
<1>1. /\ phase = "tables" /\ Advance("keys")
      /\ tables' = With(tables, schema[Model].table, BuildTable(schema[Model]))
      /\ UNCHANGED <<d, schema, emitted, db, diff>>
  BY DEF AddTable
<1>2. /\ Model \in Models /\ Model \notin Visited /\ at' \in 1 .. Len(d.order)
      /\ Visited \subseteq Models
      /\ \/ /\ phase' = "tables" /\ Visited' = Visited \cup {Model}
         \/ /\ phase' = "keys" /\ Visited' = {} /\ Models = Visited \cup {Model}
  BY <1>1, AdvanceVisits
<1>3. Position'
  BY <1>1, <1>2 DEF Position, Phases, Passes
<1>4. SchemaInv'
  BY <1>1, <1>2 DEF SchemaInv, Models
<1>5. TablesInv'
  <2>1. schema[Model].table = <<Model>> /\ BuildTable(schema[Model]) = Bare(Model)
    BY <1>1, <1>2, AllDescribed
  <2>2. /\ DOMAIN tables = {<<m>> : m \in Visited}
        /\ \A m \in Visited : tables[<<m>>] = Bare(m)
    BY <1>1 DEF TablesInv
  <2>3. /\ DOMAIN tables' = {<<m>> : m \in Visited \cup {Model}}
        /\ \A m \in Visited \cup {Model} : tables'[<<m>>] = Bare(m)
    BY <1>1, <2>1, <2>2 DEF With
  <2>4. Models' = Models /\ \A m : Bare(m)' = Bare(m)
    BY <1>1 DEF Models, Bare
  <2>. QED
    BY <1>2, <2>3, <2>4 DEF TablesInv, WithKeys, Phases, Passes
<1>6. ModeInv'
  BY <1>2 DEF ModeInv, DoneBy, WithKeys, Phases, Passes
<1>7. EmittedInv'
  BY <1>1, <1>2 DEF EmittedInv, Rendered, Passes
<1>8. DatabaseInv'
  BY <1>1, <1>2 DEF DatabaseInv
<1>. QED
  BY <1>3, <1>4, <1>5, <1>6, <1>7, <1>8

\* An exception, in either pass that may raise one.
LEMMA RefuseKeepsIInv == IInv /\ (RefuseTable \/ RefuseKeys) => IInv'
<1>. SUFFICES ASSUME IInv, RefuseTable \/ RefuseKeys PROVE IInv'
  OBVIOUS
<1>. USE DEF IInv
<1>1. /\ phase \in {"tables", "keys"} /\ phase' = "refused" /\ tables' = <<>>
      /\ UNCHANGED <<d, at, schema, emitted, db, diff>>
  BY DEF RefuseTable, RefuseKeys, Refuse
<1>2. Position'
  BY <1>1 DEF Position, Phases
<1>3. SchemaInv'
  BY <1>1 DEF SchemaInv, Models
<1>4. TablesInv' /\ ModeInv'
  BY <1>1 DEF TablesInv, ModeInv, DoneBy, WithKeys
<1>5. EmittedInv'
  BY <1>1 DEF EmittedInv, Rendered, Passes
<1>6. DatabaseInv'
  BY <1>1 DEF DatabaseInv
<1>. QED
  BY <1>2, <1>3, <1>4, <1>5, <1>6

\* _add_foreign_keys() of the next model: all tables are there already, and
\* the columns and keys that other tables have are left alone.
LEMMA AddKeysKeepsIInv == IInv /\ AddKeys => IInv'
<1>. SUFFICES ASSUME IInv, AddKeys PROVE IInv'
  OBVIOUS
<1>. USE DEF IInv
<1>1. /\ phase = "keys" /\ Advance("joins") /\ ~UnknownMode(Model)
      /\ tables' = AddForeignKeys(tables, schema[Model], schema)
      /\ UNCHANGED <<d, schema, emitted, db, diff>>
  BY DEF AddKeys
<1>2. /\ Model \in Models /\ Model \notin Visited /\ at' \in 1 .. Len(d.order)
      /\ Visited \subseteq Models
      /\ \/ /\ phase' = "keys" /\ Visited' = Visited \cup {Model}
         \/ /\ phase' = "joins" /\ Visited' = {} /\ Models = Visited \cup {Model}
  BY <1>1, AdvanceVisits
<1>3. Position'
  BY <1>1, <1>2 DEF Position, Phases, Passes
<1>4. SchemaInv'
  BY <1>1, <1>2 DEF SchemaInv, Models
<1>5. TablesInv'
  <2>1. schema[Model].table = <<Model>>
    BY <1>1, <1>2, AllDescribed
  <2>2. /\ DOMAIN tables = {<<m>> : m \in Models}
        /\ \A m \in Models : tables[<<m>>] = IF m \in Visited THEN Keyed(m) ELSE Bare(m)
    BY <1>1 DEF TablesInv
  <2>3. tables' = [tables EXCEPT ![<<Model>>].keys =
                     tables[<<Model>>].keys \cup ForeignKeys(schema[Model], schema)]
    BY <1>1, <2>1 DEF AddForeignKeys
  <2>4. [Bare(Model) EXCEPT !.keys = Bare(Model).keys \cup ForeignKeys(schema[Model], schema)] = Keyed(Model)
    <3>1. Bare(Model).keys = {}
      BY DEF Bare, BuildTable
    <3>. QED
      BY <3>1 DEF Keyed
  <2>5. /\ DOMAIN tables' = {<<m>> : m \in Models}
        /\ \A m \in Models : tables'[<<m>>] = IF m \in Visited \cup {Model} THEN Keyed(m) ELSE Bare(m)
    <3>1. <<Model>> \in DOMAIN tables /\ tables[<<Model>>] = Bare(Model)
      BY <1>2, <2>2
    <3>2. /\ DOMAIN tables' = DOMAIN tables
          /\ tables'[<<Model>>] = Keyed(Model)
          /\ \A t \in DOMAIN tables : t # <<Model>> => tables'[t] = tables[t]
      BY <2>3, <2>4, <3>1
    <3>3. \A m : <<m>> = <<Model>> => m = Model
      OBVIOUS
    <3>. QED
      BY <2>2, <3>2, <3>3
  <2>6. Models' = Models /\ \A m : Bare(m)' = Bare(m) /\ Keyed(m)' = Keyed(m)
    BY <1>1 DEF Models, Bare, Keyed
  <2>7. CASE phase' = "keys"
    BY <1>2, <2>5, <2>6, <2>7 DEF TablesInv, WithKeys
  <2>8. CASE phase' = "joins"
    <3>1. Visited' = {} /\ Models = Visited \cup {Model}
      BY <1>2, <2>8
    <3>. QED
      BY <2>5, <2>6, <2>8, <3>1 DEF TablesInv, WithKeys, DoneBy
  <2>. QED
    BY <1>2, <2>7, <2>8
<1>6. ModeInv'
  <2>1. Models' = Models /\ \A m : UnknownMode(m)' = UnknownMode(m)
    BY <1>1 DEF Models, UnknownMode
  <2>2. \A m \in Visited \cup {Model} : ~UnknownMode(m)
    BY <1>1 DEF ModeInv, DoneBy
  <2>. QED
    BY <1>2, <2>1, <2>2 DEF ModeInv, DoneBy, WithKeys
<1>7. EmittedInv'
  BY <1>1, <1>2 DEF EmittedInv, Rendered, Passes
<1>8. DatabaseInv'
  BY <1>1, <1>2 DEF DatabaseInv
<1>. QED
  BY <1>3, <1>4, <1>5, <1>6, <1>7, <1>8

\* The name of a join table is not that of a model's table.
LEMMA JoinTablesAreOthers ==
  ASSUME SchemaInv, phase # "describe", NEW m \in Models, NEW r \in ManyToMany(m), NEW n
  PROVE  schema[m].relations[r].join.table # <<n>>
<1>1. schema[m] = ModelMetadata(d, m)
  BY AllDescribed
<1>2. r \in DOMAIN schema[m].relations /\ schema[m].relations[r].shape = "many-to-many"
  BY DEF ManyToMany
<1>3. \E f : schema[m].relations[r] = RelationMetadata(d, m, f)
  BY <1>1, <1>2 DEF ModelMetadata
<1>4. PICK f : schema[m].relations[r] = RelationMetadata(d, m, f)
  BY <1>3
<1>5. schema[m].relations[r].join = ImplicitJoin(m, f)
  BY <1>2, <1>4 DEF RelationMetadata
<1>6. ImplicitJoin(m, f).table = <<"_", f.relation>>
  BY DEF ImplicitJoin
<1>7. <<"_", f.relation>> # <<n>>
  OBVIOUS
<1>. QED
  BY <1>5, <1>6, <1>7

\* A join table that is built stays as it was built while the tables of the
\* models stay what they are.
LEMMA JoinTableIsStable ==
  ASSUME NEW relation, NEW m, NEW some, NEW others,
         some[schema[m].table] = others[schema[m].table],
         some[schema[relation.to].table] = others[schema[relation.to].table]
  PROVE  BuildJoinTable(some, schema, relation, m) = BuildJoinTable(others, schema, relation, m)
<1>. DEFINE left  == schema[IF relation.to < m THEN relation.to ELSE m].table
            right == schema[IF relation.to < m THEN m ELSE relation.to].table
<1>1. some[left] = others[left] /\ some[right] = others[right]
  OBVIOUS
<1>. QED
  BY <1>1 DEF BuildJoinTable

\* Each relation is the description of a field whose type is a model.
LEMMA RelationsLeadToModels ==
  ASSUME Position, SchemaInv, phase # "describe", NEW m \in Models, NEW r \in DOMAIN schema[m].relations
  PROVE  /\ schema[m].relations[r].to \in Models
         /\ \E f \in Elements(d.fields[m]) :
              IsRelational(f) /\ r = f.name /\ schema[m].relations[r] = RelationMetadata(d, m, f)
<1>1. schema[m] = ModelMetadata(d, m)
  BY AllDescribed
<1>2. WellFormed(d) /\ m \in Elements(d.order)
  BY DataIsWellFormed DEF Position, Models
<1>3. \E f \in {g \in Elements(d.fields[m]) : IsRelational(g)} :
        r = f.name /\ schema[m].relations[r] = RelationMetadata(d, m, f)
  BY <1>1, <1>2, RelationsAreDescribed
<1>4. PICK f \in {g \in Elements(d.fields[m]) : IsRelational(g)} :
        r = f.name /\ schema[m].relations[r] = RelationMetadata(d, m, f)
  BY <1>3
<1>5. f.type \in Models
  BY <1>2 DEF WellFormed, RelationsHaveTwoSides, Models
<1>6. RelationMetadata(d, m, f).to = f.type
  BY DEF RelationMetadata
<1>. QED
  BY <1>4, <1>5, <1>6

\* _build_join_table() for the relations of the next model: a join table that
\* a model visited earlier needed is found, and is the same.
LEMMA AddJoinTablesKeepsIInv == IInv /\ AddJoinTables => IInv'
<1>. SUFFICES ASSUME IInv, AddJoinTables PROVE IInv'
  OBVIOUS
<1>. USE DEF IInv
<1>. DEFINE relations == schema[Model].relations
            joins     == {r \in DOMAIN relations : /\ relations[r].shape = "many-to-many"
                                                   /\ relations[r].join.table \notin DOMAIN tables}
            names     == {relations[r].join.table : r \in joins}
            First(t)  == CHOOSE r \in joins : relations[r].join.table = t
<1>1. /\ phase = "joins" /\ Advance("plan")
      /\ tables' = [t \in DOMAIN tables \cup names |->
                      IF t \in names THEN BuildJoinTable(tables, schema, relations[First(t)], Model)
                      ELSE tables[t]]
      /\ UNCHANGED <<d, schema, emitted, db, diff>>
  BY DEF AddJoinTables
<1>2. /\ Model \in Models /\ at' \in 1 .. Len(d.order) /\ Visited \subseteq Models
      /\ \/ /\ phase' = "joins" /\ Visited' = Visited \cup {Model}
         \/ /\ phase' = "plan" /\ Models = Visited \cup {Model}
  BY <1>1, AdvanceVisits
<1>3. Position'
  BY <1>1, <1>2 DEF Position, Phases, Passes
<1>4. SchemaInv'
  BY <1>1, <1>2 DEF SchemaInv, Models
<1>5. TablesInv'
  <2>1. /\ \A m \in Models : <<m>> \in DOMAIN tables /\ tables[<<m>>] = Keyed(m)
        /\ \A t \in DOMAIN tables : (\E m \in Models : t = <<m>>) \/ IsJoinTable(t)
        /\ \A m \in Visited : \A r \in ManyToMany(m) : schema[m].relations[r].join.table \in DOMAIN tables
    BY <1>1 DEF TablesInv, WithKeys, Phases, Passes, DoneBy
  <2>2. Models' = Models /\ \A m : Keyed(m)' = Keyed(m) /\ ManyToMany(m)' = ManyToMany(m)
    BY <1>1 DEF Models, Bare, Keyed, ManyToMany
  <2>3. names \cap DOMAIN tables = {}
    OBVIOUS
  <2>. HIDE DEF First
  <2>4. /\ DOMAIN tables' = DOMAIN tables \cup names
        /\ \A t \in DOMAIN tables : tables'[t] = tables[t]
        /\ \A t \in names : tables'[t] = BuildJoinTable(tables, schema, relations[First(t)], Model)
    BY <1>1, <2>3
  <2>5. \A m \in Models : <<m>> \in DOMAIN tables' /\ tables'[<<m>>] = Keyed(m)
    BY <2>1, <2>4
  <2>6. ASSUME NEW m \in Models, NEW r \in DOMAIN schema[m].relations
        PROVE  BuildJoinTable(tables, schema, schema[m].relations[r], m)
                 = BuildJoinTable(tables', schema, schema[m].relations[r], m)
    <3>1. schema[m].relations[r].to \in Models
      BY <1>1, RelationsLeadToModels
    <3>2. \A n \in Models : schema[n].table = <<n>>
      BY <1>1, AllDescribed
    <3>3. ASSUME NEW n \in Models
          PROVE  tables[schema[n].table] = tables'[schema[n].table]
      <4>1. tables[<<n>>] = tables'[<<n>>]
        BY <2>1, <2>5
      <4>. QED
        BY <3>2, <4>1
    <3>. QED
      BY <3>1, <3>3, JoinTableIsStable
  <2>7. ASSUME NEW t \in DOMAIN tables'
        PROVE  (\E m \in Models : t = <<m>>) \/ IsJoinTable(t)'
    <3>1. CASE t \in names
      <4>1. \E r \in joins : relations[r].join.table = t
        BY <3>1
      <4>2. First(t) \in joins /\ relations[First(t)].join.table = t
        BY <4>1 DEF First
      <4>3. First(t) \in ManyToMany(Model)
        BY <4>2 DEF ManyToMany
      <4>4. tables'[t] = BuildJoinTable(tables', schema, relations[First(t)], Model)
        BY <1>2, <2>4, <2>6, <3>1, <4>2
      <4>. QED
        BY <1>1, <1>2, <2>2, <4>2, <4>3, <4>4 DEF IsJoinTable
    <3>2. CASE t \in DOMAIN tables /\ IsJoinTable(t)
      <4>1. PICK m \in Models : \E r \in ManyToMany(m) :
              /\ schema[m].relations[r].join.table = t
              /\ tables[t] = BuildJoinTable(tables, schema, schema[m].relations[r], m)
        BY <3>2 DEF IsJoinTable
      <4>2. PICK r \in ManyToMany(m) :
              /\ schema[m].relations[r].join.table = t
              /\ tables[t] = BuildJoinTable(tables, schema, schema[m].relations[r], m)
        BY <4>1
      <4>3. r \in DOMAIN schema[m].relations
        BY DEF ManyToMany
      <4>4. tables'[t] = BuildJoinTable(tables', schema, schema[m].relations[r], m)
        BY <2>4, <2>6, <3>2, <4>2, <4>3
      <4>. QED
        BY <1>1, <2>2, <4>2, <4>4 DEF IsJoinTable
    <3>. QED
      BY <2>1, <2>4, <3>1, <3>2
  <2>8. \A r \in ManyToMany(Model) : schema[Model].relations[r].join.table \in DOMAIN tables'
    BY <2>4 DEF ManyToMany
  <2>9. \A m \in Visited \cup {Model} : \A r \in ManyToMany(m) :
          schema[m].relations[r].join.table \in DOMAIN tables'
    BY <2>1, <2>4, <2>8
  <2>10. CASE phase' = "joins" /\ Visited' = Visited \cup {Model}
    BY <1>1, <2>2, <2>5, <2>7, <2>9, <2>10 DEF TablesInv, WithKeys, DoneBy
  <2>11. CASE phase' = "plan" /\ Models = Visited \cup {Model}
    BY <1>1, <2>2, <2>5, <2>7, <2>9, <2>11 DEF TablesInv, WithKeys, DoneBy
  <2>. QED
    BY <1>2, <2>10, <2>11
<1>6. ModeInv'
  <2>1. Models' = Models /\ \A m : UnknownMode(m)' = UnknownMode(m)
    BY <1>1 DEF Models, UnknownMode
  <2>2. \A m \in Models : ~UnknownMode(m)
    BY <1>1 DEF ModeInv, DoneBy, WithKeys, Phases, Passes
  <2>. QED
    BY <1>2, <2>1, <2>2 DEF ModeInv, DoneBy
<1>7. EmittedInv'
  BY <1>1, <1>2 DEF EmittedInv, Rendered, Passes
<1>8. DatabaseInv'
  BY <1>1, <1>2 DEF DatabaseInv
<1>. QED
  BY <1>3, <1>4, <1>5, <1>6, <1>7, <1>8

\* What reads the schema and the tables leaves them as they are.
LEMMA ReadingKeepsTables ==
  ASSUME IInv, phase \in WithKeys \ {"joins"}, phase' \in WithKeys \ {"joins"},
         UNCHANGED <<d, at, schema, tables>>
  PROVE  Position' /\ SchemaInv' /\ TablesInv' /\ ModeInv'
<1>. USE DEF IInv
<1>1. Models' = Models /\ Visited' = Visited /\ phase # "describe" /\ phase' # "describe"
  BY DEF Models, Visited, WithKeys, Phases, Passes
<1>2. \A m : /\ Keyed(m)' = Keyed(m) /\ ManyToMany(m)' = ManyToMany(m) /\ IsJoinTable(m)' = IsJoinTable(m)
             /\ UnknownMode(m)' = UnknownMode(m)
  BY DEF Bare, Keyed, ManyToMany, IsJoinTable, UnknownMode, Models
<1>3. DoneBy("joins", WithKeys) = Models /\ DoneBy("keys", WithKeys) = Models
  BY DEF DoneBy, WithKeys, Phases, Passes
<1>4. DoneBy("joins", WithKeys)' = Models /\ DoneBy("keys", WithKeys)' = Models
  BY <1>1 DEF DoneBy, WithKeys, Phases, Passes
<1>5. Position' /\ SchemaInv'
  BY <1>1 DEF Position, SchemaInv, WithKeys
<1>6. TablesInv'
  <2>1. /\ \A m \in Models : <<m>> \in DOMAIN tables /\ tables[<<m>>] = Keyed(m)
        /\ \A t \in DOMAIN tables : (\E m \in Models : t = <<m>>) \/ IsJoinTable(t)
        /\ \A m \in Models : \A r \in ManyToMany(m) : schema[m].relations[r].join.table \in DOMAIN tables
    BY <1>3 DEF TablesInv
  <2>2. phase' \notin {"describe", "refused", "tables", "keys"}
    BY DEF WithKeys
  <2>. QED
    BY <1>1, <1>2, <1>4, <2>1, <2>2 DEF TablesInv
<1>7. ModeInv'
  BY <1>2, <1>3, <1>4 DEF ModeInv
<1>. QED
  BY <1>5, <1>6, <1>7

\* The emitter plans, in one step, which models and relations it can map.
LEMMA PlanKeepsIInv == IInv /\ Plan => IInv'
<1>. SUFFICES ASSUME IInv, Plan PROVE IInv'
  OBVIOUS
<1>1. /\ phase = "plan" /\ phase' = "render"
      /\ emitted' = [emitted EXCEPT !.mappable = PlanModels(schema, d.enums),
                                    !.relations = PlanRelations(schema, PlanModels(schema, d.enums))]
      /\ UNCHANGED <<d, at, schema, tables, db, diff>>
  BY DEF Plan
<1>2. Position' /\ SchemaInv' /\ TablesInv' /\ ModeInv'
  BY <1>1, ReadingKeepsTables DEF WithKeys, Phases, Passes
<1>3. EmittedInv'
  <2>1. emitted = NothingEmitted
    BY <1>1 DEF IInv, EmittedInv
  <2>2. emitted' = [mappable  |-> PlanModels(schema, d.enums),
                    relations |-> PlanRelations(schema, PlanModels(schema, d.enums)),
                    classes   |-> <<>>, loose |-> <<>>]
    BY <1>1, <2>1 DEF NothingEmitted
  <2>. QED
    BY <1>1, <2>2 DEF EmittedInv, Rendered, Passes
<1>4. DatabaseInv'
  BY <1>1 DEF IInv, DatabaseInv
<1>. QED
  BY <1>2, <1>3, <1>4 DEF IInv

\* The emitter renders the classes and the loose tables it planned.
LEMMA RenderKeepsIInv == IInv /\ Render => IInv'
<1>. SUFFICES ASSUME IInv, Render PROVE IInv'
  OBVIOUS
<1>1. /\ phase = "render" /\ phase' = "database"
      /\ emitted' = [emitted EXCEPT !.classes = RenderClasses(tables, schema, emitted.mappable),
                                    !.loose = RenderLooseTables(tables, schema, emitted.mappable)]
      /\ UNCHANGED <<d, at, schema, tables, db, diff>>
  BY DEF Render
<1>2. Position' /\ SchemaInv' /\ TablesInv' /\ ModeInv'
  BY <1>1, ReadingKeepsTables DEF WithKeys, Phases, Passes
<1>3. EmittedInv'
  <2>. DEFINE mappable == PlanModels(schema, d.enums)
  <2>1. \E classes, loose : emitted = [mappable |-> mappable, relations |-> PlanRelations(schema, mappable),
                                       classes |-> classes, loose |-> loose]
    BY <1>1 DEF IInv, EmittedInv
  <2>2. PICK classes, loose : emitted = [mappable |-> mappable, relations |-> PlanRelations(schema, mappable),
                                         classes |-> classes, loose |-> loose]
    BY <2>1
  <2>. HIDE DEF mappable
  <2>3. emitted' = [mappable  |-> mappable, relations |-> PlanRelations(schema, mappable),
                    classes   |-> RenderClasses(tables, schema, mappable),
                    loose     |-> RenderLooseTables(tables, schema, mappable)]
    BY <1>1, <2>2
  <2>4. PlanModels(schema', d'.enums) = mappable /\ schema' = schema /\ tables' = tables
    BY <1>1 DEF mappable
  <2>5. /\ emitted'.classes = RenderClasses(tables, schema, mappable)
        /\ emitted'.loose = RenderLooseTables(tables, schema, mappable)
    BY <2>3
  <2>6. emitted' = [mappable  |-> mappable, relations |-> PlanRelations(schema, mappable),
                    classes   |-> emitted'.classes, loose |-> emitted'.loose]
    BY <2>3, <2>5
  <2>. QED
    BY <1>1, <2>4, <2>5, <2>6 DEF EmittedInv, Rendered, Passes
<1>4. DatabaseInv'
  BY <1>1 DEF IInv, DatabaseInv
<1>. QED
  BY <1>2, <1>3, <1>4 DEF IInv

\* The last three actions do not touch what is emitted.
LEMMA EmittedKept ==
  ASSUME IInv, phase \in {"database", "upgrade", "autogenerate", "done"},
         phase' \in {"database", "upgrade", "autogenerate", "done"},
         UNCHANGED <<d, schema, tables, emitted>>
  PROVE  EmittedInv'
BY DEF IInv, EmittedInv, Rendered, Passes

\* The database is created from the tables, and someone may alter it.
LEMMA PushKeepsIInv == IInv /\ Push => IInv'
<1>. SUFFICES ASSUME IInv, Push PROVE IInv'
  OBVIOUS
<1>1. /\ phase = "database" /\ phase' = "upgrade"
      /\ UNCHANGED <<d, at, schema, tables, emitted, diff>>
  BY DEF Push
<1>2. PICK lost \in {{}} \cup {{t} : t \in DOMAIN tables}, defaults \in [DrawingColumns -> Draws] :
        db' = [db EXCEPT !.tables = (DOMAIN tables \cup {Migrations}) \ lost, !.defaults = defaults]
  BY DEF Push
<1>3. Position' /\ SchemaInv' /\ TablesInv' /\ ModeInv' /\ EmittedInv'
  BY <1>1, ReadingKeepsTables, EmittedKept DEF WithKeys, Phases, Passes
<1>4. DatabaseInv'
  <2>1. db = NoDatabase
    BY <1>1 DEF IInv, DatabaseInv
  <2>2. db' = [tables |-> (DOMAIN tables \cup {Migrations}) \ lost, defaults |-> defaults, stamped |-> FALSE]
    BY <1>2, <2>1 DEF NoDatabase
  <2>3. DrawingColumns' = DrawingColumns
    BY <1>1 DEF DrawingColumns
  <2>. QED
    BY <1>1, <2>2, <2>3 DEF DatabaseInv
<1>. QED
  BY <1>3, <1>4 DEF IInv

\* The baseline stamps a database that has every table, and raises over others.
LEMMA UpgradeKeepsIInv == IInv /\ Upgrade => IInv'
<1>. SUFFICES ASSUME IInv, Upgrade PROVE IInv'
  OBVIOUS
<1>1. /\ phase = "upgrade" /\ UNCHANGED <<d, at, schema, tables, emitted, diff>>
      /\ db' = [db EXCEPT !.stamped = DOMAIN tables \subseteq db.tables]
      /\ phase' = IF db'.stamped THEN "autogenerate" ELSE "done"
  BY DEF Upgrade
<1>2. Position' /\ SchemaInv' /\ TablesInv' /\ ModeInv' /\ EmittedInv'
  BY <1>1, ReadingKeepsTables, EmittedKept DEF WithKeys, Phases, Passes
<1>3. DatabaseInv'
  <2>1. /\ db = [tables |-> db.tables, defaults |-> db.defaults, stamped |-> db.stamped]
        /\ db.tables \subseteq DOMAIN tables \cup {Migrations}
        /\ db.defaults \in [DrawingColumns -> Draws]
    BY <1>1 DEF IInv, DatabaseInv
  <2>2. db' = [tables |-> db.tables, defaults |-> db.defaults, stamped |-> DOMAIN tables \subseteq db.tables]
    BY <1>1, <2>1
  <2>3. DrawingColumns' = DrawingColumns
    BY <1>1 DEF DrawingColumns
  <2>4. (phase' = "autogenerate" /\ db'.stamped) \/ (phase' = "done" /\ ~db'.stamped)
    BY <1>1
  <2>. QED
    BY <1>1, <2>1, <2>2, <2>3, <2>4 DEF DatabaseInv
<1>. QED
  BY <1>2, <1>3 DEF IInv

\* The comparison of Alembic reports what differs, and changes nothing else.
LEMMA AutogenerateKeepsIInv == IInv /\ Autogenerate => IInv'
<1>. SUFFICES ASSUME IInv, Autogenerate PROVE IInv'
  OBVIOUS
<1>1. /\ phase = "autogenerate" /\ phase' = "done" /\ UNCHANGED <<d, at, schema, tables, emitted, db>>
      /\ diff' = [missing |-> DOMAIN tables \ db.tables,
                  dropped |-> {t \in db.tables \ DOMAIN tables : IncludeObject(t)},
                  altered |-> {c \in DrawingColumns : CompareServerDefault(c)}]
  BY DEF Autogenerate
<1>2. Position' /\ SchemaInv' /\ TablesInv' /\ ModeInv' /\ EmittedInv'
  BY <1>1, ReadingKeepsTables, EmittedKept DEF WithKeys, Phases, Passes
<1>3. DatabaseInv'
  <2>1. DrawingColumns' = DrawingColumns /\ \A c : CompareServerDefault(c)' = CompareServerDefault(c)
    BY <1>1 DEF DrawingColumns, CompareServerDefault, Reflected, TakenForSerial, Wanted, OwnSequence
  <2>. QED
    BY <1>1, <2>1 DEF IInv, DatabaseInv
<1>. QED
  BY <1>2, <1>3 DEF IInv

\* Every reachable state is one the passes explain.
THEOREM InvariantHolds == Spec => []IInv
<1>1. Init => IInv
  BY InitIInv
<1>2. IInv /\ [Next]_vars => IInv'
  <2>. SUFFICES ASSUME IInv, [Next]_vars PROVE IInv'
    OBVIOUS
  <2>1. CASE UNCHANGED vars
    <3>1. UNCHANGED <<d, phase, at, schema, tables, emitted, db, diff>>
      BY <2>1 DEF vars
    <3>2. Position' /\ SchemaInv'
      BY <3>1 DEF IInv, Position, SchemaInv, Models, Visited
    <3>3. ModeInv'
      BY <3>1 DEF IInv, ModeInv, Models, Visited, DoneBy, UnknownMode
    <3>4. TablesInv'
      BY <3>1 DEF IInv, TablesInv, Models, Visited, DoneBy, Bare, Keyed, ManyToMany, IsJoinTable
    <3>5. EmittedInv'
      BY <3>1 DEF IInv, EmittedInv, Rendered
    <3>6. DatabaseInv'
      <4>1. DrawingColumns' = DrawingColumns
        BY <3>1 DEF DrawingColumns
      <4>2. \A c : CompareServerDefault(c)' = CompareServerDefault(c)
        BY <3>1 DEF CompareServerDefault, Reflected, TakenForSerial, Wanted, OwnSequence
      <4>. QED
        BY <3>1, <4>1, <4>2 DEF IInv, DatabaseInv
    <3>. QED
      BY <3>2, <3>4, <3>5, <3>6, <3>3 DEF IInv
  <2>. QED
    BY <2>1, DescribeModelKeepsIInv, AddTableKeepsIInv, RefuseKeepsIInv, AddKeysKeepsIInv,
       AddJoinTablesKeepsIInv, PlanKeepsIInv, RenderKeepsIInv, PushKeepsIInv, UpgradeKeepsIInv,
       AutogenerateKeepsIInv DEF Next
<1>. QED
  BY <1>1, <1>2, PTL DEF Spec

-----------------------------------------------------------------------------
(* What Alembic reports.                                                     *)

\* The columns of a model's table are the descriptions of its scalars.
LEMMA ColumnsOfModels ==
  ASSUME Position, NEW m \in Models
  PROVE  LET spec == ModelMetadata(d, m)
         IN /\ DOMAIN Keyed(m).columns = DOMAIN spec.order
            /\ \A i \in DOMAIN spec.order :
                 Keyed(m).columns[i] = BuildColumn(FieldMetadata(d, m, d.fields[m][i]),
                                                   d.fields[m][i].name \in Elements(spec.key.fields))
<1>. DEFINE spec == ModelMetadata(d, m)
<1>1. WellFormed(d) /\ m \in Elements(d.order)
  BY DataIsWellFormed DEF Position, Models
<1>2. \A i \in DOMAIN spec.order : /\ spec.order[i] = d.fields[m][i].name
                                   /\ spec.fields[spec.order[i]] = FieldMetadata(d, m, d.fields[m][i])
  BY <1>1, ScalarsAreDescribed
<1>3. Bare(m).columns = [i \in DOMAIN spec.order |->
        BuildColumn(spec.fields[spec.order[i]], spec.order[i] \in Elements(spec.key.fields))]
  BY DEF Bare, BuildTable
<1>4. Keyed(m).columns = Bare(m).columns
  BY DEF Keyed, Bare, BuildTable
<1>. QED
  BY <1>2, <1>3, <1>4

\* A column draws from no sequence or from one with a name of three parts.
LEMMA SequencesHaveNames ==
  ASSUME IInv, phase \in WithKeys, NEW t \in DOMAIN tables, NEW i \in DOMAIN tables[t].columns
  PROVE  tables[t].columns[i].sequence # <<"another">>
<1>1. CASE \E m \in Models : t = <<m>>
  <2>1. PICK m \in Models : t = <<m>>
    BY <1>1
  <2>2. tables[t] = Keyed(m)
    BY <2>1 DEF IInv, TablesInv
  <2>3. PICK f, flag : tables[t].columns[i] = BuildColumn(FieldMetadata(d, m, f), flag)
    BY <2>2, ColumnsOfModels DEF IInv
  <2>4. tables[t].columns[i].sequence = SequenceFor(d, m, f)
    BY <2>3 DEF BuildColumn, FieldMetadata
  <2>. QED
    BY <2>4 DEF SequenceFor
<1>2. CASE IsJoinTable(t)
  <2>1. \E relation, m : tables[t] = BuildJoinTable(tables, schema, relation, m)
    BY <1>2 DEF IsJoinTable
  <2>2. \E one, two : tables[t].columns = <<JoinColumn("A", one), JoinColumn("B", two)>>
    BY <2>1 DEF BuildJoinTable
  <2>3. \A name, table : JoinColumn(name, table).sequence = <<>>
    BY DEF JoinColumn
  <2>4. tables[t].columns[i].sequence = <<>>
    BY <2>2, <2>3
  <2>. QED
    BY <2>4
<1>. QED
  BY <1>1, <1>2 DEF IInv, TablesInv

\* The text of a default differs from the one wanted unless it draws from the
\* column's own sequence and PostgreSQL quotes the name.
LEMMA SpellingsDiffer ==
  ASSUME NEW c, OwnSequence(c) # <<"another">>
  PROVE  /\ <<Spelled(<<"another">>)>> # <<Wanted(c)>>
         /\ <<Spelled(OwnSequence(c))>> = <<Wanted(c)>> <=> OwnSequence(c) \notin PlainSequences
<1>. DEFINE own == OwnSequence(c)
<1>1. Wanted(c) = [quoted |-> TRUE, name |-> own]
  BY DEF Wanted
<1>2. Spelled(<<"another">>).name = <<"another">>
  BY DEF Spelled
<1>3. Spelled(own) = [quoted |-> own \notin PlainSequences, name |-> own]
  BY DEF Spelled
<1>. HIDE DEF own
<1>4. Spelled(<<"another">>) # Wanted(c)
  BY <1>1, <1>2 DEF own
<1>5. Spelled(own) = Wanted(c) <=> own \notin PlainSequences
  <2>1. CASE own \in PlainSequences
    <3>1. (own \notin PlainSequences) = FALSE
      BY <2>1
    <3>2. Spelled(own) = [quoted |-> FALSE, name |-> own]
      BY <1>3, <3>1, Zenon
    <3>3. [quoted |-> FALSE, name |-> own] # Wanted(c)
      BY <1>1
    <3>. QED
      BY <2>1, <3>2, <3>3
  <2>2. CASE own \notin PlainSequences
    BY <1>1, <1>3, <2>2
  <2>. QED
    BY <2>1, <2>2
<1>. QED
  BY <1>4, <1>5 DEF own

\* The comparison of one column, with a draw of each kind.
LEMMA ComparisonFollows ==
  ASSUME NEW c, db.defaults[c] \in Draws, OwnSequence(c) # <<"another">>, ~Misjudged(c)
  PROVE  CompareServerDefault(c) <=> db.defaults[c].source # "own"
<1>. DEFINE found == Reflected(c)
            source == db.defaults[c].source
<1>1. source \in {"own", "another", "none"}
  BY DEF Draws
<1>2. CompareServerDefault(c) = IF found.default # <<>> THEN found.default # <<Wanted(c)>> ELSE ~found.autoincrement
  BY DEF CompareServerDefault
<1>3. /\ found.default = IF source = "none" \/ TakenForSerial(c) THEN <<>>
                         ELSE <<Spelled(IF source = "own" THEN OwnSequence(c) ELSE <<"another">>)>>
      /\ found.autoincrement = (source # "none")
  BY DEF Reflected
<1>4. /\ source = "own" /\ ~TakenForSerial(c) => OwnSequence(c) \notin PlainSequences
      /\ source = "another" => ~TakenForSerial(c)
  BY DEF Misjudged
<1>5. \A x : <<x>> # <<>>
  OBVIOUS
<1>. HIDE DEF found, source
<1>6. CASE source = "none"
  BY <1>2, <1>3, <1>6 DEF source
<1>7. CASE source = "another"
  <2>1. found.default = <<Spelled(<<"another">>)>>
    BY <1>3, <1>4, <1>7
  <2>. QED
    BY <1>2, <1>5, <1>7, <2>1, SpellingsDiffer DEF source
<1>8. CASE source = "own" /\ TakenForSerial(c)
  BY <1>2, <1>3, <1>8 DEF source
<1>9. CASE source = "own" /\ ~TakenForSerial(c)
  <2>1. found.default = <<Spelled(OwnSequence(c))>>
    BY <1>3, <1>9
  <2>. QED
    BY <1>2, <1>4, <1>5, <1>9, <2>1, SpellingsDiffer DEF source
<1>. QED
  BY <1>1, <1>6, <1>7, <1>8, <1>9

\* No difference is reported that is none, and none is missed, Misjudged apart.
LEMMA DiffFollows == IInv => DiffIsTruth
<1>. SUFFICES ASSUME IInv, phase = "done", db.stamped PROVE
        /\ diff.missing = {} /\ diff.dropped = {}
        /\ diff.altered \subseteq DrawingColumns
        /\ \A c \in DrawingColumns :
             ~Misjudged(c) => (c \in diff.altered <=> db.defaults[c].source # "own")
  BY DEF DiffIsTruth
<1>1. /\ db.tables \subseteq DOMAIN tables \cup {Migrations} /\ DOMAIN tables \subseteq db.tables
      /\ db.defaults \in [DrawingColumns -> Draws]
      /\ diff = [missing |-> DOMAIN tables \ db.tables,
                 dropped |-> {t \in db.tables \ DOMAIN tables : IncludeObject(t)},
                 altered |-> {c \in DrawingColumns : CompareServerDefault(c)}]
  BY DEF IInv, DatabaseInv
<1>2. diff.missing = {} /\ diff.dropped = {}
  BY <1>1 DEF IncludeObject
<1>3. ASSUME NEW c \in DrawingColumns, ~Misjudged(c)
      PROVE  CompareServerDefault(c) <=> db.defaults[c].source # "own"
  <2>1. c[1] \in DOMAIN tables /\ c[2] \in DOMAIN tables[c[1]].columns
    BY DEF DrawingColumns
  <2>2. OwnSequence(c) # <<"another">>
    BY <2>1, SequencesHaveNames DEF OwnSequence, WithKeys, Phases, Passes
  <2>3. db.defaults[c] \in Draws
    BY <1>1
  <2>. QED
    BY <1>3, <2>2, <2>3, ComparisonFollows
<1>. QED
  BY <1>1, <1>2, <1>3

\* Alembic's autogenerate reports the columns whose default no longer draws
\* from their sequence, and nothing else of a database that was stamped, but for
\* the two cases that Misjudged names: a sequence not taken for SERIAL and
\* spelled without quotes, and another one that the column owns.
THEOREM AutogenerateIsRight == Spec => []DiffIsTruth
BY InvariantHolds, DiffFollows, PTL

-----------------------------------------------------------------------------
(* What SQLAlchemy reads in the emitted classes.                             *)

\* The columns of a key are those of the scalars whose names are in the key.
LEMMA KeyColumns ==
  ASSUME NEW data, WellFormed(data), NEW m \in Elements(data.order)
  PROVE  LET spec == ModelMetadata(data, m)
         IN Elements(spec.key.columns)
              = {ColumnName(data.fields[m][i]) :
                   i \in {j \in DOMAIN spec.order : data.fields[m][j].name \in Elements(spec.key.fields)}}
<1>. DEFINE spec == ModelMetadata(data, m)
            keyed == {j \in DOMAIN spec.order : data.fields[m][j].name \in Elements(spec.key.fields)}
<1>1. spec.key.fields = PrimaryKeyFields(data, m)
  BY DEF ModelMetadata
<1>2. spec.key.columns = [k \in DOMAIN spec.key.fields |->
                           ColumnName(ResolveField(data, m, spec.key.fields[k]))]
  BY <1>1 DEF ModelMetadata, Columns
<1>3. \A k \in DOMAIN spec.key.fields : \E i \in DOMAIN spec.order : data.fields[m][i].name = spec.key.fields[k]
  <2>1. Elements(spec.key.fields) \subseteq ScalarNames(data, m)
    BY <1>1 DEF WellFormed, KeysAreScalars
  <2>2. DOMAIN spec.order = {i \in DOMAIN data.fields[m] : ~IsRelational(data.fields[m][i])}
    BY ScalarsAreDescribed
  <2>. QED
    BY <2>1, <2>2 DEF Elements, ScalarNames
<1>4. \A i \in DOMAIN spec.order : ResolveField(data, m, data.fields[m][i].name) = data.fields[m][i]
  BY ScalarsAreDescribed, FieldsResolve DEF Elements
<1>5. \A k \in DOMAIN spec.key.fields : \E i \in keyed : spec.key.columns[k] = ColumnName(data.fields[m][i])
  BY <1>2, <1>3, <1>4 DEF Elements
<1>6. \A i \in keyed : \E k \in DOMAIN spec.key.fields : spec.key.columns[k] = ColumnName(data.fields[m][i])
  BY <1>2, <1>4 DEF Elements
<1>7. DOMAIN spec.key.columns = DOMAIN spec.key.fields
  BY <1>2
<1>. QED
  BY <1>5, <1>6, <1>7 DEF Elements

\* What the text says of a column gives that column back, when a key of that
\* column alone is flagged as one.
LEMMA ColumnIsReadBack ==
  ASSUME NEW field, NEW flag \in BOOLEAN, NEW key,
         LET c == BuildColumn(field, flag) IN key = <<c.name>> => c.primaryKey
  PROVE  ReadColumn(ColumnArgs(BuildColumn(field, flag)), key) = BuildColumn(field, flag)
<1>. DEFINE c == BuildColumn(field, flag)
            text == ColumnArgs(c)
<1>1. c.autoincrement \in BOOLEAN /\ c.primaryKey \in BOOLEAN
  BY DEF BuildColumn, IsAutoincrement
<1>2. c = [name |-> c.name, type |-> c.type, primaryKey |-> c.primaryKey, nullable |-> c.nullable,
           autoincrement |-> c.autoincrement, sequence |-> c.sequence, bigSequence |-> c.bigSequence,
           default |-> c.default]
  BY DEF BuildColumn
<1>3. key = <<c.name>> => c.primaryKey
  OBVIOUS
<1>. HIDE DEF c
<1>4. /\ text.name = c.name /\ text.type = c.type /\ text.primaryKey = c.primaryKey
      /\ text.nullable = c.nullable /\ text.sequence = c.sequence
      /\ text.bigSequence = c.bigSequence /\ text.default = c.default
      /\ text.autoincrement = IF c.autoincrement \/ (c.primaryKey /\ IntegerType(c.type))
                              THEN IF c.autoincrement THEN "True" ELSE "False" ELSE "auto"
  BY DEF ColumnArgs
<1>. HIDE DEF text
<1>. DEFINE read == \/ text.autoincrement = "True"
                    \/ (text.autoincrement = "auto" /\ key = <<text.name>> /\ IntegerType(text.type))
<1>5. read <=> c.autoincrement
  <2>1. CASE c.autoincrement
    <3>1. c.autoincrement = TRUE
      BY <1>1, <2>1
    <3>2. text.autoincrement = "True"
      BY <1>4, <3>1
    <3>. QED
      BY <3>1, <3>2
  <2>2. CASE ~c.autoincrement /\ c.primaryKey /\ IntegerType(c.type)
    BY <1>4, <2>2
  <2>3. CASE ~c.autoincrement /\ ~(c.primaryKey /\ IntegerType(c.type))
    <3>1. text.autoincrement = "auto"
      BY <1>4, <2>3
    <3>2. ~(key = <<text.name>> /\ IntegerType(text.type))
      BY <1>3, <1>4, <2>3
    <3>. QED
      BY <2>3, <3>1, <3>2
  <2>. QED
    BY <2>1, <2>2, <2>3
<1>6. read = c.autoincrement
  BY <1>1, <1>5
<1>7. ReadColumn(text, key) =
        [name |-> c.name, type |-> c.type, primaryKey |-> c.primaryKey, nullable |-> c.nullable,
         sequence |-> c.sequence, bigSequence |-> c.bigSequence, default |-> c.default,
         autoincrement |-> c.autoincrement]
  BY <1>4, <1>6 DEF ReadColumn
<1>. QED
  BY <1>2, <1>7 DEF c, text

\* So with the table of a model that has a key, whatever its foreign keys.
LEMMA ClassIsReadBack ==
  ASSUME NEW data, WellFormed(data), NEW m \in Elements(data.order),
         ModelMetadata(data, m).key.columns # <<>>, NEW keys,
         NEW table, table = [BuildTable(ModelMetadata(data, m)) EXCEPT !.keys = keys]
  PROVE  ReadTable(RenderModel(ModelMetadata(data, m), table)) = table
<1>. DEFINE spec   == ModelMetadata(data, m)
            text   == RenderModel(spec, table)
            places == DOMAIN spec.order
            Name(i)    == data.fields[m][i].name
            Column(i)  == ColumnName(data.fields[m][i])
            Described(i) == FieldMetadata(data, m, data.fields[m][i])
            Flag(i)    == Name(i) \in Elements(spec.key.fields)
<1>1. \A i \in places : /\ spec.order[i] = Name(i) /\ spec.fields[spec.order[i]] = Described(i)
                        /\ spec.fields[spec.order[i]].column = Column(i)
  BY ScalarsAreDescribed
<1>2. \A i, j \in places : Column(i) = Column(j) => i = j
  BY ColumnsAreUnique
<1>3. Elements(spec.key.columns) = {Column(i) : i \in {j \in places : Flag(j)}}
  BY KeyColumns
<1>4. table = [columns |-> [i \in places |-> BuildColumn(Described(i), Flag(i))],
               key     |-> spec.key.columns, keyName |-> PrimaryKeyName(spec), keys |-> keys,
               indexes |-> {BuildIndex(i) : i \in spec.indexes}, owned |-> Sequences(spec)]
  <2>1. [i \in places |-> BuildColumn(spec.fields[spec.order[i]], spec.order[i] \in Elements(spec.key.fields))]
          = [i \in places |-> BuildColumn(Described(i), Flag(i))]
    BY <1>1
  <2>2. table = [BuildTable(spec) EXCEPT !.keys = keys]
    OBVIOUS
  <2>3. BuildTable(spec) =
          [columns |-> [i \in places |-> BuildColumn(spec.fields[spec.order[i]],
                                                     spec.order[i] \in Elements(spec.key.fields))],
           key     |-> spec.key.columns, keyName |-> PrimaryKeyName(spec), keys |-> {},
           indexes |-> {BuildIndex(i) : i \in spec.indexes}, owned |-> Sequences(spec)]
    BY DEF BuildTable
  <2>. HIDE DEF spec, Described, Flag
  <2>. DEFINE columns == [i \in places |-> BuildColumn(Described(i), Flag(i))]
              indexes == {BuildIndex(i) : i \in spec.indexes}
  <2>4. BuildTable(spec) = [columns |-> columns, key |-> spec.key.columns, keyName |-> PrimaryKeyName(spec),
                            keys |-> {}, indexes |-> indexes, owned |-> Sequences(spec)]
    BY <2>1, <2>3
  <2>. HIDE DEF columns, indexes
  <2>5. table = [columns |-> columns, key |-> spec.key.columns, keyName |-> PrimaryKeyName(spec),
                 keys |-> keys, indexes |-> indexes, owned |-> Sequences(spec)]
    <3>. HIDE DEF text, places
    <3>1. table = [[columns |-> columns, key |-> spec.key.columns, keyName |-> PrimaryKeyName(spec),
                    keys |-> {}, indexes |-> indexes, owned |-> Sequences(spec)] EXCEPT !.keys = keys]
      BY <2>4, <2>2
    <3>. QED
      BY <3>1
  <2>. QED
    BY <2>5 DEF columns, indexes
<1>5. \A i \in places : BuildColumn(Described(i), Flag(i)).name = Column(i)
                     /\ BuildColumn(Described(i), Flag(i)).primaryKey = Flag(i)
  BY DEF BuildColumn, FieldMetadata
<1>. HIDE DEF spec, Described, Flag, Column, Name
<1>6. DOMAIN table.columns = places /\ \A i \in places : table.columns[i] = BuildColumn(Described(i), Flag(i))
  BY <1>4
<1>7. \A i \in places : (CHOOSE j \in DOMAIN table.columns :
                           table.columns[j].name = spec.fields[spec.order[i]].column) = i
  BY <1>1, <1>2, <1>5, <1>6
<1>8. text.columns = [i \in places |-> ColumnArgs(table.columns[i])]
  <2>1. text.columns = [i \in places |-> ColumnArgs(table.columns[CHOOSE j \in DOMAIN table.columns :
                          table.columns[j].name = spec.fields[spec.order[i]].column])]
    BY DEF RenderModel
  <2>. QED
    BY <1>7, <2>1
<1>9. /\ text.constraints = [key |-> IF table.keyName # <<>> THEN table.key ELSE <<>>,
                             keyName |-> table.keyName, keys |-> table.keys]
      /\ text.indexes = table.indexes /\ text.owned = table.owned
  BY <1>4 DEF RenderModel, ExplicitConstraints, SequenceOwnership
<1>. HIDE DEF text
<1>10. \A i \in places : text.columns[i].name = Column(i) /\ text.columns[i].primaryKey = Flag(i)
  BY <1>5, <1>6, <1>8 DEF ColumnArgs
<1>. DEFINE names   == [i \in DOMAIN text.columns |-> text.columns[i].name]
            flags   == {c.name : c \in {b \in Elements(text.columns) : b.primaryKey}}
            flagged == Keep(names, flags)
            key     == IF text.constraints.key # <<>> THEN text.constraints.key ELSE flagged
<1>11. names = [i \in places |-> Column(i)]
  BY <1>8, <1>10
<1>12. flags = Elements(spec.key.columns)
  <2>1. DOMAIN text.columns = places
    BY <1>8
  <2>2. flags = {text.columns[i].name : i \in {j \in places : text.columns[j].primaryKey}}
    BY <2>1 DEF Elements
  <2>3. flags = {Column(i) : i \in {j \in places : Flag(j)}}
    BY <1>10, <2>2
  <2>. QED
    BY <1>3, <2>3
<1>13. names = [i \in DOMAIN spec.order |-> spec.fields[spec.order[i]].column]
  BY <1>1, <1>11
<1>14. key = table.key
  <2>1. CASE table.keyName # <<>>
    <3>1. table.key # <<>>
      BY <1>4 DEF spec
    <3>. QED
      BY <1>9, <2>1, <3>1
  <2>2. CASE table.keyName = <<>>
    <3>1. PrimaryKeyName(spec) = <<>>
      BY <1>4, <2>2
    <3>2. spec.key.columns = Keep(names, flags)
      BY <1>12, <1>13, <3>1 DEF PrimaryKeyName
    <3>3. text.constraints.key = <<>>
      BY <1>9, <2>2
    <3>. QED
      BY <1>4, <3>2, <3>3
  <2>. QED
    BY <2>1, <2>2
<1>. HIDE DEF key
<1>15. ASSUME NEW i \in places
       PROVE  ReadColumn(text.columns[i], key) = table.columns[i]
  <2>1. key = <<Column(i)>> => Flag(i)
    <3>. SUFFICES ASSUME key = <<Column(i)>> PROVE Flag(i)
      OBVIOUS
    <3>1. spec.key.columns = <<Column(i)>>
      BY <1>4, <1>14
    <3>2. Column(i) \in Elements(spec.key.columns)
      BY <3>1 DEF Elements
    <3>. QED
      BY <1>2, <1>3, <3>2
  <2>2. Flag(i) \in BOOLEAN
    BY DEF Flag
  <2>3. ReadColumn(ColumnArgs(BuildColumn(Described(i), Flag(i))), key) = BuildColumn(Described(i), Flag(i))
    BY <1>5, <2>1, <2>2, ColumnIsReadBack
  <2>. QED
    BY <1>6, <1>8, <2>3
<1>16. ReadTable(text) = [columns |-> [i \in DOMAIN text.columns |-> ReadColumn(text.columns[i], key)],
                          key |-> key, keyName |-> text.constraints.keyName, keys |-> text.constraints.keys,
                          indexes |-> text.indexes, owned |-> text.owned]
  BY DEF ReadTable, key
<1>17. [i \in DOMAIN text.columns |-> ReadColumn(text.columns[i], key)] = table.columns
  <2>1. DOMAIN text.columns = places
    BY <1>8
  <2>2. table.columns = [i \in places |-> table.columns[i]]
    BY <1>4
  <2>. QED
    BY <1>15, <2>1, <2>2
<1>18. table = [columns |-> table.columns, key |-> table.key, keyName |-> table.keyName, keys |-> table.keys,
                indexes |-> table.indexes, owned |-> table.owned]
  BY <1>4
<1>19. ReadTable(text) = table
  BY <1>9, <1>14, <1>16, <1>17, <1>18
<1>. QED
  BY <1>19 DEF text, spec

\* Every class that is emitted comes from a table of a model that has a key.
LEMMA ClassesFollow == IInv => ClassesDescribeTheirTables
<1>. SUFFICES ASSUME IInv, Rendered, NEW t \in DOMAIN emitted.classes
              PROVE  ReadTable(emitted.classes[t]) = tables[t]
  BY DEF ClassesDescribeTheirTables
<1>. DEFINE mappable == PlanModels(schema, d.enums)
<1>1. phase \in WithKeys /\ phase # "describe"
  BY DEF Rendered, WithKeys, Phases, Passes
<1>2. emitted.classes = RenderClasses(tables, schema, mappable)
  BY DEF IInv, EmittedInv
<1>3. /\ DOMAIN schema = Models
      /\ \A m \in Models : schema[m] = ModelMetadata(d, m) /\ schema[m].table = <<m>> /\ Bare(m) = BuildTable(schema[m])
  BY <1>1, AllDescribed DEF IInv
<1>4. mappable \subseteq Models
  BY <1>3 DEF PlanModels
<1>5. \A m \in mappable : schema[m].key.columns # <<>>
  BY DEF PlanModels, ModelRefused
<1>. HIDE DEF mappable
<1>6. PICK m \in mappable : t = <<m>>
  <2>1. t \in {schema[m].table : m \in mappable}
    BY <1>2 DEF RenderClasses
  <2>. QED
    BY <1>3, <1>4, <2>1
<1>7. (CHOOSE n \in mappable : schema[n].table = t) = m
  BY <1>3, <1>4, <1>6
<1>8. emitted.classes[t] = RenderModel(schema[m], tables[t])
  BY <1>2, <1>7 DEF RenderClasses
<1>9. tables[t] = [BuildTable(schema[m]) EXCEPT !.keys = ForeignKeys(schema[m], schema)]
  BY <1>1, <1>3, <1>4, <1>6 DEF IInv, TablesInv, Keyed
<1>10. WellFormed(d) /\ m \in Elements(d.order)
  BY <1>4, DataIsWellFormed DEF IInv, Position, Models
<1>11. ModelMetadata(d, m).key.columns # <<>>
  BY <1>3, <1>4, <1>5
<1>12. tables[t] = [BuildTable(ModelMetadata(d, m)) EXCEPT !.keys = ForeignKeys(schema[m], schema)]
  BY <1>3, <1>4, <1>9
<1>13. ReadTable(RenderModel(ModelMetadata(d, m), tables[t])) = tables[t]
  BY <1>10, <1>11, <1>12, ClassIsReadBack
<1>. QED
  BY <1>3, <1>4, <1>8, <1>13

\* SQLAlchemy reads the emitted classes as the tables they were emitted from.
THEOREM ClassesAreRight == Spec => []ClassesDescribeTheirTables
BY InvariantHolds, ClassesFollow, PTL

-----------------------------------------------------------------------------
(* What an INSERT lacks.                                                     *)

\* A NOT NULL column that the client neither gets nor makes a value for has a
\* default of the database, or is SERIAL.
LEMMA DatabaseFillsIn ==
  ASSUME NEW data, WellFormed(data), NEW m \in Elements(data.order),
         NEW f \in Elements(data.fields[m]), ~IsRelational(f), f.isRequired, ~f.isList,
         ~RequiredOnCreate(f), ~(f.default.name = "dbgenerated" /\ f.default.args = <<>>),
         ClientSideValue(FieldMetadata(data, m, f)) \notin {"filled", "refused"}
  PROVE  LET c == BuildColumn(FieldMetadata(data, m, f), f.name \in Elements(PrimaryKeyFields(data, m)))
         IN c.default # NoDefault \/ (c.primaryKey /\ c.autoincrement /\ IntegerType(c.type))
<1>. DEFINE field == FieldMetadata(data, m, f)
            flag  == f.name \in Elements(PrimaryKeyFields(data, m))
            c     == BuildColumn(field, flag)
<1>. SUFFICES c.default # NoDefault \/ (c.primaryKey /\ c.autoincrement /\ IntegerType(c.type))
  OBVIOUS
<1>1. /\ field.default = f.default /\ field.isUpdatedAt = f.isUpdatedAt /\ field.kind = f.kind
      /\ field.isList = f.isList /\ field.type = f.type /\ field.native = ParseNativeType(f)
      /\ field.sequence = SequenceFor(data, m, f)
  BY DEF FieldMetadata
<1>2. /\ c.primaryKey = flag /\ c.autoincrement = IsAutoincrement(field.default)
      /\ c.type = ColumnType(field)
      /\ c.default = IF field.sequence # <<>> THEN <<"nextval", field.sequence>> ELSE ServerDefault(field)
  BY DEF BuildColumn
<1>. HIDE DEF field, c
<1>3. /\ f.default.kind \in {"none", "literal", "generator"}
      /\ IsAutoincrement(f.default) => /\ f.kind = "scalar" /\ ~f.isList /\ f.type \in {"Int", "BigInt"}
                                       /\ f.line.native \in {NoName, "SmallInt", "Integer", "BigInt"}
  BY DEF WellFormed, DefaultsFit
<1>4. ClientSideValue(field) \notin {"filled", "refused"}
  BY DEF field
<1>5. ~field.isUpdatedAt
  BY <1>4 DEF ClientSideValue
<1>6. CASE field.sequence # <<>>
  BY <1>2, <1>6 DEF NoDefault
<1>7. CASE field.sequence = <<>> /\ field.default.kind # "generator"
  <2>1. f.default.kind = "literal"
    BY <1>1, <1>3, <1>5, <1>7 DEF RequiredOnCreate
  <2>2. ServerDefault(field) = LiteralSql(field)
    BY <1>1, <2>1 DEF ServerDefault
  <2>3. LiteralSql(field) # <<>>
    BY DEF LiteralSql
  <2>. QED
    BY <1>2, <1>7, <2>2, <2>3 DEF NoDefault
<1>8. CASE field.sequence = <<>> /\ field.default.kind = "generator"
  <2>1. field.default.name \in {"autoincrement", "dbgenerated"}
    BY <1>4, <1>5, <1>8 DEF ClientSideValue
  <2>2. CASE field.default.name = "autoincrement"
    <3>1. IsAutoincrement(f.default)
      BY <1>1, <1>8, <2>2 DEF IsAutoincrement
    <3>2. <<m, ColumnName(f), "_seq">> # <<>>
      OBVIOUS
    <3>3. flag
      BY <1>1, <1>8, <3>1, <3>2 DEF SequenceFor
    <3>4. ParseNativeType(f) \in {NoName, "SmallInt", "Integer", "BigInt"}
      BY <1>3, <3>1 DEF ParseNativeType, StripComments
    <3>5. ColumnType(field) = ScalarType(field)
      BY <1>1, <1>3, <3>1 DEF ColumnType
    <3>6. IntegerType(ScalarType(field))
      BY <1>1, <1>3, <3>1, <3>4 DEF ScalarType, IntegerType, NativeType
    <3>. QED
      BY <1>1, <1>2, <3>1, <3>3, <3>5, <3>6
  <2>3. CASE field.default.name = "dbgenerated"
    <3>1. field.default.args # <<>>
      BY <1>1, <2>3
    <3>2. ServerDefault(field) = <<field.default.args[1]>>
      BY <1>8, <2>3, <3>1 DEF ServerDefault
    <3>. QED
      BY <1>2, <1>8, <3>2 DEF NoDefault
  <2>. QED
    BY <2>1, <2>2, <2>3
<1>. QED
  BY <1>6, <1>7, <1>8

\* A row of a model is complete: each column is given, filled in, or nullable.
LEMMA InsertsFollow == IInv => InsertsAreComplete
<1>. SUFFICES ASSUME IInv, Built, NEW m \in Models,
                     NEW given, given = {f.name : f \in {g \in Elements(d.fields[m]) :
                       RequiredOnCreate(g) \/ (g.default.name = "dbgenerated" /\ g.default.args = <<>>)}},
                     ~CreateRefused(schema[m], given),
                     NEW c \in Elements(tables[<<m>>].columns)
              PROVE  \/ c.nullable
                     \/ c.name \in ValuesForCreate(schema[m], given \cap DOMAIN schema[m].fields)
                     \/ c.default # NoDefault
                     \/ c.primaryKey /\ c.autoincrement /\ IntegerType(c.type)
  BY DEF InsertsAreComplete
<1>1. phase \in WithKeys /\ phase # "describe" /\ Position
  BY DEF Built, WithKeys, Phases, Passes, IInv
<1>2. WellFormed(d) /\ m \in Elements(d.order)
  BY <1>1, DataIsWellFormed DEF Position, Models
<1>3. schema[m] = ModelMetadata(d, m) /\ tables[<<m>>] = Keyed(m)
  BY <1>1, AllDescribed DEF IInv, TablesInv
<1>4. PICK i \in DOMAIN ModelMetadata(d, m).order :
        c = BuildColumn(FieldMetadata(d, m, d.fields[m][i]),
                        d.fields[m][i].name \in Elements(ModelMetadata(d, m).key.fields))
  BY <1>1, <1>3, ColumnsOfModels DEF Elements
<1>. DEFINE f == d.fields[m][i]
            field == FieldMetadata(d, m, f)
<1>5. /\ f \in Elements(d.fields[m]) /\ ~IsRelational(f)
      /\ f.name \in DOMAIN schema[m].fields /\ schema[m].fields[f.name] = field
  BY <1>2, <1>3, ScalarsAreDescribed DEF Elements
<1>6. /\ c.name = field.column /\ c.nullable = (field.nullable \/ field.isList)
      /\ field.nullable = ~f.isRequired /\ field.isList = f.isList
  BY <1>4 DEF BuildColumn, FieldMetadata
<1>7. c = BuildColumn(field, f.name \in Elements(PrimaryKeyFields(d, m)))
  BY <1>4 DEF ModelMetadata
<1>. HIDE DEF field, f
<1>8. CASE f.name \in given \/ ClientSideValue(field) = "filled"
  BY <1>5, <1>6, <1>8 DEF ValuesForCreate
<1>9. CASE f.name \notin given /\ ClientSideValue(field) # "filled"
  <2>1. ClientSideValue(field) # "refused"
    BY <1>5, <1>9 DEF CreateRefused
  <2>2. ~RequiredOnCreate(f) /\ ~(f.default.name = "dbgenerated" /\ f.default.args = <<>>)
    BY <1>5, <1>9
  <2>3. CASE f.isRequired /\ ~f.isList
    BY <1>2, <1>5, <1>7, <1>9, <2>1, <2>2, <2>3, DatabaseFillsIn DEF field
  <2>4. CASE ~(f.isRequired /\ ~f.isList)
    BY <1>6, <2>4
  <2>. QED
    BY <2>3, <2>4
<1>. QED
  BY <1>8, <1>9

\* A row that values_for_create() completes can be inserted.
THEOREM RowsCanBeInserted == Spec => []InsertsAreComplete
BY InvariantHolds, InsertsFollow, PTL

-----------------------------------------------------------------------------
(* The foreign keys of the tables.                                           *)

\* A set listed by an injective function has as many elements as its domain.
LEMMA ListedOnce ==
  ASSUME NEW S, IsFiniteSet(S), NEW T, NEW g \in [S -> T],
         \A x, y \in S : g[x] = g[y] => x = y,
         \A z \in T : \E x \in S : g[x] = z
  PROVE  Cardinality(T) = Cardinality(S)
<1>1. g \in Bijection(S, T)
  BY DEF Bijection, Injection, Surjection, IsInjective
<1>2. ExistsBijection(S, T)
  BY <1>1 DEF ExistsBijection
<1>. QED
  BY <1>2, FS_Bijection

\* The fields of a model are finitely many.
LEMMA FieldsAreFinite ==
  ASSUME NEW data, WellFormed(data), NEW m \in Elements(data.order)
  PROVE  IsFiniteSet(Elements(data.fields[m]))
<1>1. data.fields[m] \in Seq(Elements(data.fields[m]))
  BY DEF WellFormed
<1>2. /\ Len(data.fields[m]) \in Nat /\ DOMAIN data.fields[m] = 1 .. Len(data.fields[m])
      /\ data.fields[m] \in [1 .. Len(data.fields[m]) -> Elements(data.fields[m])]
  BY <1>1, LenProperties
<1>3. data.fields[m] \in Surjection(1 .. Len(data.fields[m]), Elements(data.fields[m]))
  BY <1>2 DEF Surjection, Elements
<1>4. \A n \in Nat : IsFiniteSet(1 .. n)
  BY FS_Interval
<1>5. IsFiniteSet(1 .. Len(data.fields[m]))
  BY <1>2, <1>4
<1>. QED
  BY <1>3, <1>5, FS_Surjection

\* The description of an owning field is that of its foreign key.
LEMMA OwnersDescribeTheirKey ==
  ASSUME NEW data, NEW m, m # NoModel, NEW f, f.from # <<>>
  PROVE  LET relation == RelationMetadata(data, m, f)
         IN /\ relation.owner /\ relation.to = f.type /\ relation.mode = data.mode
            /\ relation.fkModel = m /\ relation.fk = ForeignKey(data, m, f)
            /\ relation.fkName = ForeignKeyName(data, m, f)
<1>1. KeyHolder(data, m, f) = m
  BY DEF KeyHolder
<1>. QED
  BY <1>1 DEF RelationMetadata

\* The constraint that an owning field of model m declares.
Constraint(m, f) == ForeignKeyConstraint(RelationMetadata(d, m, f), schema)

\* The constraints of a table come from the fields that hold their key, and
\* two such fields declare two constraints.
LEMMA ConstraintsAreDeclared ==
  ASSUME Position, SchemaInv, phase # "describe", NEW m \in Models, NEW f \in Owning(m)
  PROVE  /\ [columns |-> Constraint(m, f).columns, target |-> Constraint(m, f).target,
             refColumns |-> Constraint(m, f).refColumns] = Declared(m, f)
         /\ Constraint(m, f).name = ForeignKeyName(d, m, f)
<1>. DEFINE relation == RelationMetadata(d, m, f)
<1>1. m # NoModel /\ f.from # <<>> /\ f \in Elements(d.fields[m])
  BY OrderIsInjective DEF Position, Owning
<1>2. /\ relation.to = f.type /\ relation.fk = ForeignKey(d, m, f)
      /\ relation.fkName = ForeignKeyName(d, m, f)
  BY <1>1, OwnersDescribeTheirKey
<1>3. WellFormed(d) /\ m \in Elements(d.order)
  BY DataIsWellFormed DEF Position, Models
<1>4. IsRelational(f)
  BY <1>1, <1>3 DEF WellFormed, KeysAreScalars
<1>5. f.type \in Models
  BY <1>1, <1>3, <1>4 DEF WellFormed, RelationsHaveTwoSides, Models
<1>6. schema[f.type].table = <<f.type>>
  BY <1>5, AllDescribed
<1>7. relation.fk.columns = Columns(d, m, f.from) /\ relation.fk.refColumns = Columns(d, f.type, f.to)
  BY <1>2 DEF ForeignKey
<1>. HIDE DEF relation
<1>8. /\ Constraint(m, f).columns = relation.fk.columns /\ Constraint(m, f).refColumns = relation.fk.refColumns
      /\ Constraint(m, f).target = schema[relation.to].table /\ Constraint(m, f).name = relation.fkName
  BY DEF Constraint, ForeignKeyConstraint, relation
<1>. QED
  BY <1>2, <1>6, <1>7, <1>8 DEF Declared

\* Once the second pass has visited a model, its table has its foreign keys.
LEMMA ForeignKeysFollow == IInv => ForeignKeysAreTheRelations
<1>. SUFFICES ASSUME IInv, Built, NEW m \in Models,
                     NEW keys, keys = tables[<<m>>].keys,
                     NEW declared, declared = IF d.mode = "prisma" THEN {} ELSE Owning(m)
              PROVE  /\ {[columns |-> k.columns, target |-> k.target, refColumns |-> k.refColumns] : k \in keys}
                          = {Declared(m, f) : f \in declared}
                     /\ Cardinality(keys) = Cardinality({<<f.from, f.to, f.type, f.name>> : f \in declared})
  BY DEF ForeignKeysAreTheRelations
<1>1. phase \in WithKeys \ {"joins"} /\ phase \notin {"describe", "keys"} /\ Position /\ SchemaInv
  BY DEF Built, WithKeys, Phases, Passes, IInv
<1>2. WellFormed(d) /\ m \in Elements(d.order) /\ m # NoModel
  BY <1>1, DataIsWellFormed, OrderIsInjective DEF Position, Models
<1>3. /\ schema[m] = ModelMetadata(d, m) /\ keys = ForeignKeys(schema[m], schema)
  BY <1>1, AllDescribed DEF IInv, TablesInv, Keyed, Bare, BuildTable
<1>. DEFINE relations == schema[m].relations
            fields    == {f \in Elements(d.fields[m]) : IsRelational(f)}
<1>4. /\ DOMAIN relations = {f.name : f \in fields}
      /\ \A f \in fields : relations[f.name] = RelationMetadata(d, m, f)
  BY <1>2, <1>3, RelationsAreDescribed
<1>5. Owning(m) \subseteq fields
  BY <1>2 DEF Owning, WellFormed, KeysAreScalars
<1>6. \A f \in fields : /\ RelationMetadata(d, m, f).owner = (f \in Owning(m))
                        /\ RelationMetadata(d, m, f).mode = d.mode
  BY DEF RelationMetadata, Owning
<1>7. ~UnknownMode(m)
  BY <1>1 DEF IInv, ModeInv, DoneBy
<1>8. d.mode \notin RelationModes => Owning(m) = {}
  BY <1>4, <1>5, <1>6, <1>7 DEF UnknownMode
<1>9. keys = {Constraint(m, f) : f \in declared}
  <2>1. keys = {ForeignKeyConstraint(relations[r], schema) :
                  r \in {s \in DOMAIN relations : relations[s].owner /\ EmitsForeignKeys(relations[s])}}
    BY <1>3 DEF ForeignKeys
  <2>2. \A f \in fields : EmitsForeignKeys(RelationMetadata(d, m, f)) <=> d.mode \in {NoName, "foreignKeys"}
    BY <1>6 DEF EmitsForeignKeys
  <2>3. CASE d.mode \in {NoName, "foreignKeys"}
    <3>1. declared = Owning(m)
      BY <2>3 DEF NoName
    <3>2. ASSUME NEW k \in keys
          PROVE  \E f \in declared : k = Constraint(m, f)
      <4>1. PICK r \in DOMAIN relations : relations[r].owner /\ k = ForeignKeyConstraint(relations[r], schema)
        BY <2>1
      <4>2. PICK f \in fields : r = f.name
        BY <1>4, <4>1
      <4>3. relations[r] = RelationMetadata(d, m, f)
        BY <1>4, <4>2
      <4>4. f \in declared /\ k = Constraint(m, f)
        BY <1>6, <3>1, <4>1, <4>3 DEF Constraint
      <4>. QED
        BY <4>4
    <3>3. ASSUME NEW f \in declared
          PROVE  Constraint(m, f) \in keys
      <4>1. f \in fields /\ f \in Owning(m)
        BY <1>5, <3>1
      <4>2. f.name \in DOMAIN relations /\ relations[f.name] = RelationMetadata(d, m, f)
        BY <1>4, <4>1
      <4>3. relations[f.name].owner /\ EmitsForeignKeys(relations[f.name])
        BY <1>6, <2>2, <2>3, <4>1, <4>2
      <4>. QED
        BY <2>1, <4>2, <4>3 DEF Constraint
    <3>. QED
      BY <3>2, <3>3
  <2>4. CASE d.mode \notin {NoName, "foreignKeys"}
    <3>1. declared = {}
      BY <1>8, <2>4 DEF RelationModes
    <3>2. keys = {}
      BY <1>4, <2>1, <2>2, <2>4
    <3>. QED
      BY <3>1, <3>2
  <2>. QED
    BY <2>3, <2>4
<1>10. declared \subseteq Owning(m)
  OBVIOUS
<1>11. {[columns |-> k.columns, target |-> k.target, refColumns |-> k.refColumns] : k \in keys}
         = {Declared(m, f) : f \in declared}
  <2>1. \A f \in declared :
          [columns |-> Constraint(m, f).columns, target |-> Constraint(m, f).target,
           refColumns |-> Constraint(m, f).refColumns] = Declared(m, f)
    BY <1>1, <1>10, ConstraintsAreDeclared
  <2>. QED
    BY <1>9, <2>1
<1>12. Cardinality(keys) = Cardinality({<<f.from, f.to, f.type, f.name>> : f \in declared})
  <2>. DEFINE once == {<<f.from, f.to, f.type, f.name>> : f \in declared}
  <2>1. IsFiniteSet(declared)
    BY <1>2, <1>10, FieldsAreFinite, FS_Subset DEF Owning
  <2>2. \A f, g \in declared : f.name = g.name => f = g
    BY <1>2, <1>10, FieldsResolve DEF Owning
  <2>3. \A f, g \in declared : Constraint(m, f) = Constraint(m, g) => f = g
    <3>1. \A f, g \in declared : ForeignKeyName(d, m, f) = ForeignKeyName(d, m, g) => f = g
      BY <1>2, <1>10 DEF Owning, WellFormed, ConstraintNamesAreUnique
    <3>. QED
      BY <1>1, <1>10, <3>1, ConstraintsAreDeclared
  <2>4. Cardinality(keys) = Cardinality(declared)
    <3>. DEFINE g == [f \in declared |-> Constraint(m, f)]
    <3>1. g \in [declared -> keys] /\ \A z \in keys : \E x \in declared : g[x] = z
      BY <1>9
    <3>2. \A x, y \in declared : g[x] = g[y] => x = y
      BY <2>3
    <3>. HIDE DEF g
    <3>. QED
      BY <2>1, <3>1, <3>2, ListedOnce
  <2>5. Cardinality(once) = Cardinality(declared)
    <3>. DEFINE g == [f \in declared |-> <<f.from, f.to, f.type, f.name>>]
    <3>1. g \in [declared -> once] /\ \A z \in once : \E x \in declared : g[x] = z
      OBVIOUS
    <3>2. \A x, y \in declared : g[x] = g[y] => x = y
      BY <2>2
    <3>. HIDE DEF g, once
    <3>. QED
      BY <2>1, <3>1, <3>2, ListedOnce
  <2>. QED
    BY <2>4, <2>5
<1>. QED
  BY <1>11, <1>12

\* The tables carry the foreign keys that the relations declare, each once.
THEOREM ForeignKeysAreRight == Spec => []ForeignKeysAreTheRelations
BY InvariantHolds, ForeignKeysFollow, PTL

-----------------------------------------------------------------------------
(* The two sides of a relation.                                              *)

\* Each side finds the other one; they are fields of each other's model, and
\* one of them holds the foreign key unless both are lists.
LEMMA SidesFindEachOther ==
  ASSUME NEW data, WellFormed(data), NEW m \in Elements(data.order),
         NEW f \in Elements(data.fields[m]), IsRelational(f)
  PROVE  /\ f.type \in Elements(data.order)
         /\ \E g \in Elements(data.fields[f.type]) :
              /\ IsRelational(g) /\ g.relation = f.relation /\ g.type = m
              /\ RelatedField(data, m, f) = <<g>> /\ RelatedField(data, f.type, g) = <<f>>
              /\ f.from = <<>> \/ g.from = <<>>
              /\ f.from = <<>> /\ g.from = <<>> <=> f.isList /\ g.isList
<1>1. \A n \in Elements(data.order) : RelationsHaveTwoSides(data, n) /\ data.fields[n] \in Seq(Elements(data.fields[n]))
  BY DEF WellFormed
<1>2. f.type \in Elements(data.order)
  BY <1>1 DEF RelationsHaveTwoSides
<1>3. \A n \in Elements(data.order) : DOMAIN data.fields[n] \subseteq Nat
  <2>. TAKE n \in Elements(data.order)
  <2>1. DOMAIN data.fields[n] = 1 .. Len(data.fields[n]) /\ Len(data.fields[n]) \in Nat
    BY <1>1, LenProperties
  <2>. QED
    BY <2>1
<1>4. \A n \in Elements(data.order) : \A i \in DOMAIN data.fields[n] :
        FieldAtFirst(data, n, {i}) = data.fields[n][i]
  BY <1>3 DEF FieldAtFirst
<1>5. PICK i \in DOMAIN data.fields[f.type] :
        /\ Candidates(data, m, f) = {i}
        /\ data.fields[f.type][i].type = m
        /\ f.from = <<>> \/ data.fields[f.type][i].from = <<>>
        /\ f.from = <<>> /\ data.fields[f.type][i].from = <<>> <=> f.isList /\ data.fields[f.type][i].isList
  BY <1>1 DEF RelationsHaveTwoSides
<1>6. PICK g \in Elements(data.fields[f.type]) : g = data.fields[f.type][i]
  BY DEF Elements
<1>7. /\ g.relation = f.relation /\ <<f.type, g.name>> # <<m, f.name>>
      /\ RelatedField(data, m, f) = <<g>>
  BY <1>2, <1>4, <1>5, <1>6 DEF RelatedField, Candidates
<1>8. IsRelational(g) /\ g.type = m
  BY <1>5, <1>6, <1>7 DEF IsRelational
<1>9. PICK j \in DOMAIN data.fields[m] : Candidates(data, f.type, g) = {j}
  BY <1>1, <1>2, <1>8 DEF RelationsHaveTwoSides
<1>10. PICK k \in DOMAIN data.fields[m] : data.fields[m][k] = f
  BY DEF Elements
<1>11. k \in Candidates(data, f.type, g)
  BY <1>7, <1>8, <1>10 DEF Candidates
<1>12. RelatedField(data, f.type, g) = <<f>>
  BY <1>4, <1>8, <1>9, <1>10, <1>11 DEF RelatedField
<1>. QED
  BY <1>2, <1>5, <1>6, <1>7, <1>8, <1>12

\* What the description of a relation takes from the two fields.
LEMMA SideIsDescribed ==
  ASSUME NEW data, NEW m, NEW f, NEW g, RelatedField(data, m, f) = <<g>>
  PROVE  LET here   == RelationMetadata(data, m, f)
             holder == IF f.from # <<>> THEN m ELSE IF g.from # <<>> THEN f.type ELSE NoModel
         IN /\ here.to = f.type /\ here.back = g.name /\ here.owner = (f.from # <<>>)
            /\ here.fkModel = holder
            /\ here.fk = IF holder = NoModel THEN NoForeignKey
                         ELSE ForeignKey(data, holder, IF f.from # <<>> THEN f ELSE g)
            /\ here.shape = "many-to-many" <=> f.isList /\ g.isList
            /\ here.join = IF here.shape = "many-to-many" THEN ImplicitJoin(m, f) ELSE NoJoin
<1>. DEFINE here   == RelationMetadata(data, m, f)
            holder == IF f.from # <<>> THEN m ELSE IF g.from # <<>> THEN f.type ELSE NoModel
<1>1. Head(<<g>>) = g /\ <<g>> # <<>>
  OBVIOUS
<1>2. KeyHolder(data, m, f) = holder
  BY <1>1 DEF KeyHolder
<1>3. Shape(data, m, f) = "many-to-many" <=> f.isList /\ g.isList
  BY <1>1 DEF Shape
<1>4. /\ here.to = f.type /\ here.back = g.name /\ here.owner = (f.from # <<>>)
      /\ here.fkModel = KeyHolder(data, m, f) /\ here.shape = Shape(data, m, f)
  BY <1>1 DEF RelationMetadata
<1>5. here.fk = IF holder = NoModel THEN NoForeignKey
                ELSE ForeignKey(data, holder, IF f.from # <<>> THEN f ELSE g)
  BY <1>1, <1>2 DEF RelationMetadata
<1>6. here.join = IF here.shape = "many-to-many" THEN ImplicitJoin(m, f) ELSE NoJoin
  BY DEF RelationMetadata
<1>. QED
  BY <1>2, <1>3, <1>4, <1>5, <1>6

\* Each side finds itself in the column where the other one finds its models.
LEMMA JoinsAreCrossed ==
  ASSUME NEW m \in Nat, NEW f, NEW g, f.type \in Nat, g.type = m, g.relation = f.relation,
         NEW x, x = ImplicitJoin(m, f), NEW y, y = ImplicitJoin(f.type, g)
  PROVE  y = Crossed(x) /\ x.table = y.table /\ x.ambiguous = y.ambiguous
<1>. DEFINE t == <<"_", f.relation>>
            Join(a, p, q) == [table |-> t, ambiguous |-> a, self |-> p, other |-> q]
<1>1. CASE m = f.type
  <2>1. x = Join(TRUE, NoName, NoName) /\ y = Join(TRUE, NoName, NoName)
    BY <1>1 DEF ImplicitJoin
  <2>. HIDE DEF t
  <2>. QED
    BY ONLY <2>1 DEF Crossed
<1>2. CASE m < f.type
  <2>1. ~(f.type < m) /\ m # f.type
    BY <1>2
  <2>2. x = Join(FALSE, "A", "B") /\ y = Join(FALSE, "B", "A")
    BY <1>2, <2>1 DEF ImplicitJoin
  <2>. HIDE DEF t
  <2>. QED
    BY ONLY <2>2 DEF Crossed
<1>3. CASE f.type < m
  <2>1. ~(m < f.type) /\ m # f.type
    BY <1>3
  <2>2. x = Join(FALSE, "B", "A") /\ y = Join(FALSE, "A", "B")
    BY <1>3, <2>1 DEF ImplicitJoin
  <2>. HIDE DEF t
  <2>. QED
    BY ONLY <2>2 DEF Crossed
<1>. QED
  BY <1>1, <1>2, <1>3

\* So the two descriptions agree: one key, one join table, crossed columns.
Agree(m, r, here, there) ==
  /\ there.to = m /\ there.back = r
  /\ here.fkModel = there.fkModel /\ here.fk = there.fk
  /\ here.shape = "many-to-many" <=> there.shape = "many-to-many"
  /\ here.join.table = there.join.table /\ here.join.ambiguous = there.join.ambiguous
  /\ here.shape = "many-to-many" \/ here.owner = ~there.owner
  /\ here.shape = "many-to-many" => there.join = Crossed(here.join)

Side(m, r) == schema[m].relations[r]

\* The descriptions of the two sides of a relation agree on the key, on who
\* holds it, and on the join table, whose columns they name crosswise.
LEMMA SidesDescribeOneRelation ==
  ASSUME Position, SchemaInv, phase # "describe", NEW m \in Models, NEW r \in DOMAIN schema[m].relations
  PROVE  /\ Side(m, r).to \in Models
         /\ Side(m, r).back \in DOMAIN schema[Side(m, r).to].relations
         /\ Agree(m, r, Side(m, r), Side(Side(m, r).to, Side(m, r).back))
<1>. SUFFICES ASSUME NEW here, here = schema[m].relations[r],
                     NEW there, there = schema[here.to].relations[here.back]
              PROVE  /\ here.to \in Models /\ here.back \in DOMAIN schema[here.to].relations
                     /\ Agree(m, r, here, there)
  BY DEF Side
<1>1. WellFormed(d) /\ Models = Elements(d.order)
  BY DataIsWellFormed DEF Position, Models
<1>2. PICK f \in Elements(d.fields[m]) : IsRelational(f) /\ r = f.name /\ here = RelationMetadata(d, m, f)
  BY RelationsLeadToModels
<1>3. /\ f.type \in Models
      /\ \E g \in Elements(d.fields[f.type]) :
              /\ IsRelational(g) /\ g.relation = f.relation /\ g.type = m
              /\ RelatedField(d, m, f) = <<g>> /\ RelatedField(d, f.type, g) = <<f>>
              /\ f.from = <<>> \/ g.from = <<>>
              /\ f.from = <<>> /\ g.from = <<>> <=> f.isList /\ g.isList
  BY <1>1, <1>2, SidesFindEachOther
<1>4. PICK g \in Elements(d.fields[f.type]) :
              /\ IsRelational(g) /\ g.relation = f.relation /\ g.type = m
              /\ RelatedField(d, m, f) = <<g>> /\ RelatedField(d, f.type, g) = <<f>>
              /\ f.from = <<>> \/ g.from = <<>>
              /\ f.from = <<>> /\ g.from = <<>> <=> f.isList /\ g.isList
  BY <1>3
<1>5. here.to = f.type /\ here.back = g.name
  BY <1>2, <1>4, SideIsDescribed
<1>6. /\ schema[f.type] = ModelMetadata(d, f.type)
      /\ g.name \in DOMAIN schema[f.type].relations
      /\ schema[f.type].relations[g.name] = RelationMetadata(d, f.type, g)
  BY <1>1, <1>3, <1>4, AllDescribed, RelationsAreDescribed
<1>7. there = RelationMetadata(d, f.type, g)
  BY <1>5, <1>6
<1>8. /\ here.owner = (f.from # <<>>)
      /\ here.fkModel = IF f.from # <<>> THEN m ELSE IF g.from # <<>> THEN f.type ELSE NoModel
      /\ here.fk = IF here.fkModel = NoModel THEN NoForeignKey
                   ELSE ForeignKey(d, here.fkModel, IF f.from # <<>> THEN f ELSE g)
      /\ here.shape = "many-to-many" <=> f.isList /\ g.isList
      /\ here.join = IF here.shape = "many-to-many" THEN ImplicitJoin(m, f) ELSE NoJoin
  BY <1>2, <1>4, SideIsDescribed
<1>9. /\ there.to = g.type /\ there.back = f.name /\ there.owner = (g.from # <<>>)
      /\ there.fkModel = IF g.from # <<>> THEN f.type ELSE IF f.from # <<>> THEN g.type ELSE NoModel
      /\ there.fk = IF there.fkModel = NoModel THEN NoForeignKey
                    ELSE ForeignKey(d, there.fkModel, IF g.from # <<>> THEN g ELSE f)
      /\ there.shape = "many-to-many" <=> g.isList /\ f.isList
      /\ there.join = IF there.shape = "many-to-many" THEN ImplicitJoin(f.type, g) ELSE NoJoin
  BY <1>4, <1>7, SideIsDescribed
<1>10. /\ there.to = m /\ there.back = r /\ there.owner = (g.from # <<>>)
       /\ there.fkModel = IF g.from # <<>> THEN f.type ELSE IF f.from # <<>> THEN m ELSE NoModel
       /\ there.fk = IF there.fkModel = NoModel THEN NoForeignKey
                     ELSE ForeignKey(d, there.fkModel, IF g.from # <<>> THEN g ELSE f)
       /\ there.shape = "many-to-many" <=> g.isList /\ f.isList
       /\ there.join = IF there.shape = "many-to-many" THEN ImplicitJoin(f.type, g) ELSE NoJoin
  BY <1>2, <1>4, <1>9
<1>11. here.fkModel = there.fkModel /\ here.fk = there.fk
  <2>1. CASE f.from # <<>> /\ g.from = <<>>
    <3>1. here.fkModel = m /\ there.fkModel = m
      BY <1>8, <1>10, <2>1
    <3>2. /\ here.fk = IF m = NoModel THEN NoForeignKey ELSE ForeignKey(d, m, f)
          /\ there.fk = IF m = NoModel THEN NoForeignKey ELSE ForeignKey(d, m, f)
      BY <1>8, <1>10, <2>1, <3>1
    <3>. QED
      BY <3>1, <3>2
  <2>2. CASE f.from = <<>> /\ g.from # <<>>
    <3>1. here.fkModel = f.type /\ there.fkModel = f.type
      BY <1>8, <1>10, <2>2
    <3>2. /\ here.fk = IF f.type = NoModel THEN NoForeignKey ELSE ForeignKey(d, f.type, g)
          /\ there.fk = IF f.type = NoModel THEN NoForeignKey ELSE ForeignKey(d, f.type, g)
      BY <1>8, <1>10, <2>2, <3>1
    <3>. QED
      BY <3>1, <3>2
  <2>3. CASE f.from = <<>> /\ g.from = <<>>
    BY <1>8, <1>10, <2>3
  <2>. QED
    BY <1>4, <2>1, <2>2, <2>3
<1>12. \/ here.shape = "many-to-many" /\ there.shape = "many-to-many"
       \/ /\ here.shape # "many-to-many" /\ there.shape # "many-to-many"
          /\ here.owner = ~there.owner
  BY <1>4, <1>8, <1>10
<1>13. here.to \in Models /\ here.back \in DOMAIN schema[here.to].relations
  BY <1>3, <1>5, <1>6
<1>14. CASE here.shape = "many-to-many"
  <2>1. m \in Nat /\ f.type \in Nat
    BY <1>3, OrderIsInjective DEF Position
  <2>2. here.join = ImplicitJoin(m, f) /\ there.join = ImplicitJoin(f.type, g)
    BY <1>8, <1>10, <1>12, <1>14
  <2>3. /\ there.join = Crossed(here.join)
        /\ here.join.table = there.join.table /\ here.join.ambiguous = there.join.ambiguous
    <3>1. \A x, y : x = ImplicitJoin(m, f) /\ y = ImplicitJoin(f.type, g)
                     => y = Crossed(x) /\ x.table = y.table /\ x.ambiguous = y.ambiguous
      BY <1>4, <2>1, JoinsAreCrossed
    <3>. QED
      BY <2>2, <3>1
  <2>. QED
    BY <1>10, <1>11, <1>12, <1>13, <2>3 DEF Agree
<1>15. CASE here.shape # "many-to-many"
  <2>1. here.join = NoJoin /\ there.join = NoJoin
    BY <1>8, <1>10, <1>12, <1>15
  <2>. QED
    BY <1>10, <1>11, <1>12, <1>15, <1>13, <2>1 DEF Agree
<1>. QED
  BY <1>14, <1>15

\* The foreign keys of a join table: A refers to the model that sorts first.
LEMMA JoinKeysLead ==
  ASSUME NEW some, NEW relation, NEW m, NEW low, NEW high,
         low = IF relation.to < m THEN relation.to ELSE m,
         high = IF relation.to < m THEN m ELSE relation.to,
         NEW k \in BuildJoinTable(some, schema, relation, m).keys
  PROVE  \/ k.columns = <<"A">> /\ k.target = schema[low].table
         \/ k.columns = <<"B">> /\ k.target = schema[high].table
<1>1. k \in {JoinKey("A", relation, schema[low]), JoinKey("B", relation, schema[high])}
  BY DEF BuildJoinTable
<1>2. \A name, spec : JoinKey(name, relation, spec).columns = <<name>> /\ JoinKey(name, relation, spec).target = spec.table
  BY DEF JoinKey
<1>. QED
  BY <1>1, <1>2

\* Two many-to-many relations with one join table are between the same models.
LEMMA JoinTablesAreShared ==
  ASSUME Position, SchemaInv, phase # "describe",
         NEW m \in Models, NEW r \in ManyToMany(m), NEW n \in Models, NEW q \in ManyToMany(n),
         schema[m].relations[r].join.table = schema[n].relations[q].join.table
  PROVE  {m, schema[m].relations[r].to} = {n, schema[n].relations[q].to}
<1>1. WellFormed(d) /\ Models = Elements(d.order)
  BY DataIsWellFormed DEF Position, Models
<1>2. /\ r \in DOMAIN schema[m].relations /\ schema[m].relations[r].shape = "many-to-many"
      /\ q \in DOMAIN schema[n].relations /\ schema[n].relations[q].shape = "many-to-many"
  BY DEF ManyToMany
<1>3. PICK f \in Elements(d.fields[m]) : IsRelational(f) /\ schema[m].relations[r] = RelationMetadata(d, m, f)
  BY <1>2, RelationsLeadToModels
<1>4. PICK g \in Elements(d.fields[n]) : IsRelational(g) /\ schema[n].relations[q] = RelationMetadata(d, n, g)
  BY <1>2, RelationsLeadToModels
<1>5. \A x, h : LET relation == RelationMetadata(d, x, h)
                IN /\ relation.shape = Shape(d, x, h) /\ relation.to = h.type
                   /\ relation.shape = "many-to-many" => relation.join = ImplicitJoin(x, h)
  BY DEF RelationMetadata
<1>6. \A x, h : ImplicitJoin(x, h).table = <<"_", h.relation>>
  BY DEF ImplicitJoin
<1>7. /\ Shape(d, m, f) = "many-to-many" /\ Shape(d, n, g) = "many-to-many"
      /\ schema[m].relations[r].to = f.type /\ schema[n].relations[q].to = g.type
      /\ f.relation = g.relation
  <2>1. /\ Shape(d, m, f) = "many-to-many" /\ schema[m].relations[r].to = f.type
        /\ schema[m].relations[r].join = ImplicitJoin(m, f)
    BY <1>2, <1>3, <1>5
  <2>2. /\ Shape(d, n, g) = "many-to-many" /\ schema[n].relations[q].to = g.type
        /\ schema[n].relations[q].join = ImplicitJoin(n, g)
    BY <1>2, <1>4, <1>5
  <2>3. <<"_", f.relation>> = <<"_", g.relation>>
    BY <1>6, <2>1, <2>2
  <2>. QED
    BY <2>1, <2>2, <2>3
<1>8. JoinNamesAreUnique(d, m, n)
  BY <1>1 DEF WellFormed
<1>. QED
  BY <1>3, <1>4, <1>7, <1>8 DEF JoinNamesAreUnique

\* A column of the join table refers to the model that is found in it.
LEMMA JoinColumnsLead ==
  ASSUME IInv, phase \in WithKeys \ {"joins"}, NEW m \in Models, NEW r \in ManyToMany(m),
         NEW here, here = schema[m].relations[r], ~here.join.ambiguous,
         NEW k \in tables[here.join.table].keys
  PROVE  k.target = schema[IF k.columns = <<here.join.self>> THEN m ELSE here.to].table
<1>1. Position /\ SchemaInv /\ phase # "describe"
  BY DEF IInv, WithKeys, Phases, Passes
<1>2. r \in DOMAIN schema[m].relations /\ here.shape = "many-to-many"
  BY DEF ManyToMany
<1>3. here.join.table \in DOMAIN tables
  BY DEF IInv, TablesInv, DoneBy
<1>4. \A n \in Models : here.join.table # <<n>>
  BY <1>1, JoinTablesAreOthers
<1>5. IsJoinTable(here.join.table)
  BY <1>3, <1>4 DEF IInv, TablesInv
<1>6. PICK n \in Models : \E q \in ManyToMany(n) :
        /\ schema[n].relations[q].join.table = here.join.table
        /\ tables[here.join.table] = BuildJoinTable(tables, schema, schema[n].relations[q], n)
  BY <1>5 DEF IsJoinTable
<1>7. PICK q \in ManyToMany(n) :
        /\ schema[n].relations[q].join.table = here.join.table
        /\ tables[here.join.table] = BuildJoinTable(tables, schema, schema[n].relations[q], n)
  BY <1>6
<1>. DEFINE to == schema[n].relations[q].to
            low  == IF to < n THEN to ELSE n
            high == IF to < n THEN n ELSE to
<1>8. {m, here.to} = {n, to}
  BY <1>1, <1>7, JoinTablesAreShared
<1>9. \/ k.columns = <<"A">> /\ k.target = schema[low].table
      \/ k.columns = <<"B">> /\ k.target = schema[high].table
  BY <1>7, JoinKeysLead
<1>10. PICK f : here = RelationMetadata(d, m, f)
  BY <1>1, <1>2, RelationsLeadToModels
<1>11. here.to = f.type /\ here.join = ImplicitJoin(m, f)
  BY <1>2, <1>10 DEF RelationMetadata
<1>12. m # here.to /\ here.join.self = IF m < here.to THEN "A" ELSE "B"
  <2>1. m # f.type
    <3>1. m = f.type => ImplicitJoin(m, f).ambiguous = TRUE
      BY DEF ImplicitJoin
    <3>. QED
      BY <1>11, <3>1
  <2>2. ImplicitJoin(m, f).self = IF m < f.type THEN "A" ELSE "B"
    BY <2>1 DEF ImplicitJoin
  <2>. QED
    BY <1>11, <2>1, <2>2
<1>13. m \in Nat /\ here.to \in Nat
  BY <1>1, <1>2, RelationsLeadToModels, OrderIsInjective DEF Position
<1>. HIDE DEF to
<1>14. low = (IF m < here.to THEN m ELSE here.to) /\ high = (IF m < here.to THEN here.to ELSE m)
  BY <1>8, <1>12, <1>13
<1>. HIDE DEF low, high
<1>15. <<"A">> # <<"B">>
  OBVIOUS
<1>16. CASE m < here.to
  BY <1>9, <1>12, <1>14, <1>15, <1>16
<1>17. CASE ~(m < here.to)
  BY <1>9, <1>12, <1>14, <1>15, <1>17
<1>. QED
  BY <1>16, <1>17

\* A relation is emitted with its other side.
LEMMA EmittedInPairs ==
  ASSUME IInv, Built, NEW m \in Models, NEW r \in DOMAIN schema[m].relations,
         NEW here, here = schema[m].relations[r], <<m, r>> \in emitted.relations
  PROVE  <<here.to, here.back>> \in emitted.relations
<1>. DEFINE mappable    == PlanModels(schema, d.enums)
            all         == UNION {{n} \X DOMAIN schema[n].relations : n \in mappable}
            relation(p) == schema[p[1]].relations[p[2]]
            refused     == {p \in all : RelationRefused(relation(p), mappable)}
<1>1. Position /\ SchemaInv /\ phase # "describe"
  BY DEF IInv, Built
<1>2. emitted.relations = PlanRelations(schema, mappable)
  <2>1. NothingEmitted.relations = {}
    BY DEF NothingEmitted
  <2>2. phase # "plan"
    BY <2>1 DEF IInv, EmittedInv
  <2>3. \E classes, loose : emitted = [mappable |-> mappable, relations |-> PlanRelations(schema, mappable),
                                       classes |-> classes, loose |-> loose]
    BY <2>2 DEF IInv, EmittedInv, Built
  <2>. QED
    BY <2>3
<1>3. emitted.relations = {p \in all \ refused : <<relation(p).to, relation(p).back>> \notin refused}
  BY <1>2 DEF PlanRelations
<1>. DEFINE q == <<here.to, here.back>>
<1>4. relation(<<m, r>>) = here
  OBVIOUS
<1>5. <<m, r>> \in all \ refused /\ q \notin refused
  BY <1>3, <1>4
<1>6. here.to \in mappable
  BY <1>4, <1>5 DEF RelationRefused
<1>7. here.back \in DOMAIN schema[here.to].relations /\ relation(q).to = m /\ relation(q).back = r
  <2>1. relation(q) = schema[here.to].relations[here.back]
    OBVIOUS
  <2>2. /\ here.back \in DOMAIN schema[here.to].relations
        /\ Agree(m, r, here, schema[here.to].relations[here.back])
    BY <1>1, SidesDescribeOneRelation DEF Side
  <2>. QED
    BY <2>1, <2>2 DEF Agree
<1>8. q \in all \ refused
  <2>1. q \in {here.to} \X DOMAIN schema[here.to].relations
    BY <1>7
  <2>. QED
    BY <1>5, <1>6, <2>1
<1>9. <<relation(q).to, relation(q).back>> = <<m, r>>
  BY <1>7
<1>. QED
  BY <1>3, <1>5, <1>8, <1>9

\* And the two relationships are over the same columns.
OverOneKey(text, other) ==
  /\ text.foreign = other.foreign /\ text.join = other.join
  /\ text.secondary = other.secondary /\ text.secondJoin = Reverse(other.secondJoin)

\* Two relationship() lines emitted for the sides of a relation agree.
LEMMA RelationshipsAgree ==
  ASSUME NEW m, NEW r, NEW here, NEW there, Agree(m, r, here, there)
  PROVE  OverOneKey(RenderRelation(m, here, tables, schema), RenderRelation(here.to, there, tables, schema))
<1>. SUFFICES ASSUME NEW text, text = RenderRelation(m, here, tables, schema),
                     NEW other, other = RenderRelation(here.to, there, tables, schema)
              PROVE  OverOneKey(text, other)
  OBVIOUS
<1>. DEFINE toMany   == here.shape = "many-to-many"
            explicit == JoinsWithoutAForeignKey(here, tables, schema)
<1>1. /\ there.to = m
      /\ here.fkModel = there.fkModel /\ here.fk = there.fk
      /\ here.shape = "many-to-many" <=> there.shape = "many-to-many"
      /\ here.join.table = there.join.table
      /\ here.shape = "many-to-many" \/ here.owner = ~there.owner
      /\ here.shape = "many-to-many" => there.join = Crossed(here.join)
  BY DEF Agree
<1>2. JoinsWithoutAForeignKey(there, tables, schema) = explicit
  BY <1>1 DEF JoinsWithoutAForeignKey
<1>3. text.foreign = other.foreign
  BY <1>1 DEF RenderRelation
<1>4. text.secondary = other.secondary
  BY <1>1 DEF RenderRelation
<1>5. text.join = other.join
  <2>1. ~toMany => PrimaryJoin(m, here) = PrimaryJoin(here.to, there)
    BY <1>1 DEF PrimaryJoin
  <2>2. text.join = IF ~toMany /\ explicit THEN PrimaryJoin(m, here) ELSE {}
    BY DEF RenderRelation
  <2>3. other.join = IF ~toMany /\ explicit THEN PrimaryJoin(here.to, there) ELSE {}
    BY <1>1, <1>2 DEF RenderRelation
  <2>. QED
    BY <2>1, <2>2, <2>3
<1>6. text.secondJoin = Reverse(other.secondJoin)
  <2>1. text.secondJoin = IF toMany /\ explicit THEN SecondaryJoin(here) ELSE <<>>
    BY DEF RenderRelation
  <2>2. other.secondJoin = IF toMany /\ explicit THEN SecondaryJoin(there) ELSE <<>>
    BY <1>1, <1>2 DEF RenderRelation
  <2>3. toMany => SecondaryJoin(here) = <<here.join.self, here.join.other>>
                  /\ SecondaryJoin(there) = <<here.join.other, here.join.self>>
    BY <1>1 DEF SecondaryJoin, Crossed
  <2>4. \A x, y : Reverse(<<x, y>>) = <<y, x>>
    BY DEF Reverse
  <2>5. Reverse(<<>>) = <<>>
    BY DEF Reverse
  <2>. QED
    BY <2>1, <2>2, <2>3, <2>4, <2>5
<1>. QED
  BY <1>3, <1>4, <1>5, <1>6 DEF OverOneKey

\* What the emitter prints for a relation it prints for both of its sides.
LEMMA SidesFollow == IInv => SidesAgree
<1>. SUFFICES ASSUME IInv, Built, NEW m \in Models, NEW r \in DOMAIN schema[m].relations
              PROVE  LET here  == schema[m].relations[r]
                         there == schema[here.to].relations[here.back]
                         text  == RenderRelation(m, here, tables, schema)
                         other == RenderRelation(here.to, there, tables, schema)
                         joins == tables[here.join.table]
                     IN /\ there.to = m /\ there.back = r
                        /\ here.fkModel = there.fkModel /\ here.fk = there.fk
                        /\ here.shape = "many-to-many" =>
                             /\ there.join = Crossed(here.join)
                             /\ ~here.join.ambiguous => \A k \in joins.keys :
                                  k.target = schema[IF k.columns = <<here.join.self>> THEN m ELSE here.to].table
                        /\ <<m, r>> \in emitted.relations =>
                             /\ <<here.to, here.back>> \in emitted.relations
                             /\ text.foreign = other.foreign /\ text.join = other.join
                             /\ text.secondary = other.secondary
                             /\ text.secondJoin = Reverse(other.secondJoin)
  BY DEF SidesAgree
<1>. DEFINE here  == schema[m].relations[r]
            there == schema[here.to].relations[here.back]
            text  == RenderRelation(m, here, tables, schema)
            other == RenderRelation(here.to, there, tables, schema)
<1>1. Position /\ SchemaInv /\ phase # "describe" /\ phase \in WithKeys \ {"joins"}
  BY DEF IInv, Built, WithKeys, Phases, Passes
<1>2. Agree(m, r, here, there)
  BY <1>1, SidesDescribeOneRelation DEF Side
<1>3. ASSUME here.shape = "many-to-many", ~here.join.ambiguous, NEW k \in tables[here.join.table].keys
      PROVE  k.target = schema[IF k.columns = <<here.join.self>> THEN m ELSE here.to].table
  <2>1. r \in ManyToMany(m)
    BY <1>3 DEF ManyToMany
  <2>. QED
    BY <1>1, <1>3, <2>1, JoinColumnsLead
<1>4. <<m, r>> \in emitted.relations => <<here.to, here.back>> \in emitted.relations
  BY EmittedInPairs
<1>5. OverOneKey(text, other)
  BY <1>2, RelationshipsAgree
<1>. HIDE DEF here, there, text, other
<1>6. /\ there.to = m /\ there.back = r /\ here.fkModel = there.fkModel /\ here.fk = there.fk
      /\ here.shape = "many-to-many" => there.join = Crossed(here.join)
  BY <1>2 DEF Agree
<1>7. /\ text.foreign = other.foreign /\ text.join = other.join
      /\ text.secondary = other.secondary /\ text.secondJoin = Reverse(other.secondJoin)
  BY <1>5 DEF OverOneKey
<1>. QED
  BY <1>3, <1>4, <1>6, <1>7 DEF here, there, text, other

\* The two sides of every relation tell one story.
THEOREM BothSidesAreRight == Spec => []SidesAgree
BY InvariantHolds, SidesFollow, PTL

-----------------------------------------------------------------------------
(* What the metadata says to its readers, and the lookups in it.             *)

\* The description of a scalar, found by its name.
LEMMA ScalarIsDescribed ==
  ASSUME NEW data, WellFormed(data), NEW m \in Elements(data.order),
         NEW name \in DOMAIN ModelMetadata(data, m).fields
  PROVE  LET spec == ModelMetadata(data, m)
             f    == ResolveField(data, m, name)
         IN /\ f \in Elements(data.fields[m]) /\ ~IsRelational(f) /\ f.name = name
            /\ spec.fields[name] = FieldMetadata(data, m, f)
            /\ spec.fields[name].column = ColumnName(f)
            /\ \E i \in DOMAIN spec.order : spec.order[i] = name /\ data.fields[m][i] = f
<1>. DEFINE spec == ModelMetadata(data, m)
            f    == ResolveField(data, m, name)
<1>1. name \in ScalarNames(data, m)
  BY ScalarsAreDescribed
<1>2. PICK i \in DOMAIN data.fields[m] : ~IsRelational(data.fields[m][i]) /\ data.fields[m][i].name = name
  BY <1>1 DEF ScalarNames, Elements
<1>3. data.fields[m][i] \in Elements(data.fields[m])
  BY <1>2 DEF Elements
<1>4. f = data.fields[m][i]
  BY <1>2, <1>3, FieldsResolve
<1>5. i \in DOMAIN spec.order
  BY <1>2, ScalarsAreDescribed
<1>. HIDE DEF f
<1>6. /\ spec.order[i] = name /\ spec.fields[name] = FieldMetadata(data, m, f)
      /\ spec.fields[name].column = ColumnName(f)
  BY <1>2, <1>4, <1>5, ScalarsAreDescribed
<1>. QED
  BY <1>2, <1>3, <1>4, <1>5, <1>6 DEF f

\* A sequence is named where the type declaration says so.
LEMMA FieldsAsDocumented ==
  ASSUME NEW data, WellFormed(data), NEW m \in Elements(data.order),
         NEW name \in DOMAIN ModelMetadata(data, m).fields
  PROVE  FieldSchema(ModelMetadata(data, m), name)
<1>. DEFINE spec == ModelMetadata(data, m)
            f    == ResolveField(data, m, name)
<1>1. f \in Elements(data.fields[m]) /\ f.name = name /\ spec.fields[name] = FieldMetadata(data, m, f)
  BY ScalarIsDescribed
<1>2. spec.key.fields = PrimaryKeyFields(data, m)
  BY DEF ModelMetadata
<1>3. /\ spec.fields[name].sequence = SequenceFor(data, m, f) /\ spec.fields[name].default = f.default
      /\ spec.fields[name].type = f.type /\ spec.fields[name].isList = f.isList
  BY <1>1 DEF FieldMetadata
<1>4. IsAutoincrement(f.default) => ~f.isList /\ f.type \in {"Int", "BigInt"}
  BY <1>1 DEF WellFormed, DefaultsFit
<1>. HIDE DEF spec, f
<1>5. spec.fields[name].sequence # <<>> => IsAutoincrement(f.default) /\ f.name \notin Elements(PrimaryKeyFields(data, m))
  BY <1>3 DEF SequenceFor
<1>6. FieldSchema(spec, name)
  BY <1>1, <1>2, <1>3, <1>4, <1>5 DEF FieldSchema
<1>. QED
  BY <1>6 DEF spec

\* The columns of scalars of a model are parallel to their names.
LEMMA ColumnsAreParallel ==
  ASSUME NEW data, WellFormed(data), NEW m \in Elements(data.order),
         NEW names, Elements(names) \subseteq ScalarNames(data, m)
  PROVE  Parallel(Columns(data, m, names), names, ModelMetadata(data, m))
<1>. DEFINE spec == ModelMetadata(data, m)
<1>1. DOMAIN spec.fields = ScalarNames(data, m)
  BY ScalarsAreDescribed
<1>2. ASSUME NEW i \in DOMAIN names
      PROVE  /\ names[i] \in DOMAIN spec.fields
             /\ Columns(data, m, names)[i] = spec.fields[names[i]].column
  <2>1. names[i] \in DOMAIN spec.fields
    BY <1>1 DEF Elements
  <2>2. spec.fields[names[i]].column = ColumnName(ResolveField(data, m, names[i]))
    BY <2>1, ScalarIsDescribed
  <2>. QED
    BY <2>1, <2>2 DEF Columns
<1>3. DOMAIN Columns(data, m, names) = DOMAIN names
  BY DEF Columns
<1>. QED
  BY <1>2, <1>3 DEF Parallel

\* So are those of an index.
LEMMA IndexesAsDocumented ==
  ASSUME NEW data, WellFormed(data), NEW m \in Elements(data.order)
  PROVE  IndexSchema(ModelMetadata(data, m))
<1>. DEFINE spec == ModelMetadata(data, m)
<1>1. SUFFICES ASSUME NEW index \in spec.indexes
               PROVE  /\ DOMAIN index.columns = DOMAIN index.fields
                      /\ \A i \in DOMAIN index.fields : index.fields[i].name \in DOMAIN spec.fields
                           => index.columns[i] = spec.fields[index.fields[i].name].column
  BY DEF IndexSchema
<1>2. PICK j : index = IndexMetadata(data, m, j)
  BY DEF ModelMetadata, Indexes
<1>3. index.fields = j.fields /\ index.columns = IndexColumns(data, m, j)
  BY <1>2 DEF IndexMetadata
<1>4. /\ DOMAIN index.columns = DOMAIN index.fields
      /\ \A i \in DOMAIN index.fields : index.columns[i] = ColumnName(ResolveField(data, m, index.fields[i].name))
  BY <1>3 DEF IndexColumns
<1>5. \A name \in DOMAIN spec.fields : spec.fields[name].column = ColumnName(ResolveField(data, m, name))
  BY ScalarIsDescribed
<1>. QED
  BY <1>4, <1>5

\* A relation is told as its type declaration says.
LEMMA RelationsAsDocumented ==
  ASSUME Position, SchemaInv, phase # "describe", NEW m \in Models,
         NEW r \in DOMAIN schema[m].relations
  PROVE  RelationSchema(schema, m, r)
<1>. DEFINE relation == schema[m].relations[r]
<1>1. /\ WellFormed(d) /\ m \in Elements(d.order) /\ Models = Elements(d.order)
      /\ m # NoModel /\ NoModel \notin Models
  BY DataIsWellFormed, OrderIsInjective DEF Position, Models
<1>2. DOMAIN schema = Models /\ \A n \in Models : schema[n] = ModelMetadata(d, n)
  BY AllDescribed
<1>3. PICK f \in {g \in Elements(d.fields[m]) : IsRelational(g)} :
        r = f.name /\ relation = RelationMetadata(d, m, f)
  <2>1. DOMAIN schema[m].relations = {g.name : g \in {h \in Elements(d.fields[m]) : IsRelational(h)}}
    BY <1>1, <1>2, RelationsAreDescribed
  <2>2. \A g \in {h \in Elements(d.fields[m]) : IsRelational(h)} : schema[m].relations[g.name] = RelationMetadata(d, m, g)
    BY <1>1, <1>2, RelationsAreDescribed
  <2>. QED
    BY <2>1, <2>2
<1>4. f.type \in Models
  BY <1>1, <1>3 DEF WellFormed, RelationsHaveTwoSides
<1>5. PICK i \in DOMAIN d.fields[f.type] :
        LET g == d.fields[f.type][i]
        IN /\ Candidates(d, m, f) = {i}
           /\ g.type = m
           /\ f.from = <<>> \/ g.from = <<>>
           /\ f.from = <<>> /\ g.from = <<>> <=> f.isList /\ g.isList
  BY <1>1, <1>3 DEF WellFormed, RelationsHaveTwoSides
<1>. DEFINE g == d.fields[f.type][i]
            back == RelatedField(d, m, f)
            holder == KeyHolder(d, m, f)
<1>6. g \in Elements(d.fields[f.type])
  BY DEF Elements
<1>7. back = <<g>>
  <2>1. (CHOOSE k \in {i} : \A j \in {i} : k <= j) = i
    <3>1. i \in Nat
      <4>1. d.fields[f.type] \in Seq(Elements(d.fields[f.type]))
        BY <1>1, <1>4 DEF WellFormed
      <4>. QED
        BY <4>1, LenProperties
    <3>. QED
      BY <3>1
  <2>. QED
    BY <1>5, <2>1 DEF RelatedField, FieldAtFirst
<1>8. Head(back) = g /\ back # <<>>
  BY <1>7
<1>. HIDE DEF g, back
<1>9. /\ g.type = m /\ (f.from = <<>> \/ g.from = <<>>)
      /\ f.from = <<>> /\ g.from = <<>> <=> f.isList /\ g.isList
  BY <1>5 DEF g
<1>10. holder = IF f.from # <<>> THEN m ELSE IF g.from # <<>> THEN f.type ELSE NoModel
  BY <1>8 DEF KeyHolder, back
<1>11. Shape(d, m, f) = "many-to-many" <=> f.isList /\ g.isList
  BY <1>8 DEF Shape, back
<1>12. holder = NoModel <=> Shape(d, m, f) = "many-to-many"
  BY <1>1, <1>4, <1>9, <1>10, <1>11
<1>. HIDE DEF holder
<1>13. /\ relation.to = f.type /\ relation.shape = Shape(d, m, f) /\ relation.owner = (f.from # <<>>)
       /\ relation.fkModel = holder
       /\ relation.fk = IF holder = NoModel THEN NoForeignKey
                        ELSE ForeignKey(d, holder, IF f.from # <<>> THEN f ELSE g)
       /\ relation.fkName = IF f.from # <<>> THEN ForeignKeyName(d, m, f) ELSE <<>>
       /\ relation.join = IF Shape(d, m, f) = "many-to-many" THEN ImplicitJoin(m, f) ELSE NoJoin
  BY <1>3, <1>8 DEF RelationMetadata, holder, back
<1>. HIDE DEF relation
<1>14. relation.shape = "many-to-many" <=> relation.join # NoJoin
  <2>1. ImplicitJoin(m, f).table = <<"_", f.relation>> /\ NoJoin.table = <<>>
    BY DEF ImplicitJoin, NoJoin
  <2>2. ImplicitJoin(m, f) # NoJoin
    <3>1. <<"_", f.relation>> # <<>>
      OBVIOUS
    <3>. QED
      BY <2>1, <3>1
  <2>. QED
    BY <1>13, <2>2
<1>15. relation.owner <=> relation.fkName # <<>>
  <2>1. ForeignKeyName(d, m, f) # <<>>
    BY DEF ForeignKeyName
  <2>. QED
    BY <1>13, <2>1
<1>16. ASSUME relation.fkModel # NoModel
       PROVE  /\ relation.fkModel = IF relation.owner THEN m ELSE relation.to
              /\ Parallel(relation.fk.columns, relation.fk.fields, schema[relation.fkModel])
              /\ Parallel(relation.fk.refColumns, relation.fk.references,
                          schema[IF relation.owner THEN relation.to ELSE m])
              /\ relation.fk.required <=>
                   \A k \in DOMAIN relation.fk.fields :
                     ~schema[relation.fkModel].fields[relation.fk.fields[k]].nullable
  <2>. DEFINE own == IF f.from # <<>> THEN f ELSE g
              target == IF f.from # <<>> THEN f.type ELSE m
  <2>1. /\ holder \in Models /\ own \in Elements(d.fields[holder]) /\ own.from # <<>>
        /\ own.type = target /\ target \in Models /\ holder # NoModel
    BY <1>3, <1>4, <1>6, <1>9, <1>10, <1>13, <1>16
  <2>2. relation.fkModel = IF relation.owner THEN m ELSE relation.to
    BY <1>10, <1>13, <1>16
  <2>3. /\ relation.fk = ForeignKey(d, holder, own)
        /\ (IF relation.owner THEN relation.to ELSE m) = target
    BY <1>13, <1>16
  <2>. HIDE DEF own, target
  <2>4. Elements(own.from) \subseteq ScalarNames(d, holder) /\ Elements(own.to) \subseteq ScalarNames(d, own.type)
    BY <1>1, <2>1 DEF WellFormed, KeysAreScalars
  <2>5. /\ relation.fk.fields = own.from /\ relation.fk.columns = Columns(d, holder, own.from)
        /\ relation.fk.references = own.to /\ relation.fk.refColumns = Columns(d, own.type, own.to)
        /\ relation.fk.required = \A name \in Elements(own.from) : ResolveField(d, holder, name).isRequired
    BY <2>3 DEF ForeignKey
  <2>6. Parallel(relation.fk.columns, relation.fk.fields, schema[relation.fkModel])
    BY <1>1, <1>2, <1>13, <2>1, <2>4, <2>5, ColumnsAreParallel
  <2>7. Parallel(relation.fk.refColumns, relation.fk.references, schema[target])
    BY <1>1, <1>2, <2>1, <2>4, <2>5, ColumnsAreParallel
  <2>8. ASSUME NEW k \in DOMAIN own.from
        PROVE  ~schema[holder].fields[own.from[k]].nullable <=> ResolveField(d, holder, own.from[k]).isRequired
    <3>1. own.from[k] \in DOMAIN ModelMetadata(d, holder).fields
      BY <1>1, <2>1, <2>4, ScalarsAreDescribed DEF Elements
    <3>2. ModelMetadata(d, holder).fields[own.from[k]] = FieldMetadata(d, holder, ResolveField(d, holder, own.from[k]))
      BY <1>1, <2>1, <3>1, ScalarIsDescribed
    <3>3. \A h : FieldMetadata(d, holder, h).nullable = ~h.isRequired
      BY DEF FieldMetadata
    <3>. QED
      BY <1>2, <2>1, <3>2, <3>3
  <2>9. relation.fk.required <=> \A k \in DOMAIN relation.fk.fields :
          ~schema[relation.fkModel].fields[relation.fk.fields[k]].nullable
    BY <1>13, <2>5, <2>8 DEF Elements
  <2>. QED
    BY <2>2, <2>3, <2>6, <2>7, <2>9
<1>. QED
  BY <1>2, <1>4, <1>12, <1>13, <1>14, <1>15, <1>16 DEF RelationSchema, relation

\* The description of every model is as its readers are told.
LEMMA SchemaFollows == IInv => SchemaAsDocumented
<1>. SUFFICES ASSUME IInv, phase # "describe", NEW m \in Models
              PROVE  /\ \A f \in DOMAIN schema[m].fields : FieldSchema(schema[m], f)
                     /\ ConstraintSchema(schema[m]) /\ IndexSchema(schema[m])
                     /\ \A r \in DOMAIN schema[m].relations : RelationSchema(schema, m, r)
  BY DEF SchemaAsDocumented
<1>1. WellFormed(d) /\ m \in Elements(d.order) /\ Position /\ SchemaInv
  BY DataIsWellFormed DEF Position, Models, IInv
<1>2. schema[m] = ModelMetadata(d, m)
  BY <1>1, AllDescribed
<1>3. \A f \in DOMAIN schema[m].fields : FieldSchema(schema[m], f)
  BY <1>1, <1>2, FieldsAsDocumented
<1>4. ConstraintSchema(schema[m])
  <2>1. Elements(PrimaryKeyFields(d, m)) \subseteq ScalarNames(d, m)
    BY <1>1 DEF WellFormed, KeysAreScalars
  <2>2. /\ schema[m].key.fields = PrimaryKeyFields(d, m)
        /\ schema[m].key.columns = Columns(d, m, PrimaryKeyFields(d, m))
    BY <1>2 DEF ModelMetadata
  <2>. QED
    BY <1>1, <1>2, <2>1, <2>2, ColumnsAreParallel DEF ConstraintSchema
<1>5. IndexSchema(schema[m])
  BY <1>1, <1>2, IndexesAsDocumented
<1>. QED
  BY <1>1, <1>3, <1>4, <1>5, RelationsAsDocumented

\* The metadata of a program is what the declarations of _schema.py promise.
THEOREM MetadataIsAsDocumented == Spec => []SchemaAsDocumented
BY InvariantHolds, SchemaFollows, PTL

-----------------------------------------------------------------------------
(* The lookups.                                                              *)

\* The lookups in the parts of a model's metadata.
LEMMA PartsAreFound ==
  ASSUME NEW enums, NEW m \in DOMAIN schema, {"key", "fields", "relations"} \subseteq DOMAIN schema[m]
  PROVE  /\ Part(Metadata(enums), m, "key") = Returns(schema[m].key)
         /\ Part(Metadata(enums), m, "fields") = Returns(schema[m].fields)
         /\ Part(Metadata(enums), m, "relations") = Returns(schema[m].relations)
<1>1. Global(Metadata(enums), "models") = Returns(schema)
  BY DEF Global, Metadata
<1>2. \A x : DOMAIN Returns(x) = {"returns"} /\ Returns(x).returns = x
  BY DEF Returns
<1>3. ModelSchema(Metadata(enums), m) = Returns(schema[m])
  BY <1>1, <1>2 DEF ModelSchema, In
<1>. QED
  BY <1>2, <1>3 DEF Part, In

\* A lookup of a field finds it among the columns or among the relations.
LEMMA FieldIsFound ==
  ASSUME NEW enums, NEW m \in DOMAIN schema, {"key", "fields", "relations"} \subseteq DOMAIN schema[m], NEW name
  PROVE  /\ ColumnOf(Metadata(enums), m, name) =
              IF name \in DOMAIN schema[m].fields
              THEN In(Returns(schema[m].fields[name]), "column") ELSE Raises("LookupError")
         /\ RelationOf(Metadata(enums), m, name) =
              IF name \in DOMAIN schema[m].relations
              THEN Returns(schema[m].relations[name]) ELSE Raises("LookupError")
<1>1. \A x : DOMAIN Returns(x) = {"returns"} /\ Returns(x).returns = x
  BY DEF Returns
<1>2. \A x : DOMAIN Raises(x) = {"raises"}
  BY DEF Raises
<1>3. /\ In(Part(Metadata(enums), m, "fields"), name) =
           IF name \in DOMAIN schema[m].fields THEN Returns(schema[m].fields[name]) ELSE Raises("LookupError")
      /\ In(Part(Metadata(enums), m, "relations"), name) =
           IF name \in DOMAIN schema[m].relations THEN Returns(schema[m].relations[name]) ELSE Raises("LookupError")
  BY <1>1, PartsAreFound DEF In
<1>4. In(Raises("LookupError"), "column") = Raises("LookupError")
  BY <1>2 DEF In
<1>. QED
  BY <1>3, <1>4 DEF ColumnOf, RelationOf

\* The table built from the metadata is the one that its readers look up.
LEMMA LookupsFollow == IInv => LookupsFindTheTables
<1>. SUFFICES ASSUME IInv, Built, NEW m \in Models
              PROVE  /\ \A f \in Elements(d.fields[m]) :
                          IF IsRelational(f)
                          THEN /\ ColumnOf(Metadata(<<>>), m, f.name) = Raises("LookupError")
                               /\ RelationOf(Metadata(<<>>), m, f.name) = Returns(RelationMetadata(d, m, f))
                          ELSE /\ \E c \in Elements(tables[<<m>>].columns) :
                                    ColumnOf(Metadata(<<>>), m, f.name) = Returns(c.name)
                               /\ RelationOf(Metadata(<<>>), m, f.name) = Raises("LookupError")
                     /\ PrimaryKeyColumns(Metadata(<<>>), m) = Returns(tables[<<m>>].key)
  BY DEF LookupsFindTheTables
<1>1. phase \in WithKeys /\ phase # "describe" /\ Position /\ SchemaInv
  BY DEF Built, WithKeys, Phases, Passes, IInv
<1>2. WellFormed(d) /\ m \in Elements(d.order)
  BY <1>1, DataIsWellFormed DEF Position, Models
<1>3. schema[m] = ModelMetadata(d, m) /\ m \in DOMAIN schema /\ tables[<<m>>] = Keyed(m)
  BY <1>1, AllDescribed DEF IInv, TablesInv
<1>. DEFINE spec == ModelMetadata(d, m)
            names(S) == {f.name : f \in S}
            relational == {f \in Elements(d.fields[m]) : IsRelational(f)}
            scalars == {f \in Elements(d.fields[m]) : ~IsRelational(f)}
<1>4. {"key", "fields", "relations"} \subseteq DOMAIN schema[m]
  BY <1>3 DEF ModelMetadata
<1>5. DOMAIN spec.relations = names(relational) /\ \A f \in relational : spec.relations[f.name] = RelationMetadata(d, m, f)
  BY <1>2, RelationsAreDescribed
<1>6. DOMAIN spec.fields = names(scalars)
  BY <1>2, ScalarsAreDescribed DEF ScalarNames
<1>7. \A f, g \in Elements(d.fields[m]) : f.name = g.name => f = g
  BY <1>2 DEF WellFormed, NamesAreUnique, Elements
<1>8. \A f \in relational : f.name \in DOMAIN spec.relations /\ f.name \notin DOMAIN spec.fields
  BY <1>5, <1>6, <1>7
<1>9. \A f \in scalars : f.name \in DOMAIN spec.fields /\ f.name \notin DOMAIN spec.relations
  BY <1>5, <1>6, <1>7
<1>10. ASSUME NEW f \in relational
       PROVE  /\ ColumnOf(Metadata(<<>>), m, f.name) = Raises("LookupError")
              /\ RelationOf(Metadata(<<>>), m, f.name) = Returns(RelationMetadata(d, m, f))
  BY <1>3, <1>4, <1>5, <1>8, FieldIsFound
<1>11. ASSUME NEW f \in scalars
       PROVE  /\ \E c \in Elements(tables[<<m>>].columns) : ColumnOf(Metadata(<<>>), m, f.name) = Returns(c.name)
              /\ RelationOf(Metadata(<<>>), m, f.name) = Raises("LookupError")
  <2>1. RelationOf(Metadata(<<>>), m, f.name) = Raises("LookupError")
    BY <1>3, <1>4, <1>9, FieldIsFound
  <2>2. ColumnOf(Metadata(<<>>), m, f.name) = In(Returns(spec.fields[f.name]), "column")
    BY <1>3, <1>4, <1>9, FieldIsFound
  <2>3. ResolveField(d, m, f.name) = f
    BY <1>2, FieldsResolve
  <2>4. PICK i \in DOMAIN spec.order : spec.order[i] = f.name /\ d.fields[m][i] = f
    BY <1>2, <1>9, <2>3, ScalarIsDescribed
  <2>5. spec.fields[f.name] = FieldMetadata(d, m, f)
    BY <1>2, <1>9, <2>3, ScalarIsDescribed
  <2>6. "column" \in DOMAIN spec.fields[f.name]
    BY <2>5 DEF FieldMetadata
  <2>7. In(Returns(spec.fields[f.name]), "column") = Returns(spec.fields[f.name].column)
    BY <2>6 DEF In, Returns
  <2>8. /\ i \in DOMAIN tables[<<m>>].columns
        /\ tables[<<m>>].columns[i] = BuildColumn(FieldMetadata(d, m, f), f.name \in Elements(spec.key.fields))
    BY <1>1, <1>3, <2>4, ColumnsOfModels
  <2>9. tables[<<m>>].columns[i].name = FieldMetadata(d, m, f).column
    BY <2>8 DEF BuildColumn
  <2>. QED
    BY <2>1, <2>2, <2>5, <2>7, <2>8, <2>9 DEF Elements
<1>12. PrimaryKeyColumns(Metadata(<<>>), m) = Returns(tables[<<m>>].key)
  <2>1. Part(Metadata(<<>>), m, "key") = Returns(spec.key)
    BY <1>3, <1>4, PartsAreFound
  <2>2. "columns" \in DOMAIN spec.key
    BY DEF ModelMetadata
  <2>3. PrimaryKeyColumns(Metadata(<<>>), m) = Returns(spec.key.columns)
    BY <2>1, <2>2 DEF PrimaryKeyColumns, In, Returns
  <2>4. tables[<<m>>].key = Bare(m).key /\ Bare(m).key = spec.key.columns
    BY <1>3 DEF Keyed, Bare, BuildTable
  <2>. QED
    BY <2>3, <2>4
<1>. QED
  BY <1>10, <1>11, <1>12

\* A column found by name is a column of the table.
THEOREM LookupsAreRight == Spec => []LookupsFindTheTables
BY InvariantHolds, LookupsFollow, PTL

-----------------------------------------------------------------------------
(* The rows that a program writes by hand.                                   *)

\* A scalar is found again by its column.
LEMMA FieldsAreFoundByColumn ==
  ASSUME NEW data, WellFormed(data), NEW m \in Elements(data.order),
         NEW names, names \subseteq DOMAIN ModelMetadata(data, m).fields, NEW name \in names
  PROVE  LET spec == ModelMetadata(data, m)
         IN FieldOf(spec, names, spec.fields[name].column) = name
<1>. DEFINE spec == ModelMetadata(data, m)
<1>1. ASSUME NEW one \in names, NEW two \in names, spec.fields[one].column = spec.fields[two].column
      PROVE  one = two
  <2>1. PICK i \in DOMAIN spec.order : spec.order[i] = one /\ data.fields[m][i] = ResolveField(data, m, one)
    BY ScalarIsDescribed
  <2>2. PICK j \in DOMAIN spec.order : spec.order[j] = two /\ data.fields[m][j] = ResolveField(data, m, two)
    BY ScalarIsDescribed
  <2>3. ColumnName(data.fields[m][i]) = ColumnName(data.fields[m][j])
    BY <1>1, <2>1, <2>2, ScalarIsDescribed
  <2>4. i = j
    BY <2>3, ColumnsAreUnique
  <2>. QED
    BY <2>1, <2>2, <2>4
<1>. HIDE DEF spec
<1>2. FieldOf(spec, names, spec.fields[name].column) = name
  BY <1>1 DEF FieldOf
<1>. QED
  BY <1>2 DEF spec

\* A row of the values given, and of values made for the fields added.
RowOf(metadata, spec, given, added, moment, row) ==
  /\ DOMAIN row = ColumnsOf(spec, DOMAIN given) \cup ColumnsOf(spec, added)
  /\ \A f \in DOMAIN given : row[spec.fields[f].column] = Convert(metadata, spec.fields[f], given[f])
  /\ \A f \in added : row[spec.fields[f].column] = Generated(spec.fields[f], moment)

\* Values completed with those of other fields keep their own.
LEMMA CompletionKeeps ==
  ASSUME NEW data, WellFormed(data), NEW m \in Elements(data.order),
         NEW metadata, NEW moment, NEW given, NEW added,
         DOMAIN given \subseteq DOMAIN ModelMetadata(data, m).fields,
         added \subseteq DOMAIN ModelMetadata(data, m).fields \ DOMAIN given
  PROVE  LET spec == ModelMetadata(data, m)
         IN RowOf(metadata, spec, given, added, moment,
                  Completed(spec, Translate(metadata, spec, given), added, moment))
<1>. DEFINE spec  == ModelMetadata(data, m)
            names == DOMAIN given \cup added
            values == Translate(metadata, spec, given)
            row   == Completed(spec, values, added, moment)
<1>1. \A f \in names : FieldOf(spec, names, spec.fields[f].column) = f
  BY FieldsAreFoundByColumn
<1>2. \A f \in DOMAIN given : FieldOf(spec, DOMAIN given, spec.fields[f].column) = f
  BY FieldsAreFoundByColumn
<1>3. \A f \in added : FieldOf(spec, added, spec.fields[f].column) = f
  BY FieldsAreFoundByColumn
<1>. HIDE DEF spec
<1>4. /\ DOMAIN values = ColumnsOf(spec, DOMAIN given)
      /\ \A f \in DOMAIN given : values[spec.fields[f].column] = Convert(metadata, spec.fields[f], given[f])
  BY <1>2 DEF Translate, ColumnsOf
<1>. HIDE DEF values
<1>5. /\ DOMAIN row = DOMAIN values \cup ColumnsOf(spec, added)
      /\ \A c \in DOMAIN row : row[c] = IF c \in ColumnsOf(spec, added)
                                        THEN Generated(spec.fields[FieldOf(spec, added, c)], moment) ELSE values[c]
  BY DEF Completed
<1>6. \A f \in DOMAIN given : spec.fields[f].column \notin ColumnsOf(spec, added)
  BY <1>1 DEF spec, ColumnsOf
<1>. HIDE DEF row
<1>7. \A f \in DOMAIN given : row[spec.fields[f].column] = Convert(metadata, spec.fields[f], given[f])
  BY <1>4, <1>5, <1>6 DEF ColumnsOf
<1>8. \A f \in added : row[spec.fields[f].column] = Generated(spec.fields[f], moment)
  BY <1>3, <1>5 DEF ColumnsOf
<1>9. RowOf(metadata, spec, given, added, moment, row)
  BY <1>4, <1>5, <1>7, <1>8 DEF RowOf
<1>. QED
  BY <1>9 DEF spec, row, values

\* The rows of a described model keep the caller's data.
LEMMA RowsFollow ==
  ASSUME NEW data, WellFormed(data), NEW m \in Elements(data.order),
         NEW metadata, NEW moment, NEW given, DOMAIN given \subseteq DOMAIN ModelMetadata(data, m).fields
  PROVE  /\ CreateKeepsTheData(metadata, ModelMetadata(data, m), given, moment)
         /\ UpdateKeepsTheData(metadata, ModelMetadata(data, m), given, moment)
<1>. DEFINE spec == ModelMetadata(data, m)
<1>1. CreateKeepsTheData(metadata, spec, given, moment)
  <2>. DEFINE added == FilledOnCreate(spec, given)
              row   == RowToCreate(metadata, spec, given, moment)
  <2>1. added \subseteq DOMAIN spec.fields \ DOMAIN given
    BY DEF FilledOnCreate
  <2>2. row = Completed(spec, Translate(metadata, spec, given), added, moment)
    BY DEF RowToCreate
  <2>. HIDE DEF added, row
  <2>3. RowOf(metadata, spec, given, added, moment, row)
    BY <2>1, <2>2, CompletionKeeps
  <2>5. DOMAIN given \subseteq DOMAIN spec.fields
    OBVIOUS
  <2>. HIDE DEF spec
  <2>4. ColumnsOf(spec, DOMAIN given) \cup ColumnsOf(spec, added) = ValuesForCreate(spec, DOMAIN given)
    BY <2>5 DEF ColumnsOf, ValuesForCreate, FilledOnCreate, added
  <2>. QED
    BY <2>3, <2>4 DEF CreateKeepsTheData, RowOf, row, added
<1>2. UpdateKeepsTheData(metadata, spec, given, moment)
  <2>. DEFINE added == FilledOnUpdate(spec, given)
              row   == RowToUpdate(metadata, spec, given, moment)
  <2>1. added \subseteq DOMAIN spec.fields \ DOMAIN given
    BY DEF FilledOnUpdate
  <2>2. row = Completed(spec, Translate(metadata, spec, given), added, moment)
    BY DEF RowToUpdate
  <2>. HIDE DEF added, row
  <2>3. RowOf(metadata, spec, given, added, moment, row)
    BY <2>1, <2>2, CompletionKeeps
  <2>4. \A f \in added : spec.fields[f].isUpdatedAt /\ f \in DOMAIN spec.fields \ DOMAIN given
    BY DEF FilledOnUpdate, added
  <2>5. \A f \in added : Generated(spec.fields[f], moment) = Timestamp(spec.fields[f], moment)
    BY <2>4 DEF Generated
  <2>. HIDE DEF spec
  <2>6. ASSUME NEW c \in DOMAIN row
        PROVE  \/ \E f \in DOMAIN given : spec.fields[f].column = c
               \/ \E f \in DOMAIN spec.fields \ DOMAIN given :
                    /\ spec.fields[f].column = c /\ spec.fields[f].isUpdatedAt
                    /\ row[c] = Timestamp(spec.fields[f], moment)
    BY <2>3, <2>4, <2>5 DEF ColumnsOf, RowOf
  <2>. QED
    BY <2>3, <2>6 DEF UpdateKeepsTheData, RowOf, row
<1>. QED
  BY <1>1, <1>2

\* Whatever payloads the program has, their rows keep them.
LEMMA RowsOfAllFollow ==
  ASSUME NEW CONSTANT Payloads, NEW CONSTANT Moments, NEW CONSTANT enums
  PROVE  IInv => RowsKeepTheData(Payloads, Moments, enums)
<1>. SUFFICES ASSUME IInv, phase # "describe", NEW m \in Models, NEW data \in Payloads, NEW moment \in Moments,
                     DOMAIN data \subseteq DOMAIN schema[m].fields
              PROVE  /\ CreateKeepsTheData(Metadata(enums), schema[m], data, moment)
                     /\ UpdateKeepsTheData(Metadata(enums), schema[m], data, moment)
  BY DEF RowsKeepTheData
<1>1. WellFormed(d) /\ m \in Elements(d.order) /\ SchemaInv
  BY DataIsWellFormed DEF IInv, Position, Models
<1>2. schema[m] = ModelMetadata(d, m)
  BY <1>1, AllDescribed
<1>. QED
  BY <1>1, <1>2, RowsFollow

\* What a program hands to values_for_create() and values_for_update() is what
\* it inserts, and an update makes no value but the instants.
THEOREM RowsAreTheData ==
  ASSUME NEW CONSTANT Payloads, NEW CONSTANT Moments, NEW CONSTANT enums
  PROVE  Spec => []RowsKeepTheData(Payloads, Moments, enums)
BY InvariantHolds, RowsOfAllFollow, PTL

\* Two programs whose clocks are in different zones stamp one instant alike.
THEOREM StampsAreInstants ==
  ASSUME NEW clock \in Int, NEW zone \in Int, NEW field
  PROVE  StampIsTheInstant(clock, zone, field)
<1>. DEFINE one == [clock |-> clock, zone |-> zone]
            two == [clock |-> clock - zone]
            utc == clock - zone
<1>1. utc \in Int
  OBVIOUS
<1>2. Normalise(one) = utc - (utc % 1000)
  BY DEF Normalise
<1>3. Normalise(two) = utc - (utc % 1000)
  BY DEF Normalise
<1>4. \A moment : Timestamp(field, moment).stamp = Normalise(moment)
  BY DEF Timestamp
<1>. HIDE DEF utc
<1>5. /\ utc - (utc % 1000) <= utc /\ utc < utc - (utc % 1000) + 1000
      /\ (utc - (utc % 1000)) % 1000 = 0
  BY <1>1
<1>. QED
  BY <1>2, <1>3, <1>4, <1>5 DEF StampIsTheInstant, utc

\* The name that is derived for a constraint, an index or a sequence fits the
\* limit, whatever the names it is derived from, as long as its suffix does.
THEOREM NamesFit ==
  ASSUME NEW Character, NEW base \in Seq(Character), NEW suffix \in Seq(Character),
         NEW limit \in Nat, Len(suffix) <= limit
  PROVE  NameFits(base, suffix, limit)
<1>. DEFINE cut == SubSeq(base, 1, limit - Len(suffix))
            table == TruncateIdentifier(base, <<>>, limit)
<1>1. Len(base) \in Nat /\ Len(suffix) \in Nat
  BY LenProperties
<1>2. CASE Len(base) + Len(suffix) <= limit
  <2>1. TruncateIdentifier(base, suffix, limit) = base \o suffix
    BY <1>2 DEF TruncateIdentifier
  <2>2. table = base
    BY <1>1, <1>2 DEF TruncateIdentifier
  <2>3. SubSeq(base \o suffix, Len(base \o suffix) - Len(suffix) + 1, Len(base \o suffix)) = suffix
    BY <1>1
  <2>. QED
    BY <1>1, <1>2, <2>1, <2>2, <2>3 DEF NameFits
<1>3. CASE Len(base) + Len(suffix) > limit
  <2>1. cut \in Seq(Character) /\ Len(cut) = limit - Len(suffix)
    BY <1>1, <1>3
  <2>2. TruncateIdentifier(base, suffix, limit) = cut \o suffix
    BY <1>1, <1>3 DEF TruncateIdentifier
  <2>3. Len(cut \o suffix) = limit
    BY <1>1, <2>1
  <2>4. SubSeq(cut \o suffix, Len(cut \o suffix) - Len(suffix) + 1, Len(cut \o suffix)) = suffix
    <3>. DEFINE k == Len(cut)
    <3>. HIDE DEF cut
    <3>1. cut \in Seq(Character) /\ k \in Nat /\ Len(cut \o suffix) = k + Len(suffix)
      BY <1>1, <2>1
    <3>2. Len(cut \o suffix) - Len(suffix) + 1 = k + 1
      BY <1>1, <3>1
    <3>. QED
      BY <1>1, <3>1, <3>2
  <2>5. TruncateIdentifier(table, suffix, limit) = cut \o suffix
    <3>1. CASE Len(base) <= limit
      <4>1. table = base
        BY <1>1, <3>1 DEF TruncateIdentifier
      <4>. QED
        BY <2>2, <4>1
    <3>2. CASE Len(base) > limit
      <4>. DEFINE first == SubSeq(base, 1, limit)
      <4>1. table = first
        BY <1>1, <3>2 DEF TruncateIdentifier
      <4>2. first \in Seq(Character) /\ Len(first) = limit
        BY <1>1, <3>2
      <4>3. CASE Len(suffix) = 0
        <5>1. suffix = <<>>
          BY <4>3
        <5>2. cut = first
          BY <4>3, <1>1
        <5>. QED
          BY <4>1, <4>2, <5>1, <5>2 DEF TruncateIdentifier
      <4>4. CASE Len(suffix) > 0
        <5>1. SubSeq(first, 1, limit - Len(suffix)) = cut
          BY <1>1, <3>2, <4>2
        <5>2. ~(Len(first) + Len(suffix) <= limit)
          BY <1>1, <4>2, <4>4
        <5>. QED
          BY <4>1, <5>1, <5>2 DEF TruncateIdentifier
      <4>. QED
        BY <1>1, <4>3, <4>4
    <3>. QED
      BY <1>1, <3>1, <3>2
  <2>. HIDE DEF cut, table
  <2>. QED
    BY <2>2, <2>3, <2>4, <2>5 DEF NameFits, table
<1>. QED
  BY <1>1, <1>2, <1>3

=============================================================================
