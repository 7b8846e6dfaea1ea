------------------------------ MODULE Datamodel ------------------------------
(* What the generator makes of the data model the Prisma engine sends it:   *)
(* the physical schema of prisma/generator/models.py, with the annotations  *)
(* that only the text of schema.prisma carries (generator/_native_types.py).*)
(* A data model d is a record:                                              *)
(*   d.order      the models, in the order of the schema                    *)
(*   d.fields[m]  the fields of model m, in the order of the schema         *)
(*   d.id[m]      the fields of its @@id, <<>> without one                  *)
(*   d.idMap[m]   the name that @@id(map:) or @id(map:) gives the key       *)
(*   d.indexes[m] its indexes, uniques and ids, as the engine lists them    *)
(*   d.mode       the datasource's relationMode                             *)
(*   d.enums      the names of the enums                                    *)
(* Models are numbers, which are ordered as their names are.                *)
EXTENDS Naturals, SequencesExt

NoName  == ""
NoModel == 0

\* The elements of a sequence, in any order.
Elements(s) == {s[i] : i \in DOMAIN s}

\* The values of f that are in S, in the order of their positions.
Keep(f, S) ==
  LET kept == SetToSortSeq({i \in DOMAIN f : f[i] \in S}, <) IN [n \in DOMAIN kept |-> f[kept[n]]]

-----------------------------------------------------------------------------
(* The text of the schema. A field's line says which annotations it carries *)
(* and whether a string literal before them holds two slashes.              *)

\* Everything from the first // of a line is a comment, in a string or not.
StripComments(line) ==
  IF line.slashes THEN [line EXCEPT !.native = NoName, !.map = NoName, !.onUpdate = NoName]
                  ELSE line

ParseNativeType(f) == StripComments(f.line).native
ParseMap(f)        == StripComments(f.line).map
ParseOnUpdate(f)   == StripComments(f.line).onUpdate

-----------------------------------------------------------------------------
(* Fields and keys.                                                         *)

IsRelational(f) == f.relation # NoName

ColumnName(f) == IF f.dbName # NoName THEN f.dbName ELSE f.name

ResolveField(d, m, name) == CHOOSE f \in Elements(d.fields[m]) : f.name = name

Columns(d, m, names) == [i \in DOMAIN names |-> ColumnName(ResolveField(d, m, names[i]))]

\* The field at the first of those positions.
FieldAtFirst(d, m, positions) == d.fields[m][CHOOSE i \in positions : \A j \in positions : i <= j]

\* @@id, or else the first field with @id, or nothing.
PrimaryKeyFields(d, m) ==
  LET ids == {i \in DOMAIN d.fields[m] : d.fields[m][i].isId}
  IN IF d.id[m] # <<>> THEN d.id[m]
     ELSE IF ids # {} THEN <<FieldAtFirst(d, m, ids).name>> ELSE <<>>

\* What a caller of create() must supply.
RequiredOnCreate(f) ==
  f.isRequired /\ ~f.isUpdatedAt /\ f.default.kind = "none" /\ ~IsRelational(f) /\ ~f.isList

IsAutoincrement(default) == default.kind = "generator" /\ default.name = "autoincrement"

SequenceForNone(d, m, f) == <<>>         \* every autoincrement() left to SERIAL

\* A sequence is named only where PostgreSQL's SERIAL does not create one.
SequenceFor(d, m, f) ==
  IF IsAutoincrement(f.default) /\ f.name \notin Elements(PrimaryKeyFields(d, m))
  THEN <<m, ColumnName(f), "_seq">> ELSE <<>>

-----------------------------------------------------------------------------
(* Relations.                                                               *)

RelatedFieldOrItself(d, m, f) ==         \* the field itself not excluded
  LET candidates == {i \in DOMAIN d.fields[f.type] : d.fields[f.type][i].relation = f.relation}
  IN IF candidates = {} THEN <<>> ELSE <<FieldAtFirst(d, f.type, candidates)>>

\* The fields that get_related_field() looks through.
Candidates(d, m, f) ==
  {i \in DOMAIN d.fields[f.type] : /\ d.fields[f.type][i].relation = f.relation
                                  /\ <<f.type, d.fields[f.type][i].name>> # <<m, f.name>>}

\* The other side: the first field of the related model with the relation's
\* name that is not this field itself. Empty when there is none.
RelatedField(d, m, f) ==
  LET candidates == Candidates(d, m, f)
  IN IF candidates = {} THEN <<>> ELSE <<FieldAtFirst(d, f.type, candidates)>>

\* Which columns of the join table each side of a many-to-many is found in.
ImplicitJoin(m, f) ==
  LET first == m < f.type
  IN IF m = f.type
     THEN [table |-> <<"_", f.relation>>, self |-> NoName, other |-> NoName, ambiguous |-> TRUE]
     ELSE [table |-> <<"_", f.relation>>, ambiguous |-> FALSE,
           self  |-> IF first THEN "A" ELSE "B",
           other |-> IF first THEN "B" ELSE "A"]

NoJoin == [table |-> <<>>, self |-> NoName, other |-> NoName, ambiguous |-> FALSE]

\* The model whose table holds the foreign key of f's relation.
KeyHolder(d, m, f) ==
  LET back == RelatedField(d, m, f)
  IN IF f.from # <<>> THEN m
     ELSE IF back # <<>> /\ Head(back).from # <<>> THEN f.type ELSE NoModel

Shape(d, m, f) ==
  LET back == RelatedField(d, m, f)
  IN IF f.isList /\ back # <<>> /\ Head(back).isList THEN "many-to-many"
     ELSE IF f.isList THEN "to-many"
     ELSE IF f.from # <<>> THEN "to-one-owner" ELSE "to-one-inverse"

\* The foreign key as both sides of the relation report it. g is its owning
\* field, in model n.
ForeignKey(d, n, g) ==
  [fields     |-> g.from,
   columns    |-> Columns(d, n, g.from),
   references |-> g.to,
   refColumns |-> Columns(d, g.type, g.to),
   required   |-> \A name \in Elements(g.from) : ResolveField(d, n, name).isRequired,
   onDelete   |-> g.onDelete,
   onUpdate   |-> ParseOnUpdate(g)]

NoForeignKey == [fields |-> <<>>, columns |-> <<>>, references |-> <<>>, refColumns |-> <<>>,
                 required |-> FALSE, onDelete |-> NoName, onUpdate |-> NoName]

\* The constraint is named by @relation(map:), or after table and columns.
ForeignKeyName(d, m, f) ==
  IF ParseMap(f) # NoName THEN <<ParseMap(f)>> ELSE <<m, Columns(d, m, f.from), "_fkey">>

RelationMetadata(d, m, f) ==
  LET back   == RelatedField(d, m, f)
      holder == KeyHolder(d, m, f)
      owner  == f.from # <<>>
      shape  == Shape(d, m, f)
  IN [to       |-> f.type,
      shape    |-> shape,
      isList   |-> f.isList,
      owner    |-> owner,
      back     |-> IF back = <<>> THEN NoName ELSE Head(back).name,
      fkModel  |-> holder,
      fk       |-> IF holder = NoModel THEN NoForeignKey
                   ELSE ForeignKey(d, holder, IF owner THEN f ELSE Head(back)),
      fkName   |-> IF owner THEN ForeignKeyName(d, m, f) ELSE <<>>,
      mode     |-> d.mode,
      join     |-> IF shape = "many-to-many" THEN ImplicitJoin(m, f) ELSE NoJoin]

-----------------------------------------------------------------------------
(* One model of metadata.SCHEMA.                                            *)

FieldMetadata(d, m, f) ==
  [column |-> ColumnName(f), kind |-> f.kind, type |-> f.type, isList |-> f.isList,
   nullable |-> ~f.isRequired, isUpdatedAt |-> f.isUpdatedAt, default |-> f.default,
   native |-> ParseNativeType(f), sequence |-> SequenceFor(d, m, f)]

IndexColumns(d, m, index) == [i \in DOMAIN index.fields |->
                               ColumnName(ResolveField(d, m, index.fields[i].name))]

\* Uniques and plain indexes alike: an index of another type is its own name.
IndexMetadata(d, m, index) ==
  [name      |-> IF index.dbName # NoName THEN <<index.dbName>>
                 ELSE <<m, IndexColumns(d, m, index),
                        IF index.type = "unique" THEN "_key" ELSE "_idx">>,
   unique    |-> index.type = "unique",
   columns   |-> IndexColumns(d, m, index),
   fields    |-> index.fields,
   algorithm |-> index.algorithm]

\* The ids are reported as keys, never as indexes.
Indexes(d, m) == {IndexMetadata(d, m, i) : i \in {j \in Elements(d.indexes[m]) : j.type # "id"}}

\* The scalars keep the positions they have among the fields.
ModelMetadata(d, m) ==
  LET scalars   == {i \in DOMAIN d.fields[m] : ~IsRelational(d.fields[m][i])}
      relations == {i \in DOMAIN d.fields[m] : IsRelational(d.fields[m][i])}
      key       == PrimaryKeyFields(d, m)
  IN [table     |-> <<m>>,
      key       |-> [dbName |-> d.idMap[m], fields |-> key, columns |-> Columns(d, m, key)],
      order     |-> [i \in scalars |-> d.fields[m][i].name],
      fields    |-> [name \in {d.fields[m][i].name : i \in scalars} |->
                       FieldMetadata(d, m, ResolveField(d, m, name))],
      relations |-> [name \in {d.fields[m][i].name : i \in relations} |->
                       RelationMetadata(d, m, ResolveField(d, m, name))],
      indexes   |-> Indexes(d, m)]

-----------------------------------------------------------------------------
(* What the Prisma engine has checked before it calls the generator, and the *)
(* generator relies on: it asserts it, or looks things up with no default.   *)

NamesAreUnique(d, m) ==
  \A i, j \in DOMAIN d.fields[m] :
    LET f == d.fields[m][i]
        g == d.fields[m][j]
    IN f.name = g.name \/ (~IsRelational(f) /\ ~IsRelational(g) /\ ColumnName(f) = ColumnName(g)) => i = j

ScalarNames(d, m) == {f.name : f \in {g \in Elements(d.fields[m]) : ~IsRelational(g)}}

KeysAreScalars(d, m) ==
  /\ Elements(PrimaryKeyFields(d, m)) \subseteq ScalarNames(d, m)
  /\ \A f \in Elements(d.fields[m]) :
       f.from # <<>> => /\ IsRelational(f)
                        /\ Elements(f.from) \subseteq ScalarNames(d, m)
                        /\ Elements(f.to) \subseteq ScalarNames(d, f.type)

\* autoincrement() is for integers.
DefaultsFit(d, m) ==
  \A f \in Elements(d.fields[m]) :
    /\ f.default.kind \in {"none", "literal", "generator"}
    /\ IsAutoincrement(f.default) => /\ f.kind = "scalar" /\ ~f.isList /\ f.type \in {"Int", "BigInt"}
                                     /\ f.line.native \in {NoName, "SmallInt", "Integer", "BigInt"}

\* Two fields carry the name of a relation, each of the other's model. At most
\* one of them holds the foreign key, and neither does when both are lists.
RelationsHaveTwoSides(d, m) ==
  \A f \in {g \in Elements(d.fields[m]) : IsRelational(g)} :
    /\ f.type \in Elements(d.order)
    /\ \E i \in DOMAIN d.fields[f.type] :
         LET g == d.fields[f.type][i]
         IN /\ Candidates(d, m, f) = {i}
            /\ g.type = m
            /\ f.from = <<>> \/ g.from = <<>>
            /\ f.from = <<>> /\ g.from = <<>> <=> f.isList /\ g.isList

\* Constraints of a table, and tables of the database, have names of their own.
ConstraintNamesAreUnique(d, m) ==
  \A f, g \in {h \in Elements(d.fields[m]) : h.from # <<>>} :
    ForeignKeyName(d, m, f) = ForeignKeyName(d, m, g) => f = g

JoinNamesAreUnique(d, m, n) ==
  \A f \in Elements(d.fields[m]), g \in Elements(d.fields[n]) :
    /\ IsRelational(f) /\ f.relation = g.relation
    /\ Shape(d, m, f) = "many-to-many" /\ Shape(d, n, g) = "many-to-many"
    => {m, f.type} = {n, g.type}

WellFormed(d) ==
  LET models == Elements(d.order)
  IN /\ d.order \in Seq(Nat \ {NoModel}) /\ d.order # <<>>
     /\ \A i, j \in DOMAIN d.order : d.order[i] = d.order[j] => i = j
     /\ \A m \in models :
          /\ d.fields[m] \in Seq(Elements(d.fields[m]))
          /\ NamesAreUnique(d, m) /\ KeysAreScalars(d, m) /\ DefaultsFit(d, m)
          /\ RelationsHaveTwoSides(d, m) /\ ConstraintNamesAreUnique(d, m)
          /\ \A n \in models : JoinNamesAreUnique(d, m, n)

=============================================================================
