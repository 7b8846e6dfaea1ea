------------------------------- MODULE MCSchema -------------------------------
(* Data models of two models, Parent (1) and Child (2), for TLC: every kind  *)
(* of key and relation between them, and every kind of default, type and     *)
(* index on a column of Parent.                                              *)
EXTENDS Accessors

NoLine     == [slashes |-> FALSE, native |-> NoName, map |-> NoName, onUpdate |-> NoName]
None       == [kind |-> "none", name |-> NoName, version |-> NoName, args |-> <<>>, value |-> NoName]
Generator(name, version, args) ==
  [None EXCEPT !.kind = "generator", !.name = name, !.version = version, !.args = args]
Literal(value) == [None EXCEPT !.kind = "literal", !.value = value]

Scalar(name, type, default) ==
  [name |-> name, dbName |-> NoName, kind |-> "scalar", type |-> type, isList |-> FALSE,
   isRequired |-> TRUE, isId |-> FALSE, isUpdatedAt |-> FALSE, default |-> default,
   relation |-> NoName, from |-> <<>>, to |-> <<>>, onDelete |-> NoName, line |-> NoLine]

Autoincrement == Generator("autoincrement", NoName, <<>>)

\* Keys: SERIAL, a plain integer, a cuid, two columns in the other order, none.
KeyKinds == {"serial", "int", "cuid", "reversed", "none"}

KeyColumns(kind) ==
  LET id(default, type) == <<[Scalar("id", type, default) EXCEPT !.isId = (kind # "none"), !.dbName = "ID"]>>
  IN CASE kind = "serial"   -> id(Autoincrement, "Int")
       [] kind = "int"      -> id(None, "Int")
       [] kind = "cuid"     -> id(Generator("cuid", "1", <<>>), "String")
       [] kind = "none"     -> id(None, "String")
       [] kind = "reversed" -> <<Scalar("a", "String", None), Scalar("b", "Int", None)>>

Identifier(kind) == IF kind = "reversed" THEN <<"a", "b">> ELSE <<"id">>

\* The columns of a foreign key to a key of that kind, and how many may be null.
KeyFields(prefix, kind, nulls) ==
  LET field(i) == [Scalar(prefix[i], IF i = 1 THEN "String" ELSE "Int", None) EXCEPT
                     !.isRequired = (nulls = "none" \/ (nulls = "some" /\ i = 1))]
  IN [i \in 1 .. Len(Identifier(kind)) |-> field(i)]

Object(name, type, relation, isList, isRequired) ==
  [Scalar(name, type, None) EXCEPT !.kind = "object", !.isList = isList, !.relation = relation,
                                   !.isRequired = isRequired]

\* A relation from owner's side to Parent.
Relations == [owner : {1, 2}, card : {"1-1", "1-n", "n-n"}, nulls : {"none", "some", "all"},
              onDelete : {NoName, "SetNull"}, onUpdate : {NoName, "Restrict"}]

Sides(r, name, prefix, here, there, kind) ==
  LET names == [i \in 1 .. Len(Identifier(kind)) |-> prefix[i]]
      owning == [Object(here, 1, name, r.card = "n-n", r.nulls = "none") EXCEPT
                   !.from = IF r.card = "n-n" THEN <<>> ELSE names,
                   !.to = IF r.card = "n-n" THEN <<>> ELSE Identifier(kind),
                   !.onDelete = IF r.card = "n-n" THEN NoName ELSE r.onDelete,
                   !.line = IF r.card = "n-n" THEN NoLine ELSE [NoLine EXCEPT !.onUpdate = r.onUpdate]]
  IN [owning  |-> (IF r.card = "n-n" THEN <<>> ELSE KeyFields(prefix, kind, r.nulls)) \o <<owning>>,
      inverse |-> <<Object(there, r.owner, name, r.card # "1-1", r.card # "1-1")>>]

NoSides == [owning |-> <<>>, inverse |-> <<>>]

\* Two models with keys of the given kinds, Parent with one more column and one
\* more index, and the sides of two relations.
Schemata(kinds, extra, r, one, two, mode, idMap, index, enums) ==
  [order   |-> <<1, 2>>,
   fields  |-> [m \in {1, 2} |->
                 KeyColumns(kinds[m]) \o (IF m = 1 THEN extra ELSE <<>>)
                   \o (IF m = r.owner THEN one.owning \o two.owning ELSE <<>>)
                   \o (IF m = 1 THEN one.inverse \o two.inverse ELSE <<>>)],
   id      |-> [m \in {1, 2} |-> IF kinds[m] = "reversed" THEN <<"b", "a">> ELSE <<>>],
   idMap   |-> [m \in {1, 2} |-> IF m = 1 THEN idMap ELSE NoName],
   indexes |-> [m \in {1, 2} |-> IF m = 1 THEN index ELSE <<>>],
   mode    |-> mode,
   enums   |-> enums]

OneToMany == [owner |-> 2, card |-> "1-n", nulls |-> "none", onDelete |-> NoName, onUpdate |-> NoName]

\* Prisma refuses a many-to-many between models without a key of one field.
Legal(kinds, r) ==
  r.card = "n-n" => /\ \A m \in {1, r.owner} : kinds[m] \in {"serial", "int", "cuid"}
                    /\ r.nulls = "all" /\ r.onDelete = NoName /\ r.onUpdate = NoName

Prefix == <<"x", "y">>
Prefix2 == <<"v", "w">>

\* Every relation, with and without a second one between the same models.
Related ==
  {Schemata(c[1], <<>>, c[2], Sides(c[2], "R", Prefix, "up", "down", c[1][1]),
            IF c[3] THEN Sides([OneToMany EXCEPT !.owner = c[2].owner], "S", Prefix2, "boss", "staff", c[1][1])
            ELSE NoSides,
            c[4], NoName, <<>>, {}) :
     c \in {b \in [{1, 2} -> KeyKinds] \X Relations \X BOOLEAN \X {"foreignKeys", "prisma", "other"} :
              Legal(b[1], b[2])}}

Member(sort, length, ops) == [name |-> "n", sort |-> sort, length |-> length, ops |-> ops]
Index(type, member) == <<[type |-> type, fields |-> <<member>>, dbName |-> NoName, algorithm |-> NoName]>>
IndexKinds ==
  {<<>>, Index("unique", Member(NoName, FALSE, NoName)), Index("normal", Member("Desc", FALSE, NoName)),
   Index("normal", Member(NoName, FALSE, "JsonbOps")), Index("normal", Member(NoName, FALSE, "OddOps")),
   Index("normal", Member("Desc", FALSE, "JsonbOps")), Index("normal", Member(NoName, TRUE, NoName)),
   Index("id", Member(NoName, FALSE, NoName))}

\* One more column n of Parent.
Extras ==
  LET Of(type, default) == Scalar("n", type, default)
      Native(f, native, slashes) == [f EXCEPT !.line = [NoLine EXCEPT !.native = native, !.slashes = slashes]]
      stamp == [Of("DateTime", None) EXCEPT !.isUpdatedAt = TRUE]
  IN {Of("Int", Autoincrement), [Of("BigInt", Autoincrement) EXCEPT !.dbName = "N"],
      Native(Of("Int", Autoincrement), "SmallInt", FALSE), Of("String", None),
      Of("String", Generator("uuid", "7", <<>>)), Of("String", Generator("cuid", "2", <<>>)),
      Of("String", Generator("ulid", NoName, <<>>)), Of("String", Generator("nanoid", NoName, <<>>)),
      Of("String", Generator("dbgenerated", NoName, <<>>)), Of("String", Generator("dbgenerated", NoName, <<"f()">>)),
      Of("String", Generator("unheard of", NoName, <<>>)),
      Of("DateTime", Generator("now", NoName, <<>>)), stamp, Native(stamp, "Date", FALSE),
      Native(Of("DateTime", Generator("now", NoName, <<>>)), "Timestamptz", FALSE),
      Native(Of("String", None), "VarChar", FALSE), Native(Of("String", Literal("a//b")), "VarChar", TRUE),
      Native(Of("String", None), "Unheard", FALSE),
      [Of("Role", Literal("ADMIN")) EXCEPT !.kind = "enum"],
      [Of("String", Literal("[]")) EXCEPT !.isList = TRUE],
      [Of("Int", None) EXCEPT !.isRequired = FALSE, !.dbName = "N"],
      [Of("String", None) EXCEPT !.name = "metadata"], [Of("String", None) EXCEPT !.name = "class"]}

\* Every column, key and index of Parent, beside a one-to-many.
Described ==
  {LET extra == c[3]
   IN Schemata([m \in {1, 2} |-> IF m = 1 THEN c[1] ELSE "serial"], <<extra>>, OneToMany,
               Sides(OneToMany, "R", Prefix, "up", "down", c[1]), NoSides, NoName, c[2],
               IF extra.name = "n" THEN c[4] ELSE <<>>, c[5]) :
     c \in KeyKinds \X {NoName, "key"} \X Extras \X IndexKinds \X {{}, {1}}}

\* Of the sequences that Parent's column may draw from, n and N, one is lower-case.
LowerCaseSequences == {<<1, "n", "_seq">>}

AllDatamodels == Related \cup Described

-----------------------------------------------------------------------------
(* Rows written by hand, for every column of Parent and every choice of the  *)
(* fields a caller gives.                                                    *)

Labels == [models |-> <<>>, enums |-> BuildEnumMetadata([Role |-> [ADMIN |-> "adm", USER |-> NoName]]), provider |-> "postgresql"]

PayloadsOf(spec) ==
  LET value(f) == [plain |-> IF spec.fields[f].kind = "enum" THEN "ADMIN" ELSE "v"]
  IN {[f \in names |-> value(f)] : names \in SUBSET DOMAIN spec.fields}

\* Milliseconds and what is below them, in zones ahead of and behind UTC.
Moments == [clock : {0, 1, 999, 1000, 1234567}, zone : {-3600000, 0, 500}]

ASSUME RowsAssumption ==
  \A data \in {x \in Described : x.id[1] = <<>> /\ x.indexes[1] = <<>>} :
    LET spec == ModelMetadata(data, 1)
    IN \A given \in PayloadsOf(spec) :
         /\ TranslateErrors(Labels, spec, given) = {}
         /\ CreateKeepsTheData(Labels, spec, given, [clock |-> 1234567])
         /\ UpdateKeepsTheData(Labels, spec, given, [clock |-> 1234567])
         /\ UpdateRefused(spec, given) => CreateRefused(spec, DOMAIN given)

ASSUME StampsAssumption ==
  \A moment \in Moments, native \in {NoName, "Timestamptz"} :
    StampIsTheInstant(moment.clock, moment.zone, [native |-> native])

\* Names of up to four characters for a limit of three.
ASSUME NamesAssumption ==
  LET Names == UNION {[1..n -> {"a", "b"}] : n \in 0..4}
  IN /\ \A base \in Names, suffix \in {x \in Names : Len(x) <= 3} : NameFits(base, suffix, 3)
     /\ EnumLabel(Labels, "Role", "USER") = Returns("USER")

\* What is refused: a relation, a member that no enum has, an atomic operation.
ASSUME RefusalsAssumption ==
  LET spec(type) == [fields |-> [n |-> [column |-> "n", kind |-> "enum", type |-> type, isList |-> FALSE]]]
  IN /\ IsAvailable(Labels) /\ GetProvider(Labels) = Returns("postgresql")
     /\ ~IsAvailable(<<>>) /\ GetProvider(<<>>) = Raises("SchemaNotAvailableError")
     /\ TranslateErrors(Labels, spec("Role"), [n |-> [plain |-> "adm"]]) = {"LookupError"}
     /\ TranslateErrors(Labels, spec("Role"), [up |-> [plain |-> "v"]]) = {"LookupError"}
     /\ TranslateErrors(Labels, spec("Role"), [n |-> [operation |-> "set"]]) = {"NotImplementedError"}
     /\ TranslateErrors(<<>>, spec("Role"), [n |-> [plain |-> "ADMIN"]]) = {"SchemaNotAvailableError"}

=============================================================================
