--------------------------------- MODULE Types ---------------------------------
(***************************************************************************)
(* The arguments that a type checker lets a program write: the TypedDicts  *)
(* of types.py (types.py.jinja, generator/schema.py), and a walk through   *)
(* them from the parameters of the generated methods, one key at a time.   *)
(* Most type checkers know no recursive types, so that these are unrolled: *)
(* each has copies down to recursive_type_depth, and the names of the      *)
(* copies are put together in the templates.                               *)
(*                                                                         *)
(* A definition is a name and its rows; a row is a key and `to`, the names *)
(* of the TypedDicts that a value under the key may be: {} for scalars,    *)
(* enums and Dict[str, Any].  A Union of TypedDicts has the rows of all.   *)
(***************************************************************************)
EXTENDS Integers, Sequences, TLC

CONSTANTS
  Schema,    \* the models in order: [name, fields, keys]; a field is [name, type, relation,
             \* list, required, default, readOnly, unique, back, from], where `back` names the
             \* other side of a relation and `from` the foreign keys that it keeps in its
             \* model; a compound key is [name, fields]
  Enums,     \* names of the enums
  Configs,   \* [depth, provider, scalarsOnly]: options of a generated client
  MaxLevel   \* bound: nested includes of a walk

VARIABLES
  config,  \* how the client was generated
  at,      \* the name of the type of the value that is written
  means,   \* ghost: what the engine takes at this place
  level    \* how many includes it is nested in

walkVars == <<config, at, means, level>>

Numbers     == {"Int", "BigInt", "Float"}
FilterTypes == {"String", "Bytes", "DateTime", "Boolean", "Json", "Decimal"} \cup Numbers

Models           == {Schema[i] : i \in DOMAIN Schema}
ModelOf(name)    == CHOOSE model \in Models : model.name = name
Relations(model) == {f \in model.fields : f.relation}
Scalars(model)   == model.fields \ Relations(model)
Names(things)    == {x.name : x \in things}

\* What the DMMF and the validator of the options (models.py:1127) promise.
ASSUME SchemaAssumption ==
  /\ Schema \in Seq(Models)
  /\ \A m \in Models, n \in Models : m.name = n.name => m = n
  /\ \A m \in Models : \A f \in m.fields :
       /\ f.type \in IF f.relation THEN Names(Models) ELSE FilterTypes \cup Enums
       /\ f.relation => \E g \in Relations(ModelOf(f.type)) : g.type = m.name /\ g.name = f.back /\ g.back = f.name
ASSUME DepthAssumption == \A c \in Configs : c.depth \in Int /\ (c.depth = -1 \/ c.depth > 1)

\* Names are put together from pieces.
a ++ b == a \o b

Type(name, rows) == [name |-> name, rows |-> rows]
Row(key, to)     == [key |-> key, to |-> to]
Leaves(keys)     == {Row(k, {}) : k \in keys}
To(keys, name)   == {Row(k, {name}) : k \in keys}

-----------------------------------------------------------------------------
(* The copies of a recursive type: 0 is the type, the last has no next.    *)

Copies(c)     == IF c.depth = -1 THEN {0} ELSE 0 .. (c.depth - 1)
Copy(base, n) == IF n = 0 THEN base ELSE base ++ "Recursive" ++ ToString(n)

HasNextPast(c, n) == c.depth = -1 \/ n < c.depth        \* slip: the last has one too
HasNext(c, n)     == c.depth = -1 \/ n < c.depth - 1
Following(c, n)   == IF c.depth = -1 THEN 0 ELSE n + 1

Unrolled(c, base, n, keys) == IF HasNext(c, n) THEN To(keys, Copy(base, Following(c, n))) ELSE {}

-----------------------------------------------------------------------------
(* Filters of scalars.                                                     *)

Comparisons == {"equals", "not_in", "lt", "lte", "gt", "gte", "in"}

Operators(c, type) ==
  IF type = "String"       THEN Comparisons \cup {"contains", "startswith", "endswith"}
                                \cup {k \in {"mode"} : c.provider \in {"postgresql", "cockroachdb", "mongodb"}}
                                \cup {k \in {"search"} : c.provider \in {"postgresql", "mysql"}}
  ELSE IF type = "Boolean" THEN {"equals"}
  ELSE IF type = "Bytes"   THEN {"equals", "in", "not_in"}
  ELSE IF type = "Json"    THEN {"equals", "not"}
  ELSE Comparisons

FilterRows(c, type, n) ==
  Leaves(Operators(c, type)) \cup (IF type = "Json" THEN {} ELSE Unrolled(c, type ++ "Filter", n, {"not"}))
FilterCopies(c, type) == IF type = "Json" THEN {0} ELSE Copies(c)

\* The filters of groups: those of Decimal are derived from StringFilter.
AggregateRows(c, type) ==
  FilterRows(c, IF type = "Decimal" THEN "String" ELSE type, 0)
  \cup To({"_max", "_min", "_sum", "_avg"}, type ++ "Filter") \cup To({"_count"}, "Int" ++ "Filter")

ListTypes(c, type) ==
  {Type(type ++ "ListFilter", Leaves({"equals", "has", "has_every", "has_some", "is_empty"})),
   Type(type ++ "ListUpdate", Leaves({"set"} \cup {k \in {"push"} : c.provider # "cockroachdb"}))}

AtomicInput(type) == Type("Atomic" ++ type ++ "Input", Leaves({"set", "divide", "multiply", "increment", "decrement"}))

ScalarTypes(c) ==
  (UNION {{Type(Copy(type ++ "Filter", n), FilterRows(c, type, n)) : n \in FilterCopies(c, type)}
            : type \in FilterTypes \ {"BigInt"}})
  \cup {Type(type ++ "WithAggregatesFilter", AggregateRows(c, type)) : type \in FilterTypes \ {"BigInt"}}
  \cup {Type("BigInt" ++ "Filter", FilterRows(c, "Int", 0)), Type("BigInt" ++ "WithAggregatesFilter", AggregateRows(c, "Int"))}
  \cup {AtomicInput(type) : type \in Numbers}
  \cup UNION {ListTypes(c, type) : type \in FilterTypes \cup Enums}

-----------------------------------------------------------------------------
(* The types of a model.  Which type a field has, by the kind of the input:*)

CreateInputType(f) ==
  IF ~f.relation THEN {}
  ELSE {f.type ++ (IF f.list THEN "CreateManyNestedWithoutRelationsInput" ELSE "CreateNestedWithoutRelationsInput")}

UpdateInputType(f) ==
  IF f.relation               THEN {f.type ++ (IF f.list THEN "UpdateManyWithoutRelationsInput"
                                               ELSE "UpdateOneWithoutRelationsInput")}
  ELSE IF f.list              THEN {f.type ++ "ListUpdate"}
  ELSE IF f.type \in Numbers  THEN {"Atomic" ++ f.type ++ "Input"}
  ELSE {}

WhereInputType(f) ==
  IF f.relation                  THEN {f.type ++ (IF f.list THEN "ListRelationFilter" ELSE "RelationFilter")}
  ELSE IF f.list                 THEN {f.type ++ "ListFilter"}
  ELSE IF f.type \in FilterTypes THEN {f.type ++ "Filter"}
  ELSE {}

WhereAggregatesInputType(f) == IF f.type \in FilterTypes THEN {f.type ++ "WithAggregatesFilter"} ELSE {}

RequiredOnCreate(f) == f.required /\ ~f.default /\ ~f.relation /\ ~f.list

Written(c, fields) == {f \in fields : ~(c.scalarsOnly /\ f.relation)}

CreateInput(c, name, infix, fields) ==
  LET rows(written) == {Row(f.name, CreateInputType(f)) : f \in written}
      required == {f \in fields : RequiredOnCreate(f) /\ ~f.readOnly}
      optional == rows(fields \ required)
  IN {Type(name ++ "Optional" ++ infix, optional), Type(name ++ infix, optional \cup rows(required))}

CreateTypes(c, model) ==
  LET m == model.name
      nested == To({"create"}, m ++ "CreateWithoutRelationsInput") \cup To({"connect"}, m ++ "WhereUniqueInput")
                \cup To({"connect_or_create"}, m ++ "ConnectOrCreateWithoutRelationsInput")
  IN CreateInput(c, m, "CreateInput", Written(c, model.fields))
     \cup CreateInput(c, m, "CreateWithoutRelationsInput", Scalars(model))
     \cup {Type(m ++ "ConnectOrCreateWithoutRelationsInput",
                To({"create"}, m ++ "CreateWithoutRelationsInput") \cup To({"where"}, m ++ "WhereUniqueInput")),
           Type(m ++ "CreateNestedWithoutRelationsInput", nested),
           Type(m ++ "CreateManyNestedWithoutRelationsInput", nested)}

WhereUnique(model) ==
  LET m == model.name
      inner(key) == "_" ++ m ++ "Compound" ++ key.name ++ "KeyInner"
  IN {Type(inner(key), Leaves(key.fields)) : key \in model.keys}
     \cup {Type(m ++ "WhereUniqueInput",
                Leaves(Names({f \in Scalars(model) : f.unique})) \cup {Row(key.name, {inner(key)}) : key \in model.keys})}

UpdateTypes(c, model) ==
  LET m == model.name
      linked == To({"create"}, m ++ "CreateWithoutRelationsInput")
                \cup To({"connect_or_create"}, m ++ "ConnectOrCreateWithoutRelationsInput")
      rows(fields) == {Row(f.name, UpdateInputType(f)) : f \in {x \in fields : ~x.readOnly}}
  IN {Type(m ++ "UpdateInput", rows(Written(c, model.fields))),
      Type(m ++ "UpdateManyMutationInput", rows(Scalars(model))),
      Type(m ++ "UpdateManyWithoutRelationsInput",
           linked \cup To({"connect", "set", "disconnect", "delete"}, m ++ "WhereUniqueInput")),
      Type(m ++ "UpdateOneWithoutRelationsInput",
           linked \cup To({"connect"}, m ++ "WhereUniqueInput") \cup Leaves({"disconnect", "delete"})),
      Type(m ++ "UpsertInput", To({"create"}, m ++ "CreateInput") \cup To({"update"}, m ++ "UpdateInput"))}

OrderBy(c, model) ==
  LET m == model.name
      relevance == "_" ++ m ++ "_RelevanceInner"
      searched == c.provider \in {"postgresql", "mysql"}
  IN {Type(relevance, Leaves({"fields", "search", "sort"})) : x \in {y \in {m} : searched}}
     \cup {Type(m ++ "OrderByInput",
                Leaves(Names(Scalars(model))) \cup To({k \in {"_relevance"} : searched}, relevance))}

\* Without recursive types a filter ends at a relation, with Dict[str, Any].
RelationFilters(c, model) ==
  LET where(keys) == IF c.depth = -1 THEN To(keys, model.name ++ "WhereInput") ELSE Leaves(keys)
  IN {Type(model.name ++ "RelationFilter", where({"is", "is_not"})),
      Type(model.name ++ "ListRelationFilter", where({"some", "none", "every"}))}

\* The arguments of a relation of `related`, in the types of `model`.
RelationalArgsType(f, model) ==
  IF f.list THEN "FindMany" ++ f.type ++ "ArgsFrom" ++ model.name ELSE f.type ++ "ArgsFrom" ++ model.name
RelationRows(model, related, n) == {Row(f.name, {Copy(RelationalArgsType(f, model), n)}) : f \in Relations(related)}

Include(c, model) ==
  {Type(model.name ++ "Include", IF c.scalarsOnly THEN {} ELSE RelationRows(model, model, 0))}

\* The include of the relational arguments.  (Slip: always the first copy.)
NextIncludeFirst(c, related, n) == related ++ "IncludeFrom" ++ related
NextInclude(c, related, n)      == Copy(related ++ "IncludeFrom" ++ related, Following(c, n))

ArgsRows(c, related, n) == IF HasNext(c, n) THEN To({"include"}, NextInclude(c, related, n)) ELSE {}
FindManyRows(c, related, n) ==
  Leaves({"take", "skip", "distinct"}) \cup To({"order_by"}, related ++ "OrderByInput")
  \cup To({"where"}, related ++ "WhereInput") \cup To({"cursor"}, related ++ "WhereUniqueInput")
  \cup ArgsRows(c, related, n)

RelationalArgs(c, model, related) ==
  LET m == model.name
      r == related.name
  IN {Type(Copy(r ++ "IncludeFrom" ++ m, n),
           IF HasNext(c, n) THEN RelationRows(model, related, Following(c, n)) ELSE {}) : n \in Copies(c)}
     \cup {Type(Copy(r ++ "ArgsFrom" ++ m, n), ArgsRows(c, r, n)) : n \in Copies(c)}
     \cup {Type(Copy("FindMany" ++ r ++ "ArgsFrom" ++ m, n), FindManyRows(c, r, n)) : n \in Copies(c)}

\* The aliases at the end of a model's relational types.
FindArgs(c, model) ==
  {Type(find ++ model.name ++ "Args", FindManyRows(c, model.name, 0)) : find \in {"FindMany", "FindFirst"}}

WhereInput(c, model) ==
  LET base == model.name ++ "WhereInput"
  IN {Type(Copy(base, n), {Row(f.name, WhereInputType(f)) : f \in Written(c, model.fields)}
                          \cup Unrolled(c, base, n, {"AND", "OR", "NOT"})) : n \in Copies(c)}

AggregateTypes(c, model) ==
  LET m == model.name
      base == m ++ "ScalarWhereWithAggregatesInput"
      output(kind) == m ++ kind ++ "AggregateOutput"
      scalars == Leaves(Names(Scalars(model)))
      numbers == Leaves(Names({f \in Scalars(model) : f.type \in Numbers}))
      counted == scalars \cup Leaves({"_all"})
  IN {Type(Copy(base, n), {Row(f.name, WhereAggregatesInputType(f)) : f \in Scalars(model)}
                          \cup Unrolled(c, base, n, {"AND", "OR", "NOT"})) : n \in Copies(c)}
     \cup {Type(m ++ "GroupByOutput",
                scalars \cup To({"_sum"}, output("Sum")) \cup To({"_avg"}, output("Avg"))
                  \cup To({"_min"}, output("Min")) \cup To({"_max"}, output("Max")) \cup To({"_count"}, output("Count")))}
     \cup {Type(output(kind), numbers) : kind \in {"Avg", "Sum"}}
     \cup {Type(output(kind), scalars) : kind \in {"Scalar", "Min", "Max"}}
     \cup {Type(m ++ input, scalars) : input \in {"MaxAggregateInput", "MinAggregateInput"}}
     \cup {Type(m ++ input, numbers) : input \in {"NumberAggregateInput", "AvgAggregateInput", "SumAggregateInput"}}
     \cup {Type(m ++ "CountAggregateInput", counted), Type(output("Count"), counted)}

ModelTypes(c, model) ==
  CreateTypes(c, model) \cup WhereUnique(model) \cup UpdateTypes(c, model) \cup OrderBy(c, model)
  \cup RelationFilters(c, model) \cup Include(c, model)
  \cup (UNION {RelationalArgs(c, model, related) : related \in Models})
  \cup FindArgs(c, model) \cup WhereInput(c, model) \cup AggregateTypes(c, model)

\* Section 0 of the file has the types of scalars, section i those of a model.
Definitions(c) ==
  {[section |-> 0, name |-> t.name, rows |-> t.rows] : t \in ScalarTypes(c)}
  \cup UNION {{[section |-> i, name |-> t.name, rows |-> t.rows] : t \in ModelTypes(c, Schema[i])} : i \in DOMAIN Schema}

\* The module once it is imported: a definition of a later section replaces
\* those of its name.  (The order inside of a section is not modelled.)
Imported(c) ==
  LET all == Definitions(c)
  IN {d \in all : \A e \in all : e.name = d.name => e.section <= d.section}
Generated == {[config |-> c, types |-> Imported(c)] : c \in Configs}   \* a set: TLC builds it once
Bound(c, name)   == {d \in (CHOOSE g \in Generated : g.config = c).types : d.name = name}
Offered(c, name) == UNION {d.rows : d \in Bound(c, name)}

-----------------------------------------------------------------------------
(* The engine: what it takes at a place of the arguments.  A place is a    *)
(* kind of input, and the model, or the type or the compound key, it is of.*)
(* What is written below a relation is of the model and of the field back: *)
(* the engine fills in that side itself.  The schema turns on the preview  *)
(* features of what its client uses (full-text search).  The engine may    *)
(* take keys that are not here: they are not offered.                      *)

Place(kind, of, key) == [kind |-> kind, of |-> of, key |-> key]
Anything == Place("anything", "-", "-")   \* a place that is not compared
Slot(key, place)  == [key |-> key, place |-> place]
Into(keys, place) == {Slot(k, place) : k \in keys}
Known(keys)       == Into(keys, Place("scalar", "-", "-"))

Searches(c) == c.provider \in {"postgresql", "mysql"}
Comparable  == {"equals", "in", "notIn", "lt", "lte", "gt", "gte"}

\* The operators on a scalar, below a `not` too: the case is told above it.
ScalarOperators(c, type) ==
  IF type \in {"Boolean", "Json"} THEN {"equals"}
  ELSE IF type = "Bytes"          THEN {"equals", "in", "notIn"}
  ELSE IF type = "String"         THEN Comparable \cup {"contains", "startsWith", "endsWith"}
                                       \cup {k \in {"search"} : Searches(c)}
  ELSE Comparable
Modes(c, type) == {k \in {"mode"} : type = "String" /\ c.provider \in {"postgresql", "cockroachdb", "mongodb"}}

\* The scalars that are aggregated, and those of a new record below the field
\* `back` ("-" below none): without that side and the foreign keys it keeps.
Lists(model)         == {f \in Scalars(model) : f.list}
Ordered(model)       == {f \in Scalars(model) : f.type # "Json"} \ Lists(model)
Numeric(model)       == {f \in Scalars(model) : f.type \in Numbers \cup {"Decimal"}} \ Lists(model)
Keeping(model, back) == UNION ({g.from : g \in {x \in Relations(model) : x.name = back}})
Without(model, back) == {f \in model.fields : f.name # back /\ f.name \notin Keeping(model, back)}

WherePlace(f) ==
  IF f.relation  THEN Place(IF f.list THEN "some" ELSE "is", f.type, "-")
  ELSE IF f.list THEN Place("list", "-", f.type)
  ELSE Place("filter", "-", f.type)
CreatePlace(f) ==
  IF f.relation THEN Place("createNested", f.type, f.back) ELSE Place("scalar", "-", "-")
UpdatePlace(f) ==
  IF f.relation              THEN Place(IF f.list THEN "updateMany" ELSE IF f.required THEN "updateRequired" ELSE "updateOne",
                                        f.type, f.back)
  ELSE IF f.list             THEN Place("listUpdate", "-", f.type)
  ELSE IF f.type \in Numbers THEN Place("atomic", "-", f.type)
  ELSE Place("scalar", "-", "-")
IncludePlace(f) == Place(IF f.list THEN "findArgs" ELSE "args", f.type, "-")

Nested(m, back) ==
  Into({"create"}, Place("create", m, back)) \cup Into({"connect"}, Place("unique", m, "-"))
  \cup Into({"connectOrCreate"}, Place("connectOrCreate", m, back))

Takes(c, p) ==
  LET model == ModelOf(p.of)
  IN CASE p.kind = "where"   -> {Slot(f.name, WherePlace(f)) : f \in model.fields} \cup Into({"AND", "OR", "NOT"}, p)
       [] p.kind = "is"      -> Into({"is", "isNot"}, Place("where", p.of, "-"))
       [] p.kind = "some"    -> Into({"some", "none", "every"}, Place("where", p.of, "-"))
       [] p.kind = "list"    -> Known({"equals", "has", "hasEvery", "hasSome", "isEmpty"})
       [] p.kind = "filter"  -> Known(ScalarOperators(c, p.key) \cup Modes(c, p.key)) \cup Into({"not"}, Place("nestedFilter", "-", p.key))
       [] p.kind = "nestedFilter" -> Known(ScalarOperators(c, p.key)) \cup Into({"not"}, p)
       [] p.kind = "unique"  -> Known(Names({f \in Scalars(model) : f.unique}))
                                \cup {Slot(key.name, Place("compound", p.of, key.name)) : key \in model.keys}
       [] p.kind = "compound" -> Known(UNION {key.fields : key \in {x \in model.keys : x.name = p.key}})
       [] p.kind = "orderBy" -> Known(Names(Scalars(model)))
                                \cup Into({k \in {"_relevance"} : Searches(c) /\ \E f \in Ordered(model) : f.type = "String"},
                                          Place("relevance", "-", "-"))
       [] p.kind = "relevance" -> Known({"fields", "search", "sort"})
       [] p.kind = "include" -> {Slot(f.name, IncludePlace(f)) : f \in Relations(model)}
       [] p.kind = "args"    -> Into({"include"}, Place("include", p.of, "-"))
       [] p.kind = "findArgs" -> Known({"take", "skip", "distinct"})
                                \cup Into({"orderBy"}, Place("orderBy", p.of, "-")) \cup Into({"where"}, Place("where", p.of, "-"))
                                \cup Into({"cursor"}, Place("unique", p.of, "-")) \cup Into({"include"}, Place("include", p.of, "-"))
       [] p.kind = "create"  -> {Slot(f.name, CreatePlace(f)) : f \in Without(model, p.key)}
       [] p.kind = "createMany" -> Known(Names(Scalars(model)))
       [] p.kind = "createNested" -> Nested(p.of, p.key)
       [] p.kind = "connectOrCreate" -> Into({"create"}, Place("create", p.of, p.key)) \cup Into({"where"}, Place("unique", p.of, "-"))
       [] p.kind = "update"  -> {Slot(f.name, UpdatePlace(f)) : f \in model.fields}
       [] p.kind = "updateAll" -> {Slot(f.name, UpdatePlace(f)) : f \in Scalars(model)}
       [] p.kind = "updateRequired" -> Nested(p.of, p.key)
       [] p.kind = "updateOne"  -> Nested(p.of, p.key) \cup Known({"disconnect", "delete"})
       [] p.kind = "updateMany" -> Nested(p.of, p.key) \cup Into({"set", "disconnect", "delete"}, Place("unique", p.of, "-"))
       [] p.kind = "listUpdate" -> Known({"set"} \cup {k \in {"push"} : c.provider # "cockroachdb"})
       [] p.kind = "atomic"  -> Known({"set", "divide", "multiply", "increment", "decrement"})
       [] p.kind = "upsert"  -> Into({"create"}, Place("create", p.of, "-")) \cup Into({"update"}, Place("update", p.of, "-"))
       [] p.kind = "count"   -> Known(Names(Scalars(model)) \cup {"_all"})
       [] p.kind = "fields"  -> Known(Names(Ordered(model)))
       [] p.kind = "numbers" -> Known(Names(Numeric(model)))
       [] OTHER              -> {}

-----------------------------------------------------------------------------
(* The walk.  It starts at a parameter of a method, or at a type that has  *)
(* no parameter but is offered to the program.                             *)

Parameters ==
  {<<"CreateInput", "create">>, <<"CreateWithoutRelationsInput", "createMany">>, <<"UpdateInput", "update">>,
   <<"UpdateManyMutationInput", "updateAll">>, <<"UpsertInput", "upsert">>, <<"WhereInput", "where">>,
   <<"WhereUniqueInput", "unique">>, <<"OrderByInput", "orderBy">>, <<"Include", "include">>,
   <<"CountAggregateInput", "count">>, <<"AvgAggregateInput", "numbers">>, <<"SumAggregateInput", "numbers">>,
   <<"MinAggregateInput", "fields">>, <<"MaxAggregateInput", "fields">>}
Uncompared == {"ScalarWhereWithAggregatesInput", "GroupByOutput"}

WalkInit ==
  /\ config \in Configs
  /\ \E model \in Models :
       \/ \E p \in Parameters : at = model.name ++ p[1] /\ means = Place(p[2], model.name, "-")
       \/ \E find \in {"FindMany", "FindFirst"} :
            at = find ++ model.name ++ "Args" /\ means = Place("findArgs", model.name, "-")
       \/ \E p \in Uncompared : at = model.name ++ p /\ means = Anything
  /\ level = IF means.kind \in {"include", "findArgs"} THEN 1 ELSE 0   \* the arguments are those of a relation

\* The aliases of the query builder.
Aliases ==
  [startswith |-> "startsWith", has_every |-> "hasEvery", endswith |-> "endsWith", has_some |-> "hasSome",
   is_empty |-> "isEmpty", order_by |-> "orderBy", not_in |-> "notIn", is_not |-> "isNot",
   connect_or_create |-> "connectOrCreate"]
Alias(key) == IF key \in DOMAIN Aliases THEN Aliases[key] ELSE key

\* The program writes a value of the type `to` under a key.
Write(key, to) ==
  /\ IF means = Anything THEN means' = Anything
     ELSE \E slot \in Takes(config, means) : slot.key = Alias(key) /\ means' = slot.place
  /\ level' = IF means'.kind = "include" THEN level + 1 ELSE level
  /\ level' <= MaxLevel
  /\ at' = to
  /\ UNCHANGED config

WalkNext == \E row \in Offered(config, at) : \E to \in row.to : Write(row.key, to)

WalkSpec == WalkInit /\ [][WalkNext]_walkVars

-----------------------------------------------------------------------------
(* What the generator takes for granted about names (the theorems assume   *)
(* it: GenerationProofs).                                                  *)

\* No two types get one name by being put together.  A model Todo beside a
\* model TodoList breaks it: TodoListRelationFilter is a type of both.
NamesApart == \A c \in Configs : \A d \in Definitions(c), e \in Definitions(c) : d.name = e.name => d.rows = e.rows

\* The fields of a model are told apart by their names, from its compound
\* keys, from what a filter adds to them, and from the names of the aliases.
KeysApart ==
  \A m \in Models :
    /\ \A f \in m.fields, g \in m.fields : f.name = g.name => f = g
    /\ \A f \in m.fields : f.name \notin DOMAIN Aliases \cup {"AND", "OR", "NOT", "_relevance", "-"}
    /\ \A k \in m.keys, j \in m.keys : k.name = j.name => k = j
    /\ \A k \in m.keys : k.name \notin DOMAIN Aliases \cup Names(m.fields)
    /\ \A k \in m.keys : k.fields \cap DOMAIN Aliases = {}

-----------------------------------------------------------------------------
(* What the types offer although the engine does not take it: the parent's *)
(* foreign keys below a relation (types.py.jinja:545-567), a relation that *)
(* has to stay disconnected or deleted (617-622), the smallest and the     *)
(* greatest of Json and the aggregates of lists (797-831), the relevance   *)
(* of a model without strings (schema.py:162), and the case below a `not`  *)
(* (types.py.jinja:215).                                                   *)

Overoffered(p) ==
  LET model == ModelOf(p.of)
  IN CASE p.kind = "create"         -> Keeping(model, p.key)
       [] p.kind = "updateRequired" -> {"disconnect", "delete"}
       [] p.kind = "fields"         -> Names(Scalars(model) \ Ordered(model))
       [] p.kind = "numbers"        -> Names(Lists(model))
       [] p.kind = "orderBy"        -> {k \in {"_relevance"} : \A f \in Ordered(model) : f.type # "String"}
       [] p.kind = "nestedFilter"   -> {k \in {"mode"} : p.key = "String"}
       [] OTHER                     -> {}

-----------------------------------------------------------------------------
(* Properties.                                                             *)

KeysOffered == {Alias(row.key) : row \in Offered(config, at)}
KeysTaken   == {slot.key : slot \in Takes(config, means)}

\* Wherever a program gets to by following the types, the type that is named
\* there exists, and every key it offers is, once it is renamed, one that the
\* engine takes at this place, but for those of the six families above: no copy
\* of a recursive type is missing, no name means another type than the one it
\* was written for, and no other key is one that the engine refuses.
TypedKeysAreTaken ==
  /\ Bound(config, at) # {}
  /\ means # Anything => KeysOffered \subseteq KeysTaken \cup Overoffered(means)

\* What the types are for: every key that passes the type checker is taken.  It
\* does not hold, and no run checks it: each family is met in the schema of the
\* run, the parent's foreign key in UserCreateInput -> posts -> create -> author_id.
EveryTypedKeyIsTaken == means # Anything => KeysOffered \subseteq KeysTaken

\* Includes can be nested as deep as the documentation of recursive_type_depth
\* shows (docs/reference/config.md: once for 2, three times for 5, four for 8,
\* without end for -1), with every relation of the model at each depth, and no
\* deeper.
IncludesNestAsDocumented ==
  means.kind = "include" =>
    {row.key : row \in Offered(config, at)} =
      IF config.scalarsOnly /\ level = 1 THEN {}
      ELSE IF config.depth = -1 \/ level <= 1 + ((config.depth - 1) \div 2) THEN Names(Relations(ModelOf(means.of)))
      ELSE {}
=============================================================================
