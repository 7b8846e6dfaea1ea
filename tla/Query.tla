------------------------------- MODULE Query --------------------------------
(***************************************************************************)
(* A query from the method that the program calls to what it returns: the  *)
(* actions of a model (actions.py.jinja) and the raw queries of the client *)
(* (client.py.jinja), through the query builder (Builder), to the engine   *)
(* and back (Exchange) through the decoders of the record backend that the *)
(* client was generated with (Converters).  The engine is external: which  *)
(* rows a filter matches is its choice, what it says of them is not.       *)
(* Batches (Batch) share nothing with the calls but the client.            *)
(***************************************************************************)
EXTENDS Builder, Converters, Exchange, Batch, FiniteSets

CONSTANT Database   \* Database[r]: [model, values, links] of the row r

vars == <<exchangeVars, batchVars>>

-----------------------------------------------------------------------------
(* The methods: the arguments that were given, and None for the others.    *)

Execute(method, args, root) == [method |-> method, args |-> args, root |-> root]
Refuse(class) == [raises |-> class]

Where(g) == [where |-> Get(g, "where"), include |-> Get(g, "include")]

Create(g) == Execute("create", [data |-> g.data, include |-> Get(g, "include")], None)

CountRoot == [count |-> {}]
SkipUnsupported == {"mongodb", "sqlserver", "sqlite"}
CreateMany(g, provider) ==
  IF Get(g, "skip_duplicates") = [leaf |-> "True"] /\ provider \in SkipUnsupported
  THEN Refuse("UnsupportedDatabaseError")
  ELSE Execute("create_many", [data |-> g.data, skipDuplicates |-> Get(g, "skip_duplicates")], CountRoot)

Delete(g)            == Execute("delete", Where(g), None)
FindUnique(g)        == Execute("find_unique", Where(g), None)
FindUniqueOrRaise(g) == Execute("find_unique_or_raise", Where(g), None)

First(g) ==
  [skip |-> Get(g, "skip"), where |-> Get(g, "where"), order_by |-> Get(g, "order"),
   cursor |-> Get(g, "cursor"), include |-> Get(g, "include"), distinct |-> Get(g, "distinct")]
FindMany(g) ==
  Execute("find_many", [k \in DOMAIN First(g) \cup {"take"} |->
                          IF k = "take" THEN Get(g, k) ELSE First(g)[k]], None)
FindFirst(g)        == Execute("find_first", First(g), None)
FindFirstOrRaise(g) == Execute("find_first_or_raise", First(g), None)

Update(g) == Execute("update", [data |-> g.data, where |-> g.where, include |-> Get(g, "include")], None)
Upsert(g) ==
  Execute("upsert", [where |-> g.where, include |-> Get(g, "include"),
                     create |-> Get(g.data.dict, "create"), update |-> Get(g.data.dict, "update")], None)

UpdateMany(g) == Execute("update_many", [data |-> g.data, where |-> g.where], CountRoot)
DeleteMany(g) == Execute("delete_many", [where |-> Get(g, "where")], CountRoot)

\* _select_fields: the keys of a selection that are True.
SelectFields(select) == {k \in DOMAIN select.dict : IsTrue(select.dict[k])}
Falsy(select) == select = None \/ DOMAIN select.dict = {}

Count(g) ==
  LET select == Get(g, "select")
  IN Execute("count", [take |-> Get(g, "take"), skip |-> Get(g, "skip"), where |-> Get(g, "where"),
                       cursor |-> Get(g, "cursor")],
             [_count |-> IF Falsy(select) THEN {"_all"} ELSE SelectFields(select)])

Aggregates == {"avg", "min", "sum", "max", "count"}
AggregateKey == [avg |-> "_avg", min |-> "_min", sum |-> "_sum", max |-> "_max", count |-> "_count"]
Asked(g) == {a \in Aggregates \cap DOMAIN g : Is("dict", g[a]) \/ IsTrue(g[a])}
GroupKeys(g) == {g.by.list[i].leaf : i \in DOMAIN g.by.list} \cup {AggregateKey[a] : a \in Asked(g)}

GroupBy(g) ==
  IF Get(g, "order") = None /\ (Get(g, "take") # None \/ Get(g, "skip") # None) THEN Refuse("TypeError")
  ELSE Execute("group_by",
         [by |-> g.by, take |-> Get(g, "take"), skip |-> Get(g, "skip"), where |-> Get(g, "where"),
          having |-> Get(g, "having"), orderBy |-> Get(g, "order")],
         [k \in GroupKeys(g) |->
            LET asked == {a \in Asked(g) : AggregateKey[a] = k}
            IN UNION {IF IsTrue(g[a]) THEN {"_all"} ELSE SelectFields(g[a]) : a \in asked}])

QueryRaw(g)   == Execute("query_raw", [query |-> g.query, parameters |-> g.parameters], None)
ExecuteRaw(g) == Execute("execute_raw", [query |-> g.query, parameters |-> g.parameters], None)

MethodRequest(k, c) ==
  LET g == c.given
  IN CASE c.api = "create" -> Create(g)             [] c.api = "create_many" -> CreateMany(g, k.provider)
       [] c.api = "delete" -> Delete(g)             [] c.api = "delete_many" -> DeleteMany(g)
       [] c.api = "update" -> Update(g)             [] c.api = "update_many" -> UpdateMany(g)
       [] c.api = "upsert" -> Upsert(g)             [] c.api = "count" -> Count(g)
       [] c.api = "find_many" -> FindMany(g)        [] c.api = "group_by" -> GroupBy(g)
       [] c.api = "find_first" -> FindFirst(g)      [] c.api = "find_first_or_raise" -> FindFirstOrRaise(g)
       [] c.api = "find_unique" -> FindUnique(g)    [] c.api = "find_unique_or_raise" -> FindUniqueOrRaise(g)
       [] c.api \in {"query_raw", "query_first"} -> QueryRaw(g)
       [] c.api = "execute_raw" -> ExecuteRaw(g)

\* The request for the builder; raw methods of the client get the class aside.
WithClass(req, class) == [method |-> req.method, args |-> req.args, root |-> req.root, class |-> class]
QueryRefusals(k, c) == BuildErrors(k.backend, WithClass(MethodRequest(k, c), c.class))

\* _response_decoder.
RawDecodeMethods == {"create", "delete", "update", "upsert", "find_many", "find_first",
                     "find_first_or_raise", "find_unique", "find_unique_or_raise"}
ResponseDecoder(k, c) ==
  LET req == MethodRequest(k, c) IN
  /\ k.raw /\ k.backend = "msgspec" /\ c.class # None
  /\ req.root = None /\ req.method \in RawDecodeMethods
MsgspecRecord(class, wire) == Parse("msgspec", class, wire)

\* What the method makes of the decoded answer.
Checked(value, invalid) == IF invalid THEN [raises |-> "ValidationError"] ELSE [returns |-> value]
One(k, class, obj) ==
  LET parsed == ModelParse(k.backend, class, obj) IN Checked(parsed, parsed = Invalid)
Many(items) == Checked([list |-> items], \E i \in DOMAIN items : items[i] = Invalid)

MethodResult(k, c, result) ==
  CASE c.api = "find_many" ->
         Many([i \in DOMAIN result.list |-> ModelParse(k.backend, c.class, result.list[i])])
    [] c.api \in {"find_unique", "find_first"} ->
         IF result = None THEN [returns |-> None] ELSE One(k, c.class, result)
    [] c.api \in {"create_many", "update_many", "delete_many"} -> [returns |-> ToPython(result.dict.count)]
    [] c.api = "count" ->
         [returns |-> IF Get(c.given, "select") = None THEN result.dict._count.dict._all ELSE result.dict._count]
    [] c.api \in {"group_by", "execute_raw"} -> [returns |-> result]
    [] c.api = "query_raw" -> Many(DeserializeRawResults(k.backend, c.class, result.rows))
    [] c.api = "query_first" ->
         LET all == Many(DeserializeRawResults(k.backend, c.class, result.rows))
         IN IF "raises" \in DOMAIN all THEN all
            ELSE [returns |-> IF all.returns.list = <<>> THEN None ELSE all.returns.list[1]]
    [] OTHER -> One(k, c.class, result)

-----------------------------------------------------------------------------
(* The engine.                                                             *)

WireForm(tag, v) ==
  CASE tag \in {"bigint", "datetime", "decimal", "json", "base64"} -> [text |-> v]
    [] tag = "float" -> [num |-> v]
    [] OTHER         -> [py |-> v]
RawForm(tag, v) == IF tag = "json" THEN [py |-> v] ELSE WireForm(tag, v)

Column(r, f, Form(_, _)) ==
  LET spec == ModelFields(Database[r].model)[f]  v == Database[r].values[f]
  IN CASE v = None  -> None
       [] spec.list -> [list |-> [i \in DOMAIN v |-> Form(spec.of, v[i])]]
       [] OTHER     -> Form(spec.of, v)

\* An unset list is an empty one for the engine, and null in raw SQL.
WireScalar(r, f) ==
  IF Database[r].values[f] = None /\ ModelFields(Database[r].model)[f].list THEN [list |-> <<>>]
  ELSE Column(r, f, WireForm)
RawRow(r) == [f \in ScalarNames(Database[r].model) |-> Column(r, f, RawForm)]

RECURSIVE WireRecord(_, _)
WireRecord(r, node) ==
  [dict |-> [f \in DOMAIN node |->
     IF "leaf" \in DOMAIN node[f] THEN WireScalar(r, f)
     ELSE LET linked == Database[r].links[f]
          IN IF ModelFields(Database[r].model)[f].list
             THEN [list |-> [i \in DOMAIN linked |-> WireRecord(linked[i], node[f].node)]]
             ELSE IF linked = <<>> THEN None ELSE WireRecord(linked[1], node[f].node)]]

\* A key in Python's spelling is an unknown argument.
RECURSIVE Understands(_)
Understands(value) ==
  CASE Is("dict", value) -> \A k \in DOMAIN value.dict : k \notin DOMAIN Aliases /\ Understands(value.dict[k])
    [] Is("list", value) -> \A i \in DOMAIN value.list : Understands(value.list[i])
    [] OTHER             -> TRUE

RECURSIVE UnderstandsNode(_)
UnderstandsNode(node) ==
  \A f \in DOMAIN node : "leaf" \notin DOMAIN node[f] =>
    Understands([dict |-> node[f].args]) /\ UnderstandsNode(node[f].node)

UnderstandsQuery(q) ==
  /\ Understands([dict |-> q.args]) /\ UnderstandsNode(q.node)
  /\ \A k \in DOMAIN q.args : q.args[k] # None
  /\ q.action \in {"queryRaw", "executeRaw"} => q.args.parameters = [leaf |-> "json"]

Entry(code, kind) ==
  [code |-> code, closed |-> FALSE, valueMissing |-> FALSE, kind |-> kind, fits |-> TRUE]

Data(q, rows) ==
  LET records == [i \in DOMAIN rows |-> WireRecord(rows[i], q.node)]
      number  == [py |-> Len(rows)]
  IN CASE q.action = "findMany"  -> [list |-> records]
       [] q.action = "aggregate" -> [dict |-> [_count |-> [dict |-> [k \in q.node._count.leaf |-> number]]]]
       [] q.action = "groupBy"   ->
            [list |-> [i \in DOMAIN rows |-> [dict |-> [k \in DOMAIN q.node |-> q.node[k].leaf]]]]
       [] q.action \in {"createMany", "updateMany", "deleteMany"} -> [dict |-> [count |-> number]]
       [] q.action = "queryRaw"   -> [rows |-> [i \in DOMAIN rows |-> RawRow(rows[i])]]
       [] q.action = "executeRaw" -> number
       [] rows = <<>>             -> None
       [] OTHER                   -> records[1]

MustExist == {"findFirstOrThrow", "findUniqueOrThrow", "updateOne", "deleteOne"}
EngineErrors(q, rows) ==
  CASE ~UnderstandsQuery(q)                    -> <<Entry("P2009", "UnknownArgument")>>
    [] q.action \in MustExist /\ rows = <<>>   -> <<Entry("P2025", None)>>
    [] OTHER                                   -> <<>>

\* The rows a call may be about: all, one or none of them.
RowsOf(m) == {r \in DOMAIN Database : Database[r].model = m}
Matches(c) ==
  LET rows == IF c.class = None THEN {} ELSE RowsOf(ModelOf(c.class))
      one  == {<<r>> : r \in rows}
  IN CASE c.api \in {"create", "upsert"} -> one
       [] c.api \in {"find_many", "query_raw", "query_first", "count", "group_by", "create_many",
                     "update_many", "delete_many"} ->
            {<<>>} \cup one \cup {<<r, s>> : r \in rows, s \in rows}
       [] OTHER -> {<<>>} \cup one

\* What the engine says to a query, for each choice of rows.
EngineAnswers(k, c) ==
  LET q == Build(WithClass(MethodRequest(k, c), c.class)) IN
  {[hits |-> rows, errors |-> EngineErrors(q, rows),
    data |-> IF EngineErrors(q, rows) = <<>> THEN Data(q, rows) ELSE None] : rows \in Matches(c)}

-----------------------------------------------------------------------------
(* The program.                                                            *)

Init == ExchangeInit /\ BatchInit

\* A batch is about no call: a program that opened one makes no other calls.
OutsideBatch ==
  /\ block = "none"
  /\ ExchangeNext
  /\ UNCHANGED batchVars

InBatch ==
  /\ phase = "idle"
  /\ BatchNext
  /\ UNCHANGED exchangeVars

Next == OutsideBatch \/ InBatch

Spec == Init /\ [][Next]_vars

-----------------------------------------------------------------------------
(* Properties.                                                             *)

PythonValue(r, f) ==
  LET v == Database[r].values[f]
  IN CASE ~ModelFields(Database[r].model)[f].list -> IF v = None THEN None ELSE [py |-> v]
       [] v = None -> [list |-> <<>>]
       [] OTHER    -> [list |-> [i \in DOMAIN v |-> [py |-> v[i]]]]

\* The row r as a record of the class, with the relations that `include`, as
\* the program wrote it, asks for.
RECURSIVE Expected(_, _, _)
Expected(class, r, include) ==
  LET links(f) == Database[r].links[f]
      asked(f) == f \in DOMAIN Entries(include) /\ ~IsFalse(Entries(include)[f])
      inner(f) == IF IsTrue(include.dict[f]) THEN None ELSE Get(include.dict[f].dict, "include")
      related(f, s) == Expected(Fields(class)[f].of, s, inner(f))
  IN [record |-> class, of |-> [f \in DOMAIN Fields(class) |->
       CASE f \in ScalarNames(class) -> PythonValue(r, f)
         [] ~asked(f)                -> None
         [] Fields(class)[f].list    -> [list |-> [i \in DOMAIN links(f) |-> related(f, links(f)[i])]]
         [] OTHER                    -> IF links(f) = <<>> THEN None ELSE related(f, links(f)[1])]]

\* What a call means for the rows that the engine found for it.
ExpectedOutcome ==
  LET records == [i \in DOMAIN hits |-> Expected(call.class, hits[i], Get(call.given, "include"))]
      number  == [py |-> Len(hits)]
      select  == Get(call.given, "select")
  IN CASE call.api \in {"find_many", "query_raw"} -> [returns |-> [list |-> records]]
       [] call.api \in {"create_many", "update_many", "delete_many", "execute_raw"} -> [returns |-> number]
       [] call.api = "count" ->
            [returns |-> IF select = None THEN number
                         ELSE [dict |-> [k \in IF Falsy(select) THEN {"_all"} ELSE SelectFields(select) |-> number]]]
       [] hits # <<>> -> [returns |-> records[1]]
       [] call.api \in {"find_first_or_raise", "find_unique_or_raise"} -> [raises |-> "RecordNotFoundError"]
       [] OTHER -> [returns |-> None]

\* A required list that was never set is null in the rows of raw SQL.
HasUnsetList(r) ==
  \E f \in ScalarNames(call.class) : Database[r].values[f] = None /\ Fields(call.class)[f].list

\* Whichever record backend the client was generated with, and whether the
\* answer is decoded in one pass or not, a call returns the rows that the
\* engine found, as records of the class it was asked for: each scalar field
\* has the value of its column as a Python value, each relation that was
\* included holds the related records, and every other relation None; numbers
\* are the numbers of rows.  No argument that the types allow is unknown to
\* the engine.  (Two calls fall out: groups are returned as they come, and an
\* unset list is an empty one in raw SQL for the pydantic backend only.)
AnswersAreTheRows ==
  /\ phase = "done" /\ reply.status = "ok" /\ hits # None
  /\ call.api # "group_by"
  /\ call.api \in {"query_raw", "query_first"} /\ client.backend # "pydantic" =>
       \A i \in DOMAIN hits : ~HasUnsetList(hits[i])
  => outcome = ExpectedOutcome

=============================================================================
