------------------------------- MODULE Builder -------------------------------
(***************************************************************************)
(* The query builder (_builder.py): from the arguments of a method to the  *)
(* query that the engine gets.  A value of an argument is None, [leaf |->  *)
(* what], [dict |-> function] or [list |-> sequence]; a query keeps this   *)
(* shape, its text is left out.                                            *)
(***************************************************************************)
EXTENDS Records

CONSTANT Aliases   \* QUERY_BUILDER_ALIASES

RawMethods == {"query_raw", "query_first", "execute_raw"}

Mutations == {"create", "delete", "update", "upsert", "create_many", "delete_many", "update_many"}
             \cup RawMethods
Operation(method) == IF method \in Mutations THEN "mutation" ELSE "query"

\* The engine's action, to which the name of the model is appended.
MethodFormat ==
  [create |-> "createOne", delete |-> "deleteOne", update |-> "updateOne", upsert |-> "upsertOne",
   query_raw |-> "queryRaw", query_first |-> "queryRaw", execute_raw |-> "executeRaw",
   create_many |-> "createMany", delete_many |-> "deleteMany", update_many |-> "updateMany",
   count |-> "aggregate", group_by |-> "groupBy", find_many |-> "findMany",
   find_first |-> "findFirst", find_first_or_raise |-> "findFirstOrThrow",
   find_unique |-> "findUnique", find_unique_or_raise |-> "findUniqueOrThrow"]

Is(kind, value) == value # None /\ kind \in DOMAIN value

Without(dict, key) == [k \in DOMAIN dict \ {key} |-> dict[k]]
Get(dict, key) == IF key \in DOMAIN dict THEN dict[key] ELSE None

-----------------------------------------------------------------------------
(* Aliases: keys are renamed at every depth, through the dicts that are    *)
(* items of a list too (slip: not through these).                          *)

Alias(key) == IF key \in DOMAIN Aliases THEN Aliases[key] ELSE key
Renamed(dict) == [k \in {Alias(key) : key \in DOMAIN dict} |->
                    dict[CHOOSE key \in DOMAIN dict : Alias(key) = k]]

RECURSIVE TransformNoLists(_)
TransformNoLists(value) ==
  IF ~Is("dict", value) THEN value
  ELSE [dict |-> LET renamed == Renamed(value.dict)
                 IN [k \in DOMAIN renamed |-> TransformNoLists(renamed[k])]]

RECURSIVE TransformAliases(_)
TransformAliases(value) ==
  CASE Is("dict", value) -> [dict |-> LET renamed == Renamed(value.dict)
                                      IN [k \in DOMAIN renamed |-> TransformAliases(renamed[k])]]
    [] Is("list", value) -> [list |-> [i \in DOMAIN value.list |->
                                         IF Is("dict", value.list[i]) THEN TransformAliases(value.list[i])
                                                                      ELSE value.list[i]]]
    [] OTHER             -> value

-----------------------------------------------------------------------------
(* Nodes.                                                                  *)

\* Arguments.create_children: at the top, None means that the argument was
\* not given; the parameters of raw SQL are one JSON string.  Below (Data,
\* ListNode), None is a value.
Arguments(method, args) ==
  [k \in {key \in DOMAIN args : args[key] # None} |->
     IF method \in RawMethods /\ Is("list", args[k]) THEN [leaf |-> "json"] ELSE args[k]]

RelatedClass(class, f) == Fields(class)[f].of

\* get_relational_model, for a class of each kind.
RelationErrors(backend, class, f) ==
  CASE f \notin RelationalFields(ModelOf(class)) -> {"UnknownRelationalFieldError"}
    [] f \notin DOMAIN Fields(class) ->
         {IF backend = "msgspec" THEN "KeyError" ELSE "UnknownRelationalFieldError"}
    [] OTHER -> {}

IsTrue(value)  == value = [leaf |-> "True"]
IsFalse(value) == value = [leaf |-> "False"]
Entries(include) == IF include = None THEN <<>> ELSE include.dict

\* What creating the selection raises.
RECURSIVE SelectionErrors(_, _, _)
SelectionErrors(backend, class, include) ==
  UNION {LET value == Entries(include)[f] IN
         CASE IsFalse(value) -> {}
           [] ~IsTrue(value) /\ ~Is("dict", value) -> {"TypeError"}
           [] RelationErrors(backend, class, f) # {} -> RelationErrors(backend, class, f)
           [] OTHER -> IF IsTrue(value) THEN {}
                       ELSE SelectionErrors(backend, RelatedClass(class, f), Get(value.dict, "include"))
         : f \in DOMAIN Entries(include)}

\* Selection.create_children: the scalars of the class unless a root selection
\* replaces them, and a selection of its own for each included relation.
RECURSIVE Selection(_, _, _)
Selection(class, include, root) ==
  LET included == {f \in DOMAIN Entries(include) : ~IsFalse(Entries(include)[f])}
      inner(f) == IF IsTrue(Entries(include)[f]) THEN <<>> ELSE Entries(include)[f].dict
  IN [f \in (IF root # None THEN DOMAIN root ELSE ScalarNames(class)) \cup included |->
        IF f \notin included THEN [leaf |-> IF root # None THEN root[f] ELSE {}]
        ELSE [args |-> Arguments("", Without(inner(f), "include")),
              node |-> Selection(RelatedClass(class, f), Get(inner(f), "include"), None)]]

-----------------------------------------------------------------------------
(* QueryBuilder: a request is a method, its arguments, the record class    *)
(* (or None) and the root selection (or None).                             *)

\* __init__ takes the include out of the renamed arguments ...
BuilderArguments(request) == TransformAliases([dict |-> request.args]).dict
Include(request) == Get(BuilderArguments(request), "include")

\* ... and knows no class for raw SQL.
BuilderModel(request) == IF request.method \in RawMethods THEN None ELSE request.class

BuildErrors(backend, request) ==
  CASE BuilderModel(request) # None -> SelectionErrors(backend, request.class, Include(request))
    [] Include(request) # None      -> {"ValueError"}
    [] OTHER                        -> {}

Build(request) ==
  [operation |-> Operation(request.method),
   action    |-> MethodFormat[request.method],
   model     |-> IF BuilderModel(request) = None THEN None ELSE ModelOf(request.class),
   args      |-> Arguments(request.method, Without(BuilderArguments(request), "include")),
   node      |-> IF BuilderModel(request) = None THEN <<>>
                 ELSE Selection(request.class, Include(request), request.root)]
=============================================================================
