------------------------------ MODULE Options ------------------------------
(***************************************************************************)
(* The request that Prisma sends the generator, and what its validation    *)
(* makes of it (generator/models.py, _compat.py, generator/jsonrpc.py):    *)
(* the options of the generator block with the environment variables that  *)
(* override them, @Python(...) declarations, and the names and types that  *)
(* are refused.  A request r is a record:                                  *)
(*   r.version, r.debug      the engine's version; PRISMA_PY_DEBUG_GENERATOR *)
(*   r.block                 the generator block: its keys and their values *)
(*   r.env                   the PRISMA_PY_CONFIG_* variables that are set, *)
(*                           by the option each is for                     *)
(*   r.engineVariable        PRISMA_CLIENT_ENGINE_TYPE: {} or {its value}   *)
(*   r.paths, r.loadable     the files below the working directory, and    *)
(*                           those that are Python files                   *)
(*   r.importable            the modules that can be imported              *)
(*   r.models, r.composites  the data model                                *)
(* A value is its text with what pydantic reads in it: v.text, and v.bools *)
(* and v.ints, a set that is empty when it is no boolean or no integer.    *)
(***************************************************************************)
EXTENDS Integers, Sequences

\* The value under a key, as a set of at most one; the first there is of two.
At(values, key) == {values[k] : k \in DOMAIN values \cap {key}}
First(p, q)     == IF p # {} THEN p ELSE q
The(p)          == CHOOSE v \in p : TRUE

Put(values, key, v) == [k \in DOMAIN values \cup {key} |-> IF k = key THEN v ELSE values[k]]
Drop(values, key)   == [k \in DOMAIN values \ {key} |-> values[k]]

-----------------------------------------------------------------------------
(* The options.                                                            *)

Switches == {"enable_experimental_decimal", "minimal_runtime", "separate_model_files",
             "scalar_fields_only", "recursive_validation_models", "lazy_actions", "schema_metadata"}
OptionNames  == Switches \cup {"interface", "partial_type_generator", "recursive_type_depth",
                           "engine_type", "model_backend"}

\* The name that some options have in a schema, besides their own.
CamelCase ==
  [minimal_runtime |-> "minimalRuntime", separate_model_files |-> "separateModelFiles",
   scalar_fields_only |-> "scalarFieldsOnly", lazy_actions |-> "lazyActions",
   recursive_validation_models |-> "recursiveValidationModels",
   schema_metadata |-> "schemaMetadata", model_backend |-> "modelBackend"]

Default(option) ==
  CASE option \in Switches               -> FALSE
    [] option = "interface"              -> "asyncio"
    [] option = "partial_type_generator" -> "none"
    [] option = "recursive_type_depth"   -> 5
    [] option = "engine_type"            -> "binary"
    [] option = "model_backend"          -> "pydantic"

\* What pydantic and the validators of one field accept, and make of it.
Valid(option, v) ==
  CASE option \in Switches             -> v.bools # {}
    [] option = "interface"            -> v.text \in {"sync", "asyncio"}
    [] option = "recursive_type_depth" -> \E n \in v.ints : n = -1 \/ n > 1
    [] option = "engine_type"          -> v.text = "binary"
    [] OTHER                           -> TRUE
Read(option, v) ==
  CASE option \in Switches             -> CHOOSE b \in v.bools : TRUE
    [] option = "recursive_type_depth" -> CHOOSE n \in v.ints : TRUE
    [] OTHER                           -> v.text

-----------------------------------------------------------------------------
(* Validators that see the whole block before pydantic does. The one that  *)
(* is defined last runs first.                                             *)

\* An environment variable replaces the value under the option's own name.
ResolveEnv(r, values) ==
  [k \in DOMAIN values \cup DOMAIN r.env |-> IF k \in DOMAIN r.env THEN r.env[k] ELSE values[k]]

\* Module: a path that is there, whatever it is, is never tried as a module.
Found(r, text) == IF text \in r.paths THEN text \in r.loadable ELSE text \in r.importable

DefaultScript == [text |-> "prisma/partial_types.py", bools |-> {}, ints |-> {}]

\* partial_type_generator_converter, which resolves the environment first.
ScriptFound(r) ==
  LET values == ResolveEnv(r, r.block)
  IN "partial_type_generator" \in DOMAIN values => Found(r, values["partial_type_generator"].text)
WithScript(r) ==
  LET values == ResolveEnv(r, r.block)
  IN IF "partial_type_generator" \notin DOMAIN values /\ Found(r, DefaultScript.text)
     THEN Put(values, "partial_type_generator", DefaultScript) ELSE values

\* The transform_* validators: a value under the schema's name replaces one
\* under the option's own.
Rename(values, option) ==
  LET camel == CamelCase[option]
  IN IF camel \in DOMAIN values THEN Drop(Put(values, option, values[camel]), camel) ELSE values

BackendKnown(values) ==
  "model_backend" \in DOMAIN values =>
    values["model_backend"].text \in {"pydantic", "slim", "msgspec"}

\* transform_engine_type: the variable of Prisma's own clients comes first.
TransformEngineType(r, values) ==
  LET chosen == First(r.engineVariable, At(values, "engineType"))
  IN IF chosen # {} THEN Put(Drop(values, "engineType"), "engine_type", The(chosen)) ELSE values

Transformed(values) ==
  LET afterBackend   == Rename(values, "model_backend")
      afterLazy      == Rename(afterBackend, "lazy_actions")
      afterRecursive == Rename(afterLazy, "recursive_validation_models")
      afterScalar    == Rename(afterRecursive, "scalar_fields_only")
      afterSeparate  == Rename(afterScalar, "separate_model_files")
  IN Rename(afterSeparate, "minimal_runtime")

\* ... and BaseSettings resolves the environment, once more, last.
Prepared(r) == ResolveEnv(r, TransformEngineType(r, Transformed(WithScript(r))))

-----------------------------------------------------------------------------
(* The configuration. A field is looked up by its alias first, and a key   *)
(* that no field took is an error.                                         *)

Key(values, option) ==
  IF option \in DOMAIN CamelCase /\ CamelCase[option] \in DOMAIN values
  THEN CamelCase[option] ELSE option

HttpIsGone(r) == "http" \notin DOMAIN r.block

ConfigAccepted(r) ==
  LET values == Prepared(r)
  IN /\ ScriptFound(r)
     /\ HttpIsGone(r)
     /\ BackendKnown(Rename(WithScript(r), "model_backend"))
     /\ DOMAIN values \subseteq {Key(values, option) : option \in OptionNames}
     /\ \A option \in OptionNames :
          Key(values, option) \in DOMAIN values => Valid(option, values[Key(values, option)])

Config(r) ==
  LET values == Prepared(r)
  IN [option \in OptionNames |->
        IF Key(values, option) \in DOMAIN values THEN Read(option, values[Key(values, option)])
                                                 ELSE Default(option)]

-----------------------------------------------------------------------------
(* The data model. A model has a name and its lower case, the @Python      *)
(* declarations of its documentation, and fields.                          *)

Keywords ==
  {"False", "None", "True", "and", "as", "assert", "async", "await", "break", "class", "continue",
   "def", "del", "elif", "else", "except", "finally", "for", "from", "global", "if", "import", "in",
   "is", "lambda", "nonlocal", "not", "or", "pass", "raise", "return", "try", "while", "with", "yield"}

\* The public attributes of pydantic's BaseModel that a column could be named after.
Attributes ==
  {"construct", "copy", "dict", "from_orm", "json", "model_config", "model_construct", "model_copy",
   "model_dump", "model_dump_json", "model_extra", "model_fields_set", "model_validate", "parse_file",
   "parse_obj", "parse_raw", "schema", "schema_json", "update_forward_refs", "validate"}

BuilderWords == {"startswith", "has_every", "endswith", "has_some", "is_empty", "order_by", "not_in",
                 "is_not", "connect_or_create"}

TypeMapping == {"String", "Bytes", "DateTime", "Boolean", "Int", "Float", "BigInt", "Json", "Decimal"}

\* parse_schema_dsl: what the declarations in a text come to. The parser is
\* Lark's, and each declaration says what it makes of it.
ParseSchemaDsl(declarations) ==
  IF declarations = <<>> THEN "not_applicable"
  ELSE IF Len(declarations) > 1 \/ ~Head(declarations).parses THEN "invalid" ELSE "ok"

\* argument_list: of two arguments with one name, the later.
InstanceNames(declaration) ==
  LET named == {i \in DOMAIN declaration.arguments : declaration.arguments[i].key = "instance_name"}
  IN {declaration.arguments[i].value : i \in {j \in named : \A k \in named : k <= j}}

Extended(model) ==
  IF ParseSchemaDsl(model.declarations) = "ok"
  THEN {value \in InstanceNames(Head(model.declarations)) : ~value.empty} ELSE {}

\* The client's attribute for a model.
InstanceName(model) ==
  IF Extended(model) # {} THEN (CHOOSE value \in Extended(model) : TRUE).text ELSE model.lower

FieldAccepted(r, field) ==
  /\ field.kind = "scalar" => field.type \in TypeMapping
  /\ field.type = "Decimal" => Config(r)["enable_experimental_decimal"]
  /\ field.name \notin Attributes \cup Keywords \cup {"prisma"} \cup BuilderWords

ModelAccepted(r, model) ==
  /\ ParseSchemaDsl(model.declarations) # "invalid"
  /\ \A value \in Extended(model) : value.identifier
  /\ model.name \notin Keywords /\ model.lower \notin Keywords
  /\ \A field \in model.fields : FieldAccepted(r, field)

-----------------------------------------------------------------------------
(* The request.                                                            *)

IsRequest(r) ==
  /\ DOMAIN r.env \subseteq OptionNames
  /\ r.engineVariable # {} => \E v \in r.engineVariable : r.engineVariable = {v}

NoCompositeTypes(r) == r.composites = {}

VersionAccepted(r) == r.debug \/ r.version = "expected"

Accepted(r) ==
  /\ VersionAccepted(r)
  /\ ConfigAccepted(r)
  /\ NoCompositeTypes(r)
  /\ \A model \in r.models : ModelAccepted(r, model)

\* What generate() refuses of what validation accepted.
ExcludesItself(config) ==
  \/ config["model_backend"] = "slim" /\ ~config["separate_model_files"]
  \/ config["model_backend"] = "msgspec" /\ config["separate_model_files"]

\* A line of the protocol, and what the generator does with it.
Parses(line) == line.json /\ line.method \in {"getManifest", "generate"} /\ line.identified

Handling(line) ==
  IF ~Parses(line) THEN "raise"
  ELSE IF line.method = "getManifest" THEN "manifest"
  ELSE IF line.params = {} \/ \E r \in line.params : ~Accepted(r) THEN "raise" ELSE "generate"

-----------------------------------------------------------------------------
(* Properties.                                                             *)

\* The value an option should have, as the docs and the comments of the
\* validators put it: the variable comes before the schema ("prioritise env
\* variable over schema option"), the schema before the default.
InBlock(r, option) ==
  First(IF option \in DOMAIN CamelCase THEN At(r.block, CamelCase[option]) ELSE {}, At(r.block, option))
Sources(r, option) ==
  First(At(r.env, option),
    CASE option = "engine_type" ->
           First(r.engineVariable, First(At(r.block, "engineType"), At(r.block, option)))
      [] option = "partial_type_generator" ->
           First(At(r.block, option), IF Found(r, DefaultScript.text) THEN {DefaultScript} ELSE {})
      [] OTHER -> InBlock(r, option))

Documented(r, option) ==
  LET sources == Sources(r, option) IN IF sources = {} THEN Default(option) ELSE Read(option, The(sources))

\* Nine validators move values between keys, twice over the environment: the
\* configuration they leave is the one that the precedence says.
ConfigAsDocumented(r) ==
  Accepted(r) => \A option \in OptionNames : Config(r)[option] = Documented(r, option)

\* An option that is misspelt, or that another program wrote, is never skipped
\* in silence.
NoKeyIgnored(r) ==
  Accepted(r) => DOMAIN r.block \subseteq
                   OptionNames \cup {CamelCase[option] : option \in DOMAIN CamelCase} \cup {"engineType"}

\* The backend is one that the templates know, unless the variable names
\* another while the schema names one of them: that one is not looked at again.
BackendsAreKnown(r) ==
  Accepted(r) /\ ~("model_backend" \in DOMAIN r.env /\ "modelBackend" \in DOMAIN r.block) =>
    Config(r)["model_backend"] \in {"pydantic", "slim", "msgspec"}

=============================================================================
