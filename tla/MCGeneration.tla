---------------------------- MODULE MCGeneration ----------------------------
(* A small instance of Generation for TLC: the schemas are requests that     *)
(* Options accepts, and their options what Options makes of them.            *)
EXTENDS Generation, Options, FiniteSets

Text(s) ==
  [text  |-> s,
   bools |-> IF s \in {"true", "false"} THEN {s = "true"} ELSE {},
   ints  |-> IF s = "5" THEN {5} ELSE IF s = "1" THEN {1} ELSE {}]
Texts(f) == [key \in DOMAIN f |-> Text(f[key])]
None     == Texts(<<>>)

Request(block, env) ==
  [version |-> "expected", debug |-> FALSE, block |-> block, env |-> env, engineVariable |-> {},
   paths |-> {"prisma/partial_types.py"}, loadable |-> {"prisma/partial_types.py"},
   importable |-> {}, models |-> {}, composites |-> {}]

Decimals == {[name |-> "Price", lower |-> "price", declarations |-> <<>>,
              fields |-> {[name |-> "amount", kind |-> "scalar", type |-> "Decimal"]}]}

\* One plain schema, one with stubs, one with separate models that a variable
\* gives stubs, one that generate() refuses, and three that do not validate.
Sent ==
  {Request(None, None),
   Request(Texts([minimalRuntime |-> "true", recursive_type_depth |-> "5"]), None),
   Request(Texts([separateModelFiles |-> "true", minimalRuntime |-> "false"]),
           Texts([minimal_runtime |-> "true"])),
   Request(Texts([modelBackend |-> "slim"]), None),
   Request(Texts([modelBackends |-> "slim"]), None),
   Request(Texts([recursive_type_depth |-> "1"]), None),
   [Request(None, None) EXCEPT !.models = Decimals]}

MCSchemas  == {r \in Sent : Accepted(r)}
MCSeparate == {r \in MCSchemas : Config(r)["separate_model_files"]}
MCMinimal  == {r \in MCSchemas : Config(r)["minimal_runtime"]}
MCRejected == {r \in MCSchemas : ExcludesItself(Config(r))}

\* The properties of Options, over every way to give four options in the
\* block, under either name, and in the environment.
Given(keys) == UNION {[some -> {Text("true"), Text("slim"), Text("binary")}] : some \in SUBSET keys}
Blocks == Given({"modelBackend", "schemaMetadata", "engineType", "lazyActions", "lazy_actions"})
Variables == Given({"model_backend", "schema_metadata", "engine_type"})

ASSUME OptionsAssumption ==
  /\ Cardinality(MCSchemas) = 4 /\ Cardinality(MCRejected) = 1
  /\ \A block \in Blocks, env \in Variables, variable \in {{}, {Text("binary")}} :
       LET r == [Request(block, env) EXCEPT !.engineVariable = variable]
       IN IsRequest(r) /\ ConfigAsDocumented(r) /\ NoKeyIgnored(r) /\ BackendsAreKnown(r)
=============================================================================
