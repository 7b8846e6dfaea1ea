----------------------------- MODULE MCInstall ------------------------------
(* Two commands that upgrade once; a good Node, none, or an old npm. What a *)
(* client starts and opens is checked of a few surroundings before the run. *)
EXTENDS Install, Sequences, TLC

Where == INSTANCE Locations

MCMachines ==
  {[use_nodejs_bin |-> TRUE, nodejs |-> n, use_global_node |-> TRUE,
    global |-> [t \in Targets |-> IF t = "node" THEN g ELSE h]] :
     n \in BOOLEAN, g \in {"good", "none"}, h \in {"good", "old"}}
Symmetry == Permutations(Commands)

-----------------------------------------------------------------------------
(* A laptop and a container; versions, directories and platforms come from *)
(* the environment, from pyproject.toml or from what is built in.          *)

EngineVersion == "5fe21811a6ba0b952a3bc71400666511fe3b902f"
HomeEngine ==
  <<"/", "root", ".cache", "prisma-python", "binaries", "5.19.0", EngineVersion,
    "prisma-query-engine-linux-musl">>
WorkEngine == <<"/", "work", "prisma-query-engine-linux-musl">>
Recorded   == <<"prisma", "query-engine">>
RecordedIn(cwd) == cwd \o Recorded

MCSurroundings ==
  {[env |-> env, dotenv |-> ("DATABASE_URL" :> [prefix |-> "file:", path |-> <<"dev.db">>]),
    prismaDotenv |-> <<>>, toml |-> toml, cwd |-> cwd, home |-> <<"/", "root">>,
    system |-> "linux", distro |-> "alpine", like |-> {}, openssl |-> {},
    files |-> files, runs |-> files \ broken,
    versions |-> [path \in files |-> IF path = WorkEngine THEN "old" ELSE EngineVersion]] :
     env \in {<<>>, "PRISMA_VERSION" :> "6.0.0", "PRISMA_HOME_DIR" :> <<"/", "home">>,
              "PRISMA_EXPECTED_ENGINE_VERSION" :> "old", "PRISMA_BINARY_PLATFORM" :> "linux-musl",
              "PRISMA_QUERY_ENGINE_BINARY" :> WorkEngine,
              "PRISMA_BINARY_CACHE_DIR" :> <<"/", "root", ".cache">>},
     toml \in {<<>>, "prisma_version" :> "6.0.0", "home_dir" :> <<"/", "home">>},
     cwd \in {<<"/", "work">>, <<"/">>},
     files \in SUBSET {HomeEngine, WorkEngine, RecordedIn(<<"/", "work">>)},
     broken \in {{}, {RecordedIn(<<"/", "work">>)}}}

MCBinaries ==
  {<<[platform |-> "linux-musl", path |-> Recorded]>>,
   <<[platform |-> "debian-openssl-1.1.x", path |-> Recorded],
     [platform |-> "linux-musl", path |-> HomeEngine]>>}

MCClients ==
  {[datasource |-> override, defaultName |-> "db", provider |-> provider, url |-> url,
    sourceDirectory |-> directory, schemaDirectory |-> <<"/", "work", "prisma">>, timeout |-> 10] :
     override \in {{}, {[name |-> {}, url |-> [prefix |-> "file:", path |-> <<"other.db">>]]}},
     provider \in {"sqlite", "postgresql"},
     url \in {[value |-> {}, variable |-> "DATABASE_URL"],
              [value |-> {[prefix |-> "sqlite:", path |-> <<"/", "data", "dev.db">>]}, variable |-> "none"]},
     directory \in {{}, {<<"/", "schemas">>}}}

\* Neither the cache nor the database depends on the files.
MCBare == {m \in MCSurroundings : m.files = {}}

(* The properties of Locations hold of them.                               *)
ASSUME LocationsAssumption ==
  /\ \A m, n \in MCBare :
       /\ Where!CacheIsOfOneVersion(m, n)
       /\ \A client \in MCClients : Where!DatabaseStaysPut(m, n, client)
  /\ \A m \in MCSurroundings, binaries \in MCBinaries : Where!EngineIsExpected(m, binaries)

(* Each case is there: an engine that is refused for its version, one that *)
(* is found below the working directory, and one that cannot be started.   *)
ASSUME EnginesDiffer ==
  \A found \in {{}, {Recorded}, {WorkEngine}, {HomeEngine}} :
    \E m \in MCSurroundings : \E binaries \in MCBinaries : Where!Ensure(m, binaries, FALSE) = found
=============================================================================
