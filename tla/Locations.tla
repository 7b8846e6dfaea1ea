----------------------------- MODULE Locations -----------------------------
(***************************************************************************)
(* What a client starts and what it opens: the configuration of the        *)
(* package (_config.py), the name of the engine for this machine           *)
(* (binaries/platform.py), the engine's file (engine/utils.py), and the    *)
(* database the engine is told to open (_base_client.py).                  *)
(* The surroundings m of a program are a record:                           *)
(*   m.env, m.dotenv, m.prismaDotenv  variables: of the process, of .env   *)
(*                                    and of prisma/.env                   *)
(*   m.toml                           [tool.prisma] of pyproject.toml      *)
(*   m.cwd, m.home                    directories                          *)
(*   m.system, m.distro, m.like, m.openssl  the machine                    *)
(*   m.files, m.runs, m.versions      the paths that exist, those that can *)
(*                                    be executed, what --version says     *)
(* A path is the sequence of its names; an absolute one begins with "/".   *)
(***************************************************************************)
EXTENDS Options

Absolute(path)   == path # <<>> /\ Head(path) = "/"
Join(from, path) == IF Absolute(path) THEN path ELSE from \o path
Exists(m, path)  == Join(m.cwd, path) \in m.files

-----------------------------------------------------------------------------
(* The configuration.                                                      *)

Variable ==
  [prisma_version          |-> "PRISMA_VERSION",
   expected_engine_version |-> "PRISMA_EXPECTED_ENGINE_VERSION",
   home_dir                |-> "PRISMA_HOME_DIR",
   binary_cache_dir        |-> "PRISMA_BINARY_CACHE_DIR",
   binary_platform         |-> "PRISMA_BINARY_PLATFORM"]

BuiltIn(m, setting) ==
  CASE setting = "prisma_version"          -> {"5.19.0"}
    [] setting = "expected_engine_version" -> {"5fe21811a6ba0b952a3bc71400666511fe3b902f"}
    [] setting = "home_dir"                -> {m.home}
    [] OTHER                               -> {}

\* DefaultConfig: the environment, then pyproject.toml, then what is built in.
Setting(m, setting) ==
  First(At(m.env, Variable[setting]), First(At(m.toml, setting), BuiltIn(m, setting)))

\* Config.from_base: each version of the CLI and of the engine has a directory
\* of its own, unless there is one for all.
CacheDirectory(m) ==
  The(First(Setting(m, "binary_cache_dir"),
        {The(Setting(m, "home_dir"))
           \o <<".cache", "prisma-python", "binaries", The(Setting(m, "prisma_version")),
                The(Setting(m, "expected_engine_version"))>>}))

-----------------------------------------------------------------------------
(* The engine.                                                             *)

LinuxDistro(m) ==
  IF m.distro = "alpine" THEN "alpine"
  ELSE IF m.like \cap {"centos", "fedora", "rhel"} # {} THEN "rhel" ELSE "debian"

BinaryPlatform(m) ==
  IF m.system # "linux" THEN m.system
  ELSE IF LinuxDistro(m) = "alpine" THEN "linux-musl"
  ELSE LinuxDistro(m) \o "-openssl-" \o The(First(m.openssl, {"1.1.x"}))

EngineName(m) ==
  "prisma-query-engine-" \o BinaryPlatform(m) \o (IF m.system = "windows" THEN ".exe" ELSE "")

\* What `prisma generate` recorded: a sequence of platforms and their paths. A
\* single one is taken as it is, of several the first that runs here.
FromBinaryPaths(m, binaries) ==
  LET chosen == {i \in DOMAIN binaries : binaries[i].platform \in Setting(m, "binary_platform")}
      usable == {i \in DOMAIN binaries : Exists(m, binaries[i].path)
                                      /\ Join(m.cwd, binaries[i].path) \in m.runs}
      some   == IF Setting(m, "binary_platform") # {} THEN chosen
                ELSE IF Len(binaries) = 1 THEN {1} ELSE usable
  IN {binaries[i].path : i \in {j \in some : \A k \in some : j <= k}}

\* A platform that is configured and was not recorded is a KeyError.
Unrecorded(m, binaries) ==
  /\ Setting(m, "binary_platform") # {}
  /\ FromBinaryPaths(m, binaries) = {}

Named(m)  == At(m.env, "PRISMA_QUERY_ENGINE_BINARY") \ {<<>>}
Local(m)  == m.cwd \o <<EngineName(m)>>
Global(m) == CacheDirectory(m) \o <<EngineName(m)>>

\* The file a variable names, or else the first that is there; nothing else is
\* looked at once one is found, whatever its version.
EngineFile(m, binaries) ==
  LET there(paths) == {path \in paths : Exists(m, path)}
  IN IF Named(m) # {} THEN there(Named(m))
     ELSE First(there({Local(m)}),
            First(there(FromBinaryPaths(m, binaries)), there({Global(m)})))

\* ensure(): the engine, as a set that is empty when it raises.
Ensure(m, binaries, debug) ==
  IF Unrecorded(m, binaries) THEN {}
  ELSE {path \in EngineFile(m, binaries) :
          /\ Join(m.cwd, path) \in m.runs
          /\ debug \/ Named(m) # {}
             \/ m.versions[Join(m.cwd, path)] \in Setting(m, "expected_engine_version")}

-----------------------------------------------------------------------------
(* The database. A URL has a prefix and a path, or is another one.         *)

\* load_dotenv replaces nothing that is set.
LoadEnv(m) ==
  [v \in DOMAIN m.env \cup DOMAIN m.dotenv \cup DOMAIN m.prismaDotenv |->
     The(First(At(m.env, v), First(At(m.dotenv, v), At(m.prismaDotenv, v))))]

\* OptionalValueFromEnvVar: the URL, or nothing when it raises.
Resolve(m, url) == First(url.value, {v \in At(LoadEnv(m), url.variable) : TRUE})

\* Relative to the schema it is in, never to where the program was started.
SqliteUrl(m, url, relativeTo) ==
  IF url.prefix = "other" \/ Absolute(url.path) THEN url
  ELSE [prefix |-> "file:", path |-> Join(m.cwd, Join(relativeTo, url.path))]

\* The override of the caller, the SQLite database of the schema, or nothing:
\* the engine then reads the schema itself.
ConnectDatasources(m, client) ==
  IF client.datasource # {}
  THEN {[name |-> The(First(ds.name, {client.defaultName})), url |-> ds.url] : ds \in client.datasource}
  ELSE IF client.provider # "sqlite" THEN {}
  ELSE {[name |-> client.defaultName,
         url  |-> SqliteUrl(m, url, The(First(client.sourceDirectory, {client.schemaDirectory})))] :
          url \in Resolve(m, client.url)}

ConnectTimeout(given, client) == The(First(given, {client.timeout}))

-----------------------------------------------------------------------------
(* Directories are sequences of names, versions are names.                 *)

SettingsTyped(m, Names) ==
  /\ {".cache", "prisma-python", "binaries"} \subseteq Names
  /\ Setting(m, "home_dir") \subseteq Seq(Names)
  /\ Setting(m, "prisma_version") \cup Setting(m, "expected_engine_version") \subseteq Names

ClientTyped(m, client, Names) ==
  /\ client.sourceDirectory \cup {client.schemaDirectory} \subseteq Seq(Names)
  /\ \A url \in Resolve(m, client.url) : url.path \in Seq(Names)

(* Properties.                                                             *)

\* "CLI is incorrectly cached" when a version changes and the directory does
\* not: one cache directory belongs to one home, one CLI and one engine, unless
\* the configuration names a directory for all.
CacheIsOfOneVersion(m, n) ==
  /\ Setting(m, "binary_cache_dir") = {} /\ Setting(n, "binary_cache_dir") = {}
  /\ CacheDirectory(m) = CacheDirectory(n)
  => \A setting \in {"home_dir", "prisma_version", "expected_engine_version"} :
       The(Setting(m, setting)) = The(Setting(n, setting))

\* The SQLite database that a schema names is the same wherever the program is
\* started (issue 409), as long as it finds the same variables there.
DatabaseStaysPut(m, n, client) ==
  /\ LoadEnv(m) = LoadEnv(n)
  /\ Absolute(client.schemaDirectory)
  /\ \A directory \in client.sourceDirectory : Absolute(directory)
  => ConnectDatasources(m, client) = ConnectDatasources(n, client)

\* An engine of another version than the client was made for is started only on
\* request, and never because it lies nearer than the right one.
EngineIsExpected(m, binaries) ==
  \A path \in Ensure(m, binaries, FALSE) :
    /\ Exists(m, path)
    /\ Named(m) = {} => m.versions[Join(m.cwd, path)] = The(Setting(m, "expected_engine_version"))

=============================================================================
