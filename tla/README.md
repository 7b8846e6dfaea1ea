# A TLA+ model of Prisma Client Python

This directory specifies, model-checks and proves properties of Prisma Client
Python: of the parts whose correctness depends on the order in which things
happen (query-engine processes, transactions, client objects, client-side ids,
the code generator, the installation of the CLI, lazy model building), and of
the pure parts where one decision has to agree with another one made elsewhere
(the data model and the DDL made of it, the migration doctor, the query builder
and the decoders, the generated types, the options and where their values come
from). Paths in this file are relative to
`src/src/prisma/` unless they start with `docs/` or `src/`.

    tlc -workers 2 -config SharedEngine_safe.cfg MCSharedEngine.tla   # a run
    tlapm SharedEngineProofs.tla                                      # proofs

`PROJECT.json` holds the machine-readable side: components, runs, the lines of
code behind each definition (`map`), hazards, and for every property a mutant,
i.e. a plausible slip in the code (marked `Slip:` in the modules) that makes TLC
refute it.


## 1. Inventory

Prisma Client Python is a code generator and a runtime. `prisma generate` starts
the **generator** as a child process, which renders a client from the schema
into the installed package. A program creates a **client**, which on `connect()`
spawns a **query engine** (a Rust process with an HTTP interface) and sends it
queries. Around that are a command line that installs the Prisma CLI on demand,
and a set of tools that help migrate to SQLAlchemy.

| component | code | state it keeps | operations | what is hard |
|---|---|---|---|---|
| shared engine registry | `engine/_shared.py` | entries: key → process, refcount; a lock | attach, register, release, exit sweep | threads racing to spawn, last release against a new attach, processes that die |
| query engine process | `engine/_query.py` | `process`, `url`, `_shared_key` | connect (ensure, spawn, poll, register), close, aclose, query | partial failure of connect, cancellation, waits without a timeout |
| client | `_base_client.py`, `engine/_abstract.py`, `http_abstract.py`, `_async_http.py`, `_sync_http.py` | `_internal_engine`, `_tx_id`, `_copied`; HTTP session | connect, disconnect, `with`, `_copy`, `__del__` | tasks interleaving at each await, late closing tasks, garbage collection, exit |
| transactions | `_transactions.py`, `engine/_http.py` | manager's `_tx_id` | start, commit, rollback, `with` | lost or late requests and answers, engine death, reconnect in a block |
| batches | `generator/templates/client.py.jinja` | list of queries | add, commit, `with` | failure after the list was emptied |
| request and answer layer | `engine/_http.py`, `engine/utils.py` | — | request, error mapping, binary lookup | order of the error checks, two ways through one reply |
| client-side ids | `sa/_values.py` | uuid clock and counter, cuid counter, fingerprint | uuid(7), cuid(), ... | threads, clock set back, overflow, forks |
| generator | `generator/generator.py`, `generator/jsonrpc.py`, `src/prisma_cleanup` | the files of the package | request loop, generate, cleanup | failures between files, stale files of other options |
| generator data model | `generator/models.py`, `schema.py`, `_native_types.py`, ... | — (pure) | parse the DMMF, derive tables, keys, relations, types | two sides of a relation, annotations the engine does not send |
| generated client | `generator/templates/` (actions, models, types, metadata) | — | the methods of a model, its record classes, its TypedDicts | recursive types unrolled into numbered copies |
| model layout and partial types | `models.py.jinja`, `partials.py.jinja`, `models/` | registered partials | create_partial | what an option leaves of a class |
| query builder | `_builder.py` | — (pure) | build a query from arguments | keys renamed at every depth, what is selected |
| deserialisation | `_fastparse.py`, `_msgspecmodel.py`, `_slimmodel.py`, `_raw_query.py` | decoder caches | parse a record or a row | four backends for one wire format |
| generator options | `generator/models.py`, `_compat.py`, `_dsl_parser/` | — (pure) | validate a request, read the options | two names for an option, two readings of the environment, a dozen validators in an order |
| configuration, engine file, database | `_config.py`, `binaries/platform.py`, `engine/utils.py`, `_base_client.py` | — (pure) | find settings, the engine, the data source | several sources for one value, several places for one file |
| migration doctor | `sa/_scan.py`, `sa/_doctor.py` | — (pure) | find call sites, judge them, plan phases, report | calls inside transactions, operators nested in filters, what a report leaves out |
| metadata builder | `sa/_build.py`, `_schema.py`, `sa/_types.py` | — (pure) | tables, keys, indexes, foreign keys | relation modes, referential actions, passes in an order |
| declarative and Alembic output | `sa/_declarative.py`, `sa/_alembic.py` | — | ORM classes, baseline revision, comparison | what SQLAlchemy and Alembic read out of it |
| CLI and installation | `cli/prisma.py`, `cli/_node.py` | binary cache, nodeenv directory | ensure_cached, from_nodeenv | a half finished install, two processes installing |
| lazy model building | `_recursive.py`, `bases.py.jinja` | build lock, process-global stack size and recursion limit | ensure_built | global settings, a thread that fails or is left behind |
| command line, registry, proxies | `cli/`, `_registry.py`, `_proxy.py` | one global each | load, register, get | check-then-set |
| mypy plugin, grammar of the DSL, vendored lark | `mypy.py`, `src/grammars/`, `_vendor/` | — | — | out of scope |

How they interact: a client owns one engine object at a time; the engine object
owns a process, or holds a reference to a registered one; a transaction manager
refers to the client it was opened on and gives out a copy that shares its
engine object; the generated package holds the schema file that `connect()`
hands to the query engine; ids are generated on the client, so each thread and
each forked worker takes part.

Correctness, per component:

* *registry and engines* — no process is lost or owned twice; nobody is handed a
  process that is being terminated; a process lives until its last user left and
  no longer; connect and close return.
* *transactions* — all or nothing, whatever is lost; what a block reports is
  what happened; nothing is visible before the block ends.
* *client* — every process has an owner; a late close hits no newer connection;
  collecting one client does not break another.
* *ids* — uuid(7) sorts by creation; the non-random blocks of a cuid keep ids
  apart.
* *generator* — the modules of a package that can be imported were made together;
  success means complete.
* *options* — each option has the value that the documented precedence says, and
  no key is skipped.
* *locations* — the cache directory belongs to one version; the engine that is
  started is the expected one; the database is where the schema says.
* *installation* — an entrypoint stands for a whole installation of the version
  that looks for it.
* *doctor* — nothing on the runbook's STOP list hides in a call reported as
  verified; a block is judged as a whole; a phase costs what it says; a report
  counts every call once and says what it could not read.
* *metadata and classes* — the foreign keys are the relations of the schema, both
  sides of a relation agree, every INSERT can be completed, the ORM classes
  describe the tables they were made from, a comparison with the database
  reports the truth; the lookups of a program find these tables, and the rows it
  writes by hand hold what it gave.
* *queries* — what a method returns is what the engine found, whatever the record
  backend; an error is raised and never returned; a batch is applied once.
* *types* — whatever a program may write, the engine takes.
* *lazy building* — every build has room for its longest chain of relations, the
  process is left as the program set it, and no build blocks the next.


## 2. Modules

| module | models | composed with |
|---|---|---|
| `SharedEngine` | registry and process lifecycle, thread by thread | refines `EnginePool` |
| `EnginePool` | what sharing promises: users of a key behind one process | — |
| `SharedEngineProofs` | theorems about both | — |
| `Transactions`, `TransactionsProofs` | transaction blocks, requests in flight, the query engine | — |
| `Client` | life of a client, its engine objects, sessions and copies | — |
| `ClientProofs` | theorems about `Client`, `Batch` and `Exchange` | — |
| `Ids` | uuid(7) and cuid() in threads and forks | — |
| `Generation` | the generator process and the files it leaves | — |
| `Options` | what validation makes of a generate request (operators) | its accepted requests are the schemas of `Generation` |
| `Locations` | settings, cache directory, engine file and data source (operators) | extends `Options` |
| `Install` | `ensure_cached()` and the Node strategies, several commands at once | — |
| `InstallProofs` | theorems about `Install` and `Locations` | — |
| `Report` | the migration doctor: a file scanned statement by statement, its blocks, verdicts and phase | — |
| `Doctor` | the doctor's verdicts on the arguments of a call (operators) | extends `Report` |
| `Diagnosis` | the report about a whole code base, and the schema facts in it (operators) | takes verdicts as `Report` reaches them |
| `MigrationProofs` | theorems about `Ids`, `Report` and `Diagnosis` | — |
| `Datamodel` | tables, keys and relations as the generator derives them (operators) | — |
| `Tables` | the MetaData builder (operators) | extends `Datamodel` |
| `Declarative` | ORM classes, and what SQLAlchemy reads out of them (operators) | extends `Tables` |
| `Schema` | the passes from the data model to the database and back | extends the three above |
| `Accessors` | the lookups of `_schema.py`, the rows of `values_for_create()` and `values_for_update()`, derived names | extends `Schema` |
| `SchemaProofs` | theorems about `Schema` and `Accessors` | — |
| `Records` | record classes and partial types (operators) | — |
| `Builder` | arguments to query (operators) | extends `Records` |
| `Rendering` | the text of a query, its strings, and how the engine reads it (operators) | extends `Builder` |
| `Converters` | answer to values (operators) | extends `Records` |
| `Exchange` | a query and its answer, for any builder and any converters | extends `Records` |
| `Batch` | a batch that several tasks add to and commit | — |
| `Query` | the calls of the generated client; batches | extends `Builder`, `Converters`, `Exchange` and `Batch` |
| `Types` | the TypedDicts of `types.py`, walked key by key | — |
| `GenerationProofs` | theorems about `Generation`, `Options` and `Types` | — |
| `RelationDepth` | `max_relation_chain_depth()`, one turn of its loop at a time | — |
| `LazyBuild`, `LazyBuildProofs` | `ensure_built()` in threads, under the measured depth | extends `RelationDepth` |
| `MC*` | small instances for TLC: operators for constants, symmetry sets | extend the above |

### SharedEngine

One thread per engine object; one action per critical section, signal, wait or
poll. `pc[e]` names the point of `connect()` or `close()` at which the thread
stands. `entries` is `_Registry._entries`, `process`, `url` and `shared_key` are
the engine's attributes, `doomed`/`deadline` the arguments of
`_terminate_popen`, `proc` what the operating system knows of each process.

* `connect()`: `Connect`, then `AttachHit`/`AttachStale`/`AttachMiss`
  (`_Registry.attach`), `EnsureFile`, `Spawn`/`SpawnFails`, `PollReady`/
  `PollGivesUp`/`PollCancelled`, and `KeepPrivate`/`RegisterFirst`/
  `RegisterLost` (`_register_shared`, `_Registry.register`).
* `close()`: `CloseShared` clears key and process, `ReleaseKeeps`/`ReleaseLast`
  is `_Registry.release`, `ClosePrivate` is the other branch of `_kill_process`,
  `Interrupt`, `Reap`, `WaitExpires` are `_terminate_popen`.
* `Sweep` is the registry's atexit hook; `Exit` and `Crash` are the environment.

Abstractions: a URL is the process that listens on it; the POSIX branch of
`_terminate_popen`; one thread per engine object; process ids are not reused;
`MaxCrashes` bounds the processes that die on their own.

### Transactions

A call is three steps — the request is sent (`Send`), the engine serves it
(`Serve...`, external), the caller takes the answer (`Succeeds`/`Fails`) — and
the caller may stop waiting at any point (`GivesUp`: the 30 s httpx timeout, a
broken connection, a cancelled task), after which the request may still be
served, later or never. `home[t]` is the engine object the copy of the client
shares; `commit()` and `rollback()` go through `self.__client._engine`, the
engine the *original* client has by then (`Ask`), and raise
`ClientNotConnectedError` when it has none. The engine may roll an open
transaction back at any time (`Expire`), die (`Crash`) or be disconnected. A
write is a model value; a query that only reads changes nothing and is left out;
a transaction opened inside another is one more manager.

### Client

Tasks of one loop (`async = TRUE`), which interleave at each await, or one
thread. `Connect` is everything up to the first await in `spawn()`; `PollFails`,
`PollAnswered` and `Connected`/`GivesUp`/`Cancelled` are what can follow;
`Disconnect`/`DisconnectAsync`, `SessionClosed` and `LateClose` are the three
closings that `disconnect()`, `aclose()` and `stop()` perform, the last one in a
task of its own (`engine/_abstract.py:36`). `Free` is `__del__`, `Referenced`
the object graph it depends on, `Exit` the atexit hooks, which run once no call
is in progress. Killing a process is one step here (its steps are in
`SharedEngine`), only the original client disconnects, and an interpreter that
is killed runs no handlers and is not modelled.

### Ids

Threads (`Workers`) of several processes share the host's clock, which moves
both ways. `_uuid7` reads the clock before it takes the lock, hence `ReadClock`
and `Issue`. `Fork` copies the generators' globals. Random blocks are left out:
the properties are about the blocks that must not depend on luck. `calls`, `first`
and `cuids` are history: whose call made an id, which no id carries.

### Generation

`Begin` packages the schema and plans the files in the order of `generate()`;
`Render` writes one; `Fail` is the `except:` clause, for an exception and for
Ctrl-C; `Refuse` is a `ValueError` raised before the `try`; `Kill` runs no
handler; `Cleanup` is `python -m prisma_cleanup`. A file is represented by the
schema it was made from, four templates stand for all, the output directory is
the package itself. `Loaded` is what a program imports, by Python's rule that a
package goes before a module of its name (external): the `models/` package of an
earlier client, which nothing but a clean-up removes, hides a later `models.py`
(`Leftover`). In the run a schema is a request that `Options` accepts, and
`Separate`, `Minimal` and `Rejected` are read from its configuration.

### Options

A request is a record: the generator block, the variables, the data model. A value
is its text with the booleans and integers that pydantic reads in it. `Prepared` is
the root validator that puts the environment in (it runs for the old and the new
names), `Transformed` the validators that run before the fields
(`TransformEngineType`, `Rename`, `BackendKnown`), `WithScript` the default partial
type script, `ConfigAccepted` what is refused, in the end for a key that is no
option, and `Config` what is left. `Accepted` adds the data model: names, types,
composite types, `@Python(...)` declarations, and the engine's version.

### Locations

`Setting` is a value of the configuration with its sources in order,
`CacheDirectory` and `EngineName` are what is made of them, `EngineFile` is the
search of `engine/utils.py` and `Ensure` its checks; `ConnectDatasources` is what
`connect()` hands to the engine. The surroundings of a program (variables, `.env`
files, directories, what can be executed) are a record and do not change.


### Install

A command of version `version[c]` walks through `ensure_cached()` (`Begin`, `Look`,
`Clear` for `fetch --force`, `MakeDir`, `WritePackage`, `Check`, `Recheck`,
`Finish`) and, where it needs npm, through one of the strategies of
`cli/_node.py` (`ResolveElsewhere`, `ResolveNodeenv`, `StartNodeenv`). The
directories (`exists`, `package`, `entrypoint`, `installed`, `nodeenv`) are
shared by all commands and nothing is locked. npm and nodeenv are external: they
write the directory they are given file by file and end well or not. `Interrupt`
is Ctrl-C or a kill, `Upgrade` installs another version of the package between
two commands.

### Report and Doctor

A file is a sequence of `with` statements (`Open`, `Close`) and calls (`Call`).
`Resolve` says through which client a call runs, `Block` to which transaction it
belongs, `Classify` reaches the verdict of `_doctor.py`, `Tally` and `Phase` are
the report. The verdicts on the values of arguments are a parameter of `Report`
(`Examine`), so that what is proved of the report holds whatever they are; in
`Doctor` they are `CheckArguments` and the recursive operators below it.
Expressions are what the scanner can tell apart: constants, literal mappings and
sequences, and what it cannot read. The reference is section 5 of
`docs/prisma-to-sqlalchemy-runbook.md`, stated on paths into an expression
(`Places`), independently of the recursion of the code. A block is identified by
a number where the code uses its kind and line, i.e. each `with` item stands on
a line of its own; nested blocks bind different names.

### Diagnosis

What `doctor` makes of all files: `ScanPaths` (which files are read), `SchemaFacts`
and `ScopeCheck` (what the report says of the schema; `StripComments` reads the
characters of a schema file), `Findings` (a verdict and the first reason for it),
`BlockTransactions`, `Group` with `Phase`, `Caveats`, `Summary` and the lists of the
text, cut at `MAX_LISTED`. A finding is a record. `FileAgrees` connects it with
`Report`, where the calls of one file are judged.

### Datamodel, Tables, Declarative, Schema

`Schema` is the pipeline: `DescribeModel` (the generator), `AddTable`, `AddKeys`,
`AddJoinTables` with their refusals (`_build.py`, whose second pass adds foreign
keys once all tables exist), `Plan` and `Render` (`_declarative.py`), then
`Push` (the database Prisma creates, external), `Upgrade` (the baseline
revision) and `Autogenerate`. What PostgreSQL and Alembic make of a default that
draws from a sequence is external: the name is spelled with quotes only where it
must be (`Spelled`), while the metadata always quotes it (`Wanted`), and an INTEGER
or BIGINT column that draws from a sequence of its own shows no default
(`TakenForSerial`). A type of a column is a name, a constraint a
record; other spellings of names are left out, their equality is not.

### Accessors and Rendering

`Accessors` adds what a program does with the metadata: lookups (`ModelSchema`,
`ColumnOf`, `RelationOf`, `EnumLabel`), the rows it makes for hand-written INSERTs and
UPDATEs (`RowToCreate`, `RowToUpdate`, with the refusals of `_convert` and
`_translate`), instants (`Normalise`, `Timestamp`) and names (`TruncateIdentifier`).
The type declarations of `_schema.py` are read as promises about its entries:
`FieldSchema`, `ConstraintSchema`, `IndexSchema`, `RelationSchema`.

`Rendering` is the text of a query as a sequence of characters: the nodes, joined and
indented (`textwrap.indent`, `str.splitlines`), and values (`Dumps`, the serializers).
`Read` is the engine's side, external: it splits the text into strings and marks and
drops the layout.

### Records, Builder, Converters, Exchange, Query

`Exchange` is what happens between a call of the program and what it gets: the
method refuses the call (`RefusedCall`) or the builder the query
(`RefusedQuery`), or the query is sent (`Send`); the engine answers (`Answer`)
or fails (`Fault`); `Receive` decodes the answer, in one pass or not, and raises
what `handle_response_errors` raises. What the method asks for, what the builder
refuses, what the engine says and how a record is converted are constants there.
`Query` gives them their values: `MethodRequest` and `MethodResult` are the
generated methods, `QueryRefusals` the builder, `EngineAnswers` the engine
(which rows a filter matches is its choice, whether it understands the query
(`Understands`) and what it says of a row is not), `MsgspecRecord` the one-pass
decoder; `Converters` are those of the other backends (pydantic, slim,
msgspec). A client makes calls (`OutsideBatch`) or works on a batch (`InBatch`).

### Batch

One list of queries that every task with the `Batch` object adds to
(`AddToBatch`) and commits (`Commit`). `SendQueries` empties the list and only
then awaits the engine, which serves a commit as one transaction (`RunCommit`)
or refuses it (`RefuseCommit`) at any time, also after the caller was told of a
failure (`Fail`: an error, a timeout, a lost answer, a cancelled task).
`EnterBatch`, `LeaveBatch` and `RaiseInBatch` are the `async with` of one of the
tasks. Threads that share a batch of the synchronous client are not modelled:
`commit()` reads and resets the list in two steps there.

### Types

`Definitions` are the TypedDicts that `types.py.jinja` renders for a schema and a
configuration, each a name and rows (a key, and the names of the types that a value
under it may be); `Imported` is what is left of them when a later section binds a name
again. `Write` follows one key; the state also keeps what the engine takes at this
place (`Takes`, external), derived without the names, from Prisma's grammar of
inputs and not from the templates. What is written below a relation is at a place
that remembers the field back: a record that is created there has neither that side
nor its foreign keys (`Without`); a relation that has to stay is not disconnected
or deleted. What the templates offer nevertheless are six families of keys
(`Overoffered`, section 5, 13). A name that is missing, or
stands for a type of something else, is a state in which the two disagree. The
order of the keys and of the definitions of one section is left out, and so are
the arguments of `group_by` but for the names they lead to. That a schema turns on the
preview features its client uses is assumed, and that keys of one input which
exclude each other are not given together.

### RelationDepth and LazyBuild

`RelationDepth` is the search for the longest chain, with its budget: `Start`,
`Deeper`, `Back`, and the four ways out. `LazyBuild` goes on with the result.
A thread that makes a record (`Use`) acquires the lock, tests the recursion
limit (`Enough`/`TooLow`), raises it (`Raise`), enlarges the stack size of new
threads (`Enlarge`), starts a worker (`StartWorker`/`CannotStart`), waits
(`Join`/`Interrupt`), restores the size (`Restore`) and releases the lock: one
action per access to what threads share. `worker` are the threads that build;
one that was left behind by an interrupt goes on. The program raises the limit
at any time and sets stack sizes while nothing is built. How many frames a build
needs is pydantic's (`Frames`, external): a constant number per level. `Enlarge`
always succeeds: the platform without control of the stack of its threads
(`_recursive.py:73`), where a build runs on the stack it gets, is left out.


## 3. Runs

| run | instance | shows |
|---|---|---|
| `shared_safe` | 3 engines, 2 datasources, 4 processes, 2 crashes | no orphan, one owner, no doomed process handed out (part of `Ownership`), no reference that nobody drops; until the first crash counts are exact and no process in use is killed |
| `shared_live` | 2 sharing engines and a private one on 1 datasource, 3 processes, fair | calls return, `EnginePool` is implemented, the private engine is left alone |
| `tx_blocks` | 2 managers, 2 transactions, 2 writes, 2 engines | all-or-nothing, no write before the end, success means durable |
| `ids_order` | 3 threads, 2 processes, 4 cuids, 1-bit counter | uuids sort; cuids stay apart but for wraps and shared fingerprints |
| `client` | 2 tasks, 3 engine objects, both interfaces | no stray process, connections stay usable, collecting a client breaks no other |
| `generation` | 4 schemas with different options | the modules that are loaded were made together, but for a leftover models package; success means complete |
| `install` | 2 commands, 2 versions, 8 machines | an entrypoint nobody is installing is whole; a command runs its own version |
| `doctor` | 4 calls in 2 blocks, and 2000 single calls | no STOP hides, blocks are whole, phases cost what they say |
| `schema` | more than 10000 data models of 2 models | keys, sides, inserts, classes and comparison are right |
| `query` | every method, 2 models, 4 backends; a batch of 3 queries and 3 commits of 2 tasks | answers are the rows, errors are raised, a batch is applied once |
| `types` | 3 models, 13 configurations | what may be written is taken, but for six families of keys; includes nest as documented |
| `lazy` | 2 threads, 3 models in 4 shapes, budget 3, 1 fault, fair | builds fit and succeed, the stack size is restored, uses return |

Why the bounds are enough. *Shared engines*: a spawn race needs two engines on
one key and a third party that attaches or spawns while the loser terminates; a
second key shows interference between keys; the fourth process lets a respawn
follow two crashes. The theorems hold without these bounds. *Transactions*: two
blocks that overlap, two engines for a reconnect in between, and two writes so
that a block can be half written; a longer block repeats the same steps. *Ids*:
the counter overflows at 2 and the counter block wraps at 3, so that overflow,
carry and wrap happen within four calls, and two calls of one millisecond may
have the clock set forth and back between them; theorems cover the real widths,
and processes whose ids agree in their last two digits.
*Client*: each `connect()` after a `disconnect()` takes a new engine object, so
three objects are an old one that is still closing, the current one and the
next. *Generation*: one schema for each layout of files, and a refused one; the
order of requests is unbounded. *Install*: two commands overlap in every way,
and each may start again; the theorems hold for any number. *Doctor*: a block in
a block is the deepest that handles are told apart, four calls put two in each;
filters nest three deep, one more than the recursion needs to be used on its own
result. *Schema*: relations are between two models or of one with itself, and
all columns are independent but for keys and relations; each data model varies a
few features at a time, among them every pair that the code treats together;
sequences with lower-case names and with others, owned and not, drawn from by
INTEGER, BIGINT and SMALLINT columns.
*Query*: two models with relations in both directions; calls nest includes in
includes and lists in dicts in lists; two tasks share a batch, so that one adds and
commits while the other awaits, and three commits are two that overlap and a
later one. *Types*: the depths 2, 5 and 8 the
documentation shows and the recursive form; relations that are required, optional, lists
and of a model with itself, a model with strings and one without, and lists and
Json among the scalars, so that each of the six families is met; every copy is walked, and only
the recursive includes, which have no last one, are cut after `MaxLevel`. *Lazy*: three models are an empty
graph, a pair, a chain and a clique; a budget of 3 runs out in the chain, the clique
reaches its best answer after two steps;
two threads contend for the lock, and a second worker takes the place of one
that was left behind. The theorems hold for every graph, budget and size.

Deadlock is checked in the runs of shared engines (a program that exited
stutters explicitly) and of the generator. The others switch it off, since their
programs may stop: no id, engine, transaction or model is left to use, or the
file, the pipeline or the walk is at its end.

Fairness of `SharedEngine!FairSpec`. A thread inside a call is
scheduled by the operating system: weak fairness on each step of a call. The
poll loop is bounded by its timeout, so it ends with success or by giving up; it
need not be cancelled. A query engine that got SIGINT exits: an assumption about
the engine, which `_terminate_popen` makes too when it waits without a timeout.
Nobody has to connect or close, and crashes are never required.

Fairness of `LazyBuild!Spec`. A thread that can run does (weak fairness on its
step), a worker that was started runs to its end. `Acquire` is weakly fair too:
the lock may be taken by another thread again and again, but only as often as
there are models to build, since a model that is complete never comes here
again, and a build that fails does so by one of the `MaxFaults` faults.


## 4. Proofs

TLAPS checks every theorem for all values of the constants that satisfy the
named assumptions of the modules (`SharedEngineAssumption`,
`TransactionsAssumption`, `ClientAssumption`, `IdsAssumption`,
`GenerationAssumption`, `InstallAssumption`, `BatchAssumption`, `ExchangeAssumption`,
`ReportAssumption`, `DatamodelsAreWellFormed`, those of `RelationDepth` and `LazyBuild`, and
`SchemaAssumption` and `DepthAssumption` of `Types`).

The modules `MC*` hold further assumptions, which only TLC evaluates: the properties
of the modules of operators, over small sets of inputs. They are
`OptionsAssumption` (four options under every name, in the block and in the
environment), `LocationsAssumption` and `EnginesDiffer` (every combination of seven
settings, files and machines; each outcome of the search occurs),
`DiagnosisAssumption` (every three findings in two modules, every text of seven
characters), `RowsAssumption`, `StampsAssumption`, `NamesAssumption` and
`RefusalsAssumption` (rows for every model of the run and every choice of fields),
`LayoutAssumption`, `StringsAssumption`, `InstantsAssumption`,
`SerializersAssumption` and `SeparatorAssumption` (the text of every query of the
run), `BlogAssumption`. What they show on instances is proved for all below, except
for `Rendering` and the lists of `Diagnosis`.

**`SharedEngineProofs`.** None of the safety invariants is inductive alone: that
no process is orphaned when a release drops an entry depends on who owns the
process, which depends on where each thread stands. The inductive invariant
`Structure` is the conjunction of

* `TypeOK`;
* `Labels` — what each point of a call knows (no process before the spawn, a
  process and no key while polling, `doomed` exactly while terminating);
* `Ownership` — a process belongs to one engine, to the registry, or to the
  engine that terminates it;
* `SharedIsRegistered` — the process a sharing engine spawned is still
  registered or already being terminated;
* `NoOrphan` and `RefcountBounded`.

It is proved conjunct by conjunct, each lemma using those before it, and holds
whatever crashes or is cancelled. `NothingAtRest` follows from it without a
further induction. `SameDatasource` has an induction of
its own on top of it (`BuiltForKey`), and so has `PrivateIsPrivate` (`Apart`: the
URL of an engine that does not share is its own process and nobody else's).
Exact counts need more: `UntilCrash`
(`Healthy` — a registered process runs, and so does the one an engine polls —
and `RefcountExact`) holds while no process died on its own; `CrashesGrow` shows
that this condition is never regained. From it follow `RefcountExactUntilCrash`
and `KilledAfterLastUserUntilCrash`. After a crash both really fail (section 5,
1). `ImplementsPool` maps each step to a step of
`EnginePool` or a stutter, for `MaxCrashes = 0` (with crashes the abstract
specification would have to promise less).

**`TransactionsProofs`.** A request says something about the block that sent it,
and is served after that block has moved on, or a second manager has. So the
invariant is about requests in transit. `Waiting` ties the ones somebody waits
for to the manager's call; `InTransit` is what remains true of every request
however late: a start request names a transaction nobody has opened, a query one
of its block's, and a commit request a block that is `Finished`, i.e. whose body
ended without an exception. `Ledger` follows: a committed transaction is
finished, and what it staged is in the database. `Blocks` and `Apart` keep
transactions, managers and queries apart, and `Observed` relates an answer to
what was done. `FailedBodyLeavesNothing` and `InvisibleInBody` follow from
`Ledger`, `ReturnedIsDurable` from `Observed`, and `OnlyWholeBlocks` from a look
at the two requests that write (`DatabaseStep`).

**`ClientProofs`.** `NoStrayProcess` and `StaysUsable`
need to know what each task may still do to an engine object after an await:
`Targets` (a task that closes works on an object no client will use again),
`Exclusive` (one task connects an object, and it is not connected yet),
`Sessions` (a session of the asynchronous client is closed for good only when
its object is detached), `OneThread` for the synchronous client and `Lifetimes`
for what is collected. `EngineOutlivesUsersCorrect` assumes `KeepsManager`, i.e.
that the program keeps the transaction manager; without it the property fails
(section 5, 4).

**`ClientProofs`**, *batches.* A commit is served late, after its task has gone on
or another one has committed, so `BatchInv` is about all commits made so far:
`Queued` and `SentOnce` (a query is in the list or in one commit, never in two),
`Sorted`, `RunOnce` (the engine ran what it says it ran, once), `SentAll` (what is
not in the list was sent), `LastIsAwaited` (a task waits for its last commit
only) and `OwnerIsDone` (what was added before the end is sent by
then, and once the block has ended its owner waits for none of it). `InOrder` needs `LastIsAwaited` and `RunOnce`: the earlier commit of a
task had returned before the later one was sent. `BatchCorrect` is about
`BatchSpec`; its steps are the ones that `Query` takes as `InBatch`.

**`ClientProofs`**, *errors.* `ErrorsAreNeverResults` compares what the program got
with the reply, and the reply may be decoded in two ways. `ExchangeInv` keeps that
the outcome is what `Outcome` and `Response` make of the reply; `ErrorsAreRaised`
(neither way of decoding returns anything once there is an error),
`NamedIsRaised` (`handle_response_errors` raises what the first entry names that
names anything) and the two methods that turn a missing record into `None` do the
rest. The theorem is about `ExchangeSpec`, with any method, builder, engine and
converter; `Query` takes its steps as `OutsideBatch`.

**`MigrationProofs`**, *ids.* `IInv` = `TypeOK`, `Homed` (only a thread of a process is
inside a call), `Linked` (the globals are the last uuid issued), `Ahead` (a counter
is ahead of its process's calls by what a fork handed down), `Counted` (no two
cuids are of one call, and each holds what the counter was at its call) and
`Marked` (a fingerprint is that of the process whose first call fixed it).
`UuidsSort` follows from `Linked` and `TickForward`; `CuidsStayApart` from
`Counted`, `Marked` and `CloseRemainders`, a lemma on remainders. The order of uuids is proved for times
below 2^48 milliseconds, where the timestamp field wraps.

**`MigrationProofs`**, *report.* `BlocksMigrateWhole` compares what `_block_for`
found for each call with where the call runs, and the two are decided while the
block is open, from handles that later blocks may bind again. `ReportInv` is
`Nested` (open blocks have different handles and ids, so that a handle leads to
one block), `Placed` (the calls that run in one block belong to it all or none,
those still to come included), `Classified` and `ReportTypeOK`.
`PhasesCostRight` then is counting: a single call counted as STOP is one by
itself, since what blocks another call is counted with it (`TallyCounts`).
`VerifiedIsVisible`, the part of `VerifiedHidesNoStop` that is about what can be
seen of a call, needs `ReportAssumption` (what is not an action of Prisma is not
recorded). All three hold for every `Examine`.

**`MigrationProofs`**, *the whole report.* `ReportAddsUp` is counting: the three
statuses partition the findings, each finding has one path, and the phases are
exhaustive and exclude each other. `NothingIsHidden` looks at what
`BlockTransactions` may change (verified to STOP, nothing else), and at the codes a
caveat counts. `ReportedBlocksAreWhole` and `ModelNamesAreRight` hold
for any findings and any schema, and `FileAgrees` for any file that `Report` may have
scanned.

**`GenerationProofs`.** `Progress`: while a request is worked on, its schema is
packaged, and each file of its client either is made already or is still in
`todo`. `PlanComplete` shows that the plan of `generate()` names every module
and stub of a client, for every combination of options. `MadeWhole` (the modules of
the layout of `client.py` were made with it) is then inductive: a success makes
the package whole, a failure empties it, and a killed generator sets `torn` until
the next success or clean-up. `WholeClient` follows: what is loaded beyond that
layout is a leftover package. `OneLayoutIsWhole` removes the exception where all
schemas have one layout: `NoPackageStep` shows that no package appears where none
is planned. `SuccessCorrect` follows from `Progress` with nothing left to render.

**`GenerationProofs`**, *options.* `ConfigIsAsDocumented` follows the keys through
the validators: what each one leaves under a key (`RenameAt`, `EnvAt`,
`TransformedAt`, `EngineTypeAt`, `ScriptAt`), what all of them leave (`PreparedAt`) and
which of an option's two names holds its value then (`KeyAt`). That value is the one
of `Sources`, because the environment was put in first.
`NoKeyIsIgnored` needs the other direction, that no validator drops a key it does
not know. `BackendIsKnown` has a hypothesis, that the backend is not given twice
(section 5).

**`GenerationProofs`**, *types.* A copy of a recursive type is found by its name, which
one template puts together and another one expects. `WalkInv` says that the walk
always is at a place of the engine's grammar with a type that is meant for it
(`IsMeant`: which names each place has, and for includes which copy each level
has: `AtLevel`, `IncludeAtLevel`). For each kind of place one lemma (`FromCreate`,
`FromWhere`, `FromInclude`, ...) looks up the rows behind the name and shows that
each key, renamed, is taken or of one of the six families of section 5, 13, and leads
to a type that is meant for what comes next;
`WalkTyped` follows. The relation a nested write is below has a field back
(`RelatedSide`, from `SchemaAssumption`), so that the keys which `FromCreate` finds
offered and not taken are exactly foreign keys of that field. `WalkNests` adds the arithmetic of levels: the include of
level *l* is copy 2*l*-3, which has a next one as long as *l* - 1 ≤ (depth - 1) ÷ 2.
Two hypotheses are about names, which the provers cannot take apart. `NamesApart`: no
two types of a schema get one name and different rows; a schema with models `Todo`
and `TodoList` breaks it, and then the property does fail (section 5, 10).
`KeysApart`: the fields of a model have different names, none of which is a compound
key, `AND`, `OR`, `NOT`, `_relevance`, `-` (no field) or a name that the query builder renames. TLC
evaluates both on the schema of the run (`BlogAssumption`).

**`InstallProofs`.** That an entrypoint stands for an installation depends on
where every other command is: one may unlink it, or be about to write it. `Whole`
adds `HasPackage` (a command past `WritePackage` has its `package.json` for as
long as nothing was disturbed, so that npm installs where the entrypoint is
looked for). For commands that do not overlap `Ran` adds that a directory holds
its own version (`OwnVersion`) and that what a command has looked at is still
there when it starts Node (`Looked`).

**`InstallProofs`**, *locations.* `CacheDirectoryIsOwn` is cancellation: from two
equal paths that end in the same number of names, home, version and engine are
equal, for homes of any length. `DatabaseStays` and `EngineIsTheExpected` follow the
conditions of the code.

**`LazyBuildProofs`.** Two arguments that meet in `BuildsFit`. The *search*:
`Searched` says of every chain of distinct models that is longer than the best
one so far that its start is still to come, or that it leaves the current path
for a neighbour that is still untried (`Pending`); each turn of the loop keeps
that (`StartStep`, `DeeperStep`, `BackStep`), so that when nothing is left no
chain is longer than the answer (`DepthCorrect`), and the fallbacks answer with
the number of models. The *run*: `RunInv` says what a thread knows between
`Acquire` and `Release` (`HolderOwnsLock`, `LimitRaised`, `SizeSaved`,
`SizeUntouched`) and that a worker was started with the stack of the
measured depth under a raised limit (`BuildersAreReady`). `ChainFits` connects
them: what is reserved for the longest chain is enough for every one, rounding
included. *How uses end* (`EndBuilt`) is a third induction, on top of both:
`Awaits` (the worker that a thread waits for is the one it started, for its
model, which nobody else starts again or collects) and `BuiltIsComplete` (no
build runs into the recursion limit, since it has room for every chain). The
assumptions are `HeadroomAssumption` (a build needs no more frames
beside its levels than `_RECURSION_HEADROOM`) and `StackAssumption` (the schema
is not too large for `_MAX_STACK_BYTES`: with the constants of the code, about
9000 models in one chain).

**`SchemaProofs`.** All five properties of the pipeline, for any set of data
models. What a property compares was made by different passes over the same data
model, so the inductive invariant says what each pass has done so far: `Position`
(a pass has visited the models before its position), `SchemaInv` (their
descriptions are `ModelMetadata`), `TablesInv` (their tables are bare before the
second pass and carry their foreign keys after it; every further table is the
join table of some relation), `ModeInv`, `EmittedInv` (what is emitted is what
`_declarative.py` makes of the finished tables) and `DatabaseInv`. There is one
lemma per action, and `JoinTableIsStable` shows why `AddJoinTables` keeps its own
work. The properties then are facts about the operators:

* `DiffIsTruth` — `ComparisonFollows`, case by case over what a default draws from
  and who owns the sequence, with the two cases of `Misjudged` apart; a name has one
  spelling, so that two names never look alike (`SpellingsDiffer`);
* `ClassesDescribeTheirTables` — `ColumnIsReadBack` and `ClassIsReadBack`, case by
  case over `ColumnArgs` and the name of the key, which is there exactly when
  the flags of the columns would give another order;
* `InsertsAreComplete` — `DatabaseFillsIn`, for each kind of default;
* `ForeignKeysAreTheRelations` — `ConstraintsAreDeclared` (a set of constraints
  and the set of fields that declare them correspond one to one, hence the count);
* `SidesAgree` — `SidesFindEachOther` (each side is the only candidate of the
  other), `SidesDescribeOneRelation`, `JoinTablesAreShared` (a join table belongs
  to one pair of models), `JoinColumnsLead` and `EmittedInPairs`.

*Accessors.* `MetadataIsAsDocumented` and `LookupsAreRight` use the same inductive
invariant: an entry is `ModelMetadata`, and what the type declarations say of it is
shown for that operator (`FieldsAsDocumented`, `IndexesAsDocumented`,
`RelationsAsDocumented`). `RowsAreTheData` rests on names being apart: no two fields share a
column, so that nothing a program gives is overwritten by a value the client fills in.
`StampsAreInstants` and `NamesFit` are about arithmetic and sequences: two clocks in
different zones stamp one instant alike, and a derived name fits the limit, keeps its
suffix and is the same for a table name that was cut before.

The assumption `DatamodelsAreWellFormed` is what `prisma validate` checks before
the engine calls the generator, and what `generator/models.py` asserts or looks up
without a default: names are unique within a model, keys are scalars,
`autoincrement()` stands on integers, the names of constraints and join tables do
not collide, and a relation has two sides, at most one with the key ("Both sides of a Prisma
relation carry the same `relationName`", `generator/models.py:1408`). A name that
two relations share between different pairs of models is outside of it: there
`get_related_field` takes the first candidate of the related model, which is the
right one as long as no other relation of that model has the name. TLC evaluates
the assumption on every data model of the run.

**Only model-checked**: `CallsReturn` and `UsesReturn` (liveness is out of the
prover's reach); `LayoutSaysNothing` and `StringsAreKept` of `Rendering`, `TextAddsUp`
and `StringsStay` of `Diagnosis`; the second half of `VerifiedHidesNoStop`, and
`AnswersAreTheRows`. The latter compare what a recursion over expressions or arguments
computes with a reference definition, for every input: an induction over data
that the installed provers cannot use, in modules (`Doctor`, `Builder`,
`Converters`, `Rendering`) that need `RECURSIVE` operators.


## 5. Disagreements met while modelling

The first thirteen can be seen in TLC: each names a definition that no run checks
because the code does not keep it. Listed in the configuration of the run that
is named (for 4 with `KeepsManager = FALSE`, for 10 with `Schema <- TodoLists`),
it is refuted within seconds.

1. `engine/_shared.py:102` — `release()` looks its entry up by key only. A and B
   share P1; P1 dies; C connects, which drops the stale entry and registers P2;
   B disconnects and takes P2's only reference: P2 is killed under C, against
   "killed when the last user disconnects" (`_shared.py:11`).
   `KilledAfterLastUser`, run `shared_safe`.
2. `generator/templates/client.py.jinja:267`, docstring of `tx()` — it calls
   `client.user.create` on the outer client, so the first record stays when the
   second fails, against "neither of the records will be created".
   `NeitherIsCreated`, run `tx_blocks`.
3. `sa/_values.py:410` — the fingerprint that "separates two processes"
   (`:394`) is cached and survives `fork` together with the counter.
   `FingerprintsSeparate`, run `ids_order`.
4. `_base_client.py:252` — `__del__` assumes that a running transaction keeps
   the original client alive (`:244`); the client that `start()` returns does
   not. `EngineOutlivesUsers`, run `client`.
5. `generator/generator.py:246` — the schema is packaged before the options are
   validated, outside the `try`: a refused request leaves the new schema with
   the old client. `PackagedSchemaMatches`, run `generation`.
6. `sa/_doctor.py:995` — "`tx()` blocks migrate whole": a batch opened on the
   handle of a transaction is a block of its own, and a transaction opened on
   `get_client()` is none (`_scan.py:490`), so that a STOP in one leaves the
   other verified. `TransactionsMigrateWhole`, run `doctor`.
7. `sa/_doctor.py:23` — a filter or payload with an expression that the scanner
   cannot read is to be UNKNOWN: `find_many(where={'tags': tag_filter})` is
   certified. `UnreadIsNotCertified`, run `doctor`.
8. `generator/_native_types.py:58` — a line is cut at its first `//`, inside a
   string too: in `site String @default("https://x") @db.VarChar(10)` the
   annotation is gone and the column becomes `text`, against "`@db.*` wins over
   the default scalar mapping" (`sa/_build.py:445`). `@relation(map:, onUpdate:)`
   is lost the same way. `NativeTypesReachTheColumns`, run `schema`.
9. `sa/_declarative.py` — tables without a class never get their
   `ALTER SEQUENCE ... OWNED BY`; and `remote_side` (`:788`) makes both sides of
   a self-referential one-to-one relation many-to-one, which SQLAlchemy rejects.
   `LooseTablesDescribeTheirTables`, `DirectionsOppose`, run `schema`.
10. `generator/templates/types.py.jinja:641` — with models `Todo` and `TodoList`,
    `TodoListRelationFilter` is both the list filter of `Todo` and the relation
    filter of `TodoList`; the later one wins. `TypedKeysAreTaken`, run `types`.
11. `generator/generator.py:300` — `generate()` removes no file of another layout:
    after `separateModelFiles` is switched off, `models/__init__.py` of the old
    client is imported instead of the new `models.py`, and after `minimalRuntime`
    is switched off, type checkers go on reading the old `.pyi` stubs, while
    `docs/migrating-from-upstream.md:286` asks only to disable the option and
    regenerate. `ClientIsOfOneSchema`, `StubsAreOfOneSchema`, run `generation`.
12. `sa/_alembic.py:251` — the defaults are compared as text, and the wanted one
    always quotes the name of the sequence (`sa/_build.py:476`), which PostgreSQL
    does not when it is lower-case. A column that draws from its own sequence and
    is not taken for SERIAL, since it no longer owns it or is SMALLINT, is reported
    by every autogenerate: the "permanent, spurious `alter_column`" (`:238`) that
    the comparison is there to avoid. A column that draws from another sequence it owns shows no default,
    and is missed, against "What must NOT be swallowed" (`:243`).
    `DiffIsWholeTruth`, run `schema`.
13. `generator/templates/types.py.jinja` — type-checked arguments that the engine
    refuses: the parent's foreign key in a record created below a relation
    (`:545`, where a TODO says so), `disconnect` and `delete` of a relation that is
    required (`:617`), `_min` and `_max` of Json and of lists and `_avg` and `_sum` of
    lists (`:797`), `_relevance` of a model without strings
    (`generator/schema.py:162`), and `mode` below a `not` (`types.py.jinja:215`).
    `EveryTypedKeyIsTaken`, run `types`.

Others, seen while reading:

* *Client.* After a failed `connect()` the engine object stays, and
  `is_connected()` says `True` (`_base_client.py:240`, `:378`). A synchronous
  engine that timed out cannot connect again before `disconnect()`
  (`engine/_query.py:213`). `disconnect()` on the client of a transaction stops
  the engine of the original one (`_base_client.py:511`). atexit keeps every
  engine object alive (`engine/_query.py:373`). Two threads that close one engine
  object may release its reference twice (`:146`). A port can be given to two
  engines (`engine/utils.py:136`). A manager started twice forgets its first
  transaction (`_transactions.py:83`).
* *Generator.* A line that does not parse is answered with the id of the
  request before it (`generator/jsonrpc.py:80`). With `separateModelFiles`
  partial types are registered for each model file (`models/_model.py.jinja:81`),
  so that a relation retargeted at another model's partial is refused and
  duplicate names across models pass.
* *Installation.* Ctrl-C or a kill during `npm install` leaves an entrypoint of
  half an installation (`cli/prisma.py:101`); a `nodeenv` directory that was left
  unfinished is never looked into (`cli/_node.py:163`).
* *Doctor.* Actions that only Prisma has are dropped when their client does not
  resolve (`conn.query_raw()`, `clients[0].find_many()`, `_scan.py:34`);
  operators under `not` and filters of nested includes are not examined; a
  computed key in the `data` of an upsert is ignored. Two transactions opened on
  one line (`async with a.tx() as t, b.tx() as u:`) share the id of a block
  (`_scan.py:458`), so that a STOP in one blocks the other too. A code base below a
  directory called `env`, `build`, `dist`, ... is not scanned at all, since the parts
  of the absolute path are compared, and the report says that nothing was left out
  (`EveryFileIsRead`). A block with an unknown call is rendered "migratable whole"
  (`_doctor.py:1331`, `WholeIsMigratable`); a STOP with an argument that was not read
  leaves "every call site found was read in full" (`:1347`, `ReadInFull`). An escaped
  quote ends a string for `_strip_comments` (`:926`, `StringsStay`), and the check of
  `relationMode` passes when no schema file could be decoded (`:900`).
* *DDL.* A compound foreign key with one nullable column gets `SET NULL` over
  its NOT NULL column (`generator/models.py:1476`); an array of `DoublePrecision`
  becomes `doubleprecision[]` (`sa/_build.py:589`); the revision id of the
  baseline depends on table names only. A derived name is cut to 63 characters where
  PostgreSQL cuts to 63 bytes ("and the server's", `sa/_build.py:336`), and two long
  names that differ only in what is cut become one.
* *Query text.* `textwrap.indent` (`_builder.py:428`) takes U+2028, U+2029 and U+0085
  for line ends, and `dumps(..., ensure_ascii=False)` (`:888`) does not escape
  them, so that spaces are inserted into a string value that contains one
  (`'x\u2028y'` arrives as `'x\u2028  y'`), while `src/tests/test_builder.py:256`
  tests that unicode strings are passed as they are. `SeparatorAssumption` is that
  counterexample.
* *Options.* `PRISMA_PY_CONFIG_MODEL_BACKEND` with an unknown name is accepted when
  the schema names a backend too (`generator/models.py:1055`);
  `PRISMA_PY_CONFIG_SCHEMA_METADATA` together with `schemaMetadata` in the block is
  refused as an extra key. `instance_name` of a `@Python` declaration is checked
  neither for keywords nor for two models with one name.
* *Queries.* `update()` and `delete()` answer `None` for every P2025, also for
  the one a nested `connect` causes (`actions.py.jinja:649`). The key of
  `@@unique([order, by])` is renamed like an argument (`_builder.py:289`). An
  error with a null `meta` raises `AttributeError`. A partial type of the msgspec
  backend that dropped a relation raises `KeyError` where
  `UnknownRelationalFieldError` is documented.
* *Batches.* A query that another task adds while the block's own commit is
  awaited stays in the list when the block ends, and is never sent unless
  somebody commits again (`client.py.jinja:317`).
* *Types.* `DecimalWithAggregatesFilter` offers the operators of strings;
  aggregate filters offer `_sum` and `_avg` of strings.
* *Lazy building.* The limit is tested and set in two steps, so that a limit the
  program raises in between is lowered, against "only ever raised, never
  lowered" (`_recursive.py:55`). A stack size the program sets during a build is
  overwritten at its end, and a thread it starts meanwhile has the enlarged
  stack (assumed away in `ProgramSetsStack`). After a `KeyboardInterrupt` in
  `join()` the lock is free while the worker goes on, and a second build of the
  model may run beside it. Partial types of partial types are not counted in the
  depth.
* *Ids and globals.* A fork while another thread holds `_uuid7_lock` leaves it
  locked in the child (`sa/_values.py:433`); `register()` tests and sets its
  global in two steps (`_registry.py:25`).



## 6. Not modelled

* *Inside other programs*: the mypy plugin; the grammar of the DSL parser and the
  vendored parser that runs it.
* *No state and no decision to check*: the command line, small utilities; the
  client registry is one global.
* *Text*: layout and wording of templates, reports and emitted files; the
  sampler of create inputs; the stubs and proxies of `minimalRuntime`.
* *Details of modelled parts*: the Windows branch of process termination, ports,
  several threads closing one engine object, daemon threads at interpreter exit,
  a custom output directory of the generator and the ids of its JSON-RPC
  messages; preview features; the patterns that find a data source in the text of
  a schema; the mapping of each scalar to its SQL type beyond the ones decisions
  depend on; values with `@map` in raw rows; `required` relations of partial
  types; the wording of errors.


## 7. Plan

Done, in the order of how much damage a mistake does and how little a test would
notice it: `SharedEngine` with `EnginePool`, `Transactions`, `Ids`, `Client`,
`Generation` and `Install`, each with its proofs; `Doctor` with the proofs of
`Report`; the pipeline of `Schema` with its proofs; `Query` with `Builder` and
`Converters`, `Exchange` and `Batch` with their proofs; `Types` and `LazyBuild` with
theirs; `Options`, `Locations`, `Diagnosis` and `Accessors` with theirs; `Rendering`.

Next:

1. **Client** — several threads on one client and the copies of transactions
   that disconnect.
2. **Schema** — the schema facts of `Diagnosis` from the same data model, so that
   a verdict and the DDL can be compared.

Proofs: that every call of `Exchange` ends with the answer to this call, and a
refinement of `LazyBuild` to "built on first use".
