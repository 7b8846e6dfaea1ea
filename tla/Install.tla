------------------------------- MODULE Install -------------------------------
(***************************************************************************)
(* Commands that need the Prisma CLI (cli/prisma.py) and a Node to run it  *)
(* with (cli/_node.py).  Both are installed on demand into directories     *)
(* that all commands of a user share, and nothing is locked: what a        *)
(* command finds there may be unfinished, or be removed under it.          *)
(***************************************************************************)
EXTENDS FiniteSets

CONSTANTS
  Commands,   \* processes that run one command after another
  Versions,   \* values of config.prisma_version
  Custom,     \* whether binary_cache_dir is configured
  Machines,   \* what a command finds besides the shared directories
  NoVersion

Targets == {"node", "npm"}

\* Nodes: none, one that is too old or does not tell its version, a good one.
Found == {"none", "old", "good"}
Machine == [use_nodejs_bin : BOOLEAN, nodejs : BOOLEAN,
            use_global_node : BOOLEAN, global : [Targets -> Found]]

ASSUME InstallAssumption ==
  Machines \subseteq Machine /\ NoVersion \notin Versions

\* Config.from_base: by default each version has a directory of its own.
Shared == "shared"
Dirs == Versions \cup {Shared}
CacheDirShared(v) == Shared
CacheDir(v) == IF Custom THEN Shared ELSE v

VARIABLES
  machine,    \* the machine
  exists,     \* exists[d]: the cache directory is there
  package,    \* package[d]: its package.json is there
  entrypoint, \* entrypoint[d]: node_modules/prisma/build/index.js is there
  installed,  \* installed[d]: the version whose files are all there
  nodeenv,    \* how far nodeenv has filled its directory
  pc,         \* pc[c]: where the command stands
  version,    \* version[c]: its config.prisma_version
  force,      \* force[c]: it is `fetch --force`, which runs no Node
  target,     \* target[c]: the binary it is looking for
  alone,      \* no two commands were ever in progress together
  disturbed   \* a command was interrupted, or lost its directory

diskVars == <<exists, package, entrypoint, installed>>
histVars == <<alone, disturbed>>
vars == <<machine, exists, package, entrypoint, installed, nodeenv, pc, version,
          force, target, alone, disturbed>>

\* The directory does not exist, holds no binary, node only, node and npm.
Stages == {"absent", "empty", "node", "both"}
NodeenvHas(t) == nodeenv = "both" \/ (nodeenv = "node" /\ t = "node")

Label == {"idle", "clear", "look", "mkdir", "package", "check", "resolve",
          "nodeenv", "npm", "unlink", "recheck", "node"}

TypeOK ==
  /\ machine \in Machines
  /\ exists \in [Dirs -> BOOLEAN]
  /\ package \in [Dirs -> BOOLEAN]
  /\ entrypoint \in [Dirs -> BOOLEAN]
  /\ installed \in [Dirs -> Versions \cup {NoVersion}]
  /\ nodeenv \in Stages
  /\ pc \in [Commands -> Label]
  /\ version \in [Commands -> Versions]
  /\ force \in [Commands -> BOOLEAN]
  /\ target \in [Commands -> Targets]
  /\ alone \in BOOLEAN /\ disturbed \in BOOLEAN
  /\ \A d \in Dirs : ~exists[d] => ~package[d] /\ ~entrypoint[d]

Init ==
  /\ machine \in Machines
  /\ exists = [d \in Dirs |-> FALSE]
  /\ package = [d \in Dirs |-> FALSE]
  /\ entrypoint = [d \in Dirs |-> FALSE]
  /\ installed = [d \in Dirs |-> NoVersion]
  /\ nodeenv = "absent"
  /\ pc = [c \in Commands |-> "idle"]
  /\ version \in [Commands -> Versions]
  /\ force = [c \in Commands |-> FALSE]
  /\ target = [c \in Commands |-> "node"]
  /\ alone = TRUE /\ disturbed = FALSE

At(c, l)   == pc[c] = l
Goto(c, l) == pc' = [pc EXCEPT ![c] = l]
Dir(c)     == CacheDir(version[c])

-----------------------------------------------------------------------------
(* ensure_cached().                                                        *)

\* A command starts; only `fetch --force` clears the directory first.
Begin(c) ==
  /\ At(c, "idle")
  /\ \E f \in BOOLEAN : /\ force' = [force EXCEPT ![c] = f]
                        /\ Goto(c, IF f THEN "clear" ELSE "look")
  /\ alone' = (alone /\ \A d \in Commands : At(d, "idle"))
  /\ UNCHANGED <<machine, diskVars, nodeenv, version, target, disturbed>>

\* shutil.rmtree(), which raises if there is nothing to remove.
Clear(c) ==
  LET d == Dir(c) IN
  /\ At(c, "clear")
  /\ IF exists[d]
       THEN /\ exists' = [exists EXCEPT ![d] = FALSE]
            /\ package' = [package EXCEPT ![d] = FALSE]
            /\ entrypoint' = [entrypoint EXCEPT ![d] = FALSE]
            /\ installed' = [installed EXCEPT ![d] = NoVersion]
            /\ disturbed' = (disturbed \/ \E o \in Commands \ {c} :
                               ~At(o, "idle") /\ Dir(o) = d)
            /\ Goto(c, "look")
       ELSE Goto(c, "idle") /\ UNCHANGED <<diskVars, disturbed>>
  /\ UNCHANGED <<machine, nodeenv, version, force, target, alone>>

Look(c) ==
  /\ At(c, "look")
  /\ Goto(c, IF exists[Dir(c)] THEN "package" ELSE "mkdir")
  /\ UNCHANGED <<machine, diskVars, nodeenv, version, force, target, histVars>>

\* mkdir() without exist_ok raises if another command was faster.
MakeDir(c) ==
  /\ At(c, "mkdir")
  /\ IF exists[Dir(c)]
       THEN Goto(c, "idle") /\ UNCHANGED exists
       ELSE Goto(c, "package") /\ exists' = [exists EXCEPT ![Dir(c)] = TRUE]
  /\ UNCHANGED <<machine, package, entrypoint, installed, nodeenv, version,
                 force, target, histVars>>

\* write_text() raises if the directory has gone.
WritePackage(c) ==
  /\ At(c, "package")
  /\ IF exists[Dir(c)]
       THEN Goto(c, "check") /\ package' = [package EXCEPT ![Dir(c)] = TRUE]
       ELSE Goto(c, "idle") /\ UNCHANGED package
  /\ UNCHANGED <<machine, exists, entrypoint, installed, nodeenv, version,
                 force, target, histVars>>

\* An entrypoint stands for the whole installation.
Check(c) ==
  /\ At(c, "check")
  /\ IF entrypoint[Dir(c)]
       THEN Goto(c, "recheck") /\ UNCHANGED target
       ELSE Goto(c, "resolve") /\ target' = [target EXCEPT ![c] = "npm"]
  /\ UNCHANGED <<machine, diskVars, nodeenv, version, force, histVars>>

-----------------------------------------------------------------------------
(* Node and npm.  LazyProxy keeps the strategy, which is a function of     *)
(* what does not change while a command runs; running it is a new attempt. *)

\* _get_global_binary and _should_use_binary.
GlobalBinary(t) == machine.use_global_node /\ machine.global[t] = "good"

Strategy(t) ==
  IF machine.use_nodejs_bin /\ machine.nodejs THEN "nodejs-bin"
  ELSE IF GlobalBinary(t) THEN "global"
  ELSE "nodeenv"

\* An exception on the way to npm is caught like one of npm.
Failed(c) == IF target[c] = "npm" THEN "unlink" ELSE "idle"
Ready(c)  == IF target[c] = "npm" THEN "npm" ELSE "node"

\* A binary that was not installed by nodeenv works.
ResolveElsewhere(c) ==
  /\ At(c, "resolve") /\ Strategy(target[c]) # "nodeenv"
  /\ Goto(c, Ready(c))
  /\ UNCHANGED <<machine, diskVars, nodeenv, version, force, target, histVars>>

\* A directory that exists stands for a finished nodeenv; if the binary is not
\* there, the assertion of _update_path_env or subprocess.run raises.
ResolveNodeenv(c) ==
  /\ At(c, "resolve") /\ Strategy(target[c]) = "nodeenv"
  /\ nodeenv # "absent"
  /\ Goto(c, IF NodeenvHas(target[c]) THEN Ready(c) ELSE Failed(c))
  /\ UNCHANGED <<machine, diskVars, nodeenv, version, force, target, histVars>>

\* `python -m nodeenv`, which more than one command may have started.
StartNodeenv(c) ==
  /\ At(c, "resolve") /\ Strategy(target[c]) = "nodeenv"
  /\ nodeenv = "absent"
  /\ Goto(c, "nodeenv")
  /\ UNCHANGED <<machine, diskVars, nodeenv, version, force, target, histVars>>

NodeenvWrites(c) ==
  /\ At(c, "nodeenv")
  /\ nodeenv' = CASE nodeenv = "absent" -> "empty"
                  [] nodeenv = "empty" -> "node"
                  [] OTHER -> "both"
  /\ UNCHANGED <<machine, diskVars, pc, version, force, target, histVars>>

NodeenvDone(c) ==
  /\ At(c, "nodeenv") /\ nodeenv = "both"
  /\ Goto(c, Ready(c))
  /\ UNCHANGED <<machine, diskVars, nodeenv, version, force, target, histVars>>

\* CalledProcessError; what nodeenv wrote stays.
NodeenvFails(c) ==
  /\ At(c, "nodeenv")
  /\ Goto(c, Failed(c))
  /\ UNCHANGED <<machine, diskVars, nodeenv, version, force, target, histVars>>

-----------------------------------------------------------------------------
(* npm install, and the command itself.                                    *)

\* npm writes its files in an order of its own: the entrypoint may be there
\* long before the rest.
NpmWrites(c) ==
  /\ At(c, "npm") /\ exists[Dir(c)]
  /\ entrypoint' = [entrypoint EXCEPT ![Dir(c)] = TRUE]
  /\ UNCHANGED <<machine, exists, package, installed, nodeenv, pc, version,
                 force, target, histVars>>

\* Without a package.json, npm has installed somewhere else.
NpmDone(c) ==
  LET d == Dir(c) IN
  /\ At(c, "npm") /\ exists[d]
  /\ package[d] => entrypoint[d]
  /\ installed' = IF package[d] THEN [installed EXCEPT ![d] = version[c]]
                                ELSE installed
  /\ Goto(c, "recheck")
  /\ UNCHANGED <<machine, exists, package, entrypoint, nodeenv, version, force,
                 target, histVars>>

NpmFails(c) ==
  /\ At(c, "npm")
  /\ Goto(c, "unlink")
  /\ UNCHANGED <<machine, diskVars, nodeenv, version, force, target, histVars>>

\* The handler: "we need to make sure it doesn't exist if `npm install` fails".
\* (Slip: the exception is raised without it.)
RaiseOnly(c) ==
  /\ At(c, "unlink")
  /\ Goto(c, "idle")
  /\ UNCHANGED <<machine, diskVars, nodeenv, version, force, target, histVars>>
Unlink(c) ==
  /\ At(c, "unlink")
  /\ entrypoint' = [entrypoint EXCEPT ![Dir(c)] = FALSE]
  /\ installed' = [installed EXCEPT ![Dir(c)] = NoVersion]
  /\ Goto(c, "idle")
  /\ UNCHANGED <<machine, exists, package, nodeenv, version, force, target,
                 histVars>>

\* "the expected entrypoint could not be found", or on to Node.
Recheck(c) ==
  /\ At(c, "recheck")
  /\ IF entrypoint[Dir(c)] /\ ~force[c]
       THEN Goto(c, "resolve") /\ target' = [target EXCEPT ![c] = "node"]
       ELSE Goto(c, "idle") /\ UNCHANGED target
  /\ UNCHANGED <<machine, diskVars, nodeenv, version, force, histVars>>

\* Node runs the entrypoint and ends, well or not.
Finish(c) ==
  /\ At(c, "node")
  /\ Goto(c, "idle")
  /\ UNCHANGED <<machine, diskVars, nodeenv, version, force, target, histVars>>

\* Ctrl-C, which is no Exception, or a kill: no handler runs.
Interrupt(c) ==
  /\ ~At(c, "idle")
  /\ Goto(c, "idle")
  /\ disturbed' = TRUE
  /\ UNCHANGED <<machine, diskVars, nodeenv, version, force, target, alone>>

\* The package is upgraded between two commands.
Upgrade(c) ==
  /\ At(c, "idle")
  /\ \E v \in Versions \ {version[c]} : version' = [version EXCEPT ![c] = v]
  /\ UNCHANGED <<machine, diskVars, nodeenv, pc, force, target, histVars>>

Command(c) ==
  \/ Begin(c) \/ Clear(c) \/ Look(c) \/ MakeDir(c) \/ WritePackage(c)
  \/ Check(c) \/ Recheck(c) \/ Finish(c)

Nodeenv(c) ==
  \/ ResolveElsewhere(c) \/ ResolveNodeenv(c) \/ StartNodeenv(c)
  \/ NodeenvWrites(c) \/ NodeenvDone(c) \/ NodeenvFails(c)

Npm(c) == NpmWrites(c) \/ NpmDone(c) \/ NpmFails(c) \/ Unlink(c)

Next == \E c \in Commands :
          Command(c) \/ Nodeenv(c) \/ Npm(c) \/ Interrupt(c) \/ Upgrade(c)

Spec == Init /\ [][Next]_vars

-----------------------------------------------------------------------------
(* Properties.                                                             *)

\* "it will otherwise lead to a broken state": once nobody installs, an
\* entrypoint, which later commands take for a whole installation, belongs to
\* one, whatever npm and nodeenv failed at and however many commands overlapped.
\* Only an interrupted command breaks that, or one whose directory was cleared.
EntrypointMeansInstalled ==
  ~disturbed => \A d \in Dirs :
    /\ entrypoint[d]
    /\ ~\E c \in Commands : Dir(c) = d /\ pc[c] \in {"npm", "unlink"}
    => installed[d] # NoVersion

\* Commands that do not overlap run the whole CLI of the version they are
\* configured for, or of an older one if the directory is configured.
RunsItsVersion ==
  alone /\ ~disturbed => \A c \in Commands :
    At(c, "node") => IF Custom THEN installed[Dir(c)] # NoVersion
                               ELSE installed[Dir(c)] = version[c]

=============================================================================
