------------------------------- MODULE Report -------------------------------
(***************************************************************************)
(* `prisma py sqlalchemy doctor`: sa/_scan.py finds the Prisma calls of a  *)
(* Python file and sa/_doctor.py reports of each whether it can move to    *)
(* SQLAlchemy.  A file is read from top to bottom: `with` statements that  *)
(* may open a transaction, and calls.  The report is a function of what    *)
(* was found.  What is wrong with the arguments of a call is a parameter   *)
(* here; module Doctor says what it is.                                    *)
(***************************************************************************)
EXTENDS Naturals, FiniteSets, SequencesExt

CONSTANTS
  Names,     \* the receivers a file uses, as written
  Files,     \* files, each by its statements that may bind one
  Calls,     \* the calls a file may contain
  Probes,    \* calls that stand alone in their file
  MaxSites, MaxBlocks, \* bounds: calls and blocks of a file
  Examine(_, _)        \* the verdicts on an action and its arguments

-----------------------------------------------------------------------------
(* Expressions, as far as the scanner tells them apart: one it cannot read *)
(* ("unread"), constants, literal mappings and literal sequences.  Keys    *)
(* are names; one that is not a string constant is Computed.               *)

Leaf(kind)  == [kind |-> kind, items |-> <<>>]
Dict(items) == [kind |-> "dict", items |-> items]
List(items) == [kind |-> "list", items |-> [i \in DOMAIN items |-> <<"", items[i]>>]]
Unread      == Leaf("unread")
Computed    == "**"

IsMapping(e)  == e.kind = "dict"
IsSequence(e) == e.kind = "list"
Key(item)     == item[1]
Value(item)   == item[2]
KeysOf(e)     == {Key(i) : i \in ToSet(e.items)}

\* The last item of a literal wins, as in Python.
ValueAt(e, k) == Value(SelectSeq(e.items, LAMBDA i : Key(i) = k)
                         [Len(SelectSeq(e.items, LAMBDA i : Key(i) = k))])

-----------------------------------------------------------------------------
(* _scan.py: names.                                                        *)

Reads == {"find_unique", "find_unique_or_raise", "find_first",
          "find_first_or_raise", "find_many"}
Bulk  == {"create_many", "update_many", "delete_many"}
MODEL_ACTIONS == Reads \cup Bulk \cup {"create", "update", "upsert", "delete",
                                       "count", "group_by", "aggregate"}
RAW_ACTIONS == {"query_raw", "query_first", "execute_raw"}
TRANSACTION_ACTIONS == {"tx", "batch_"}
AllActions == MODEL_ACTIONS \cup RAW_ACTIONS \cup TRANSACTION_ACTIONS

\* What is not an action is not a call of Prisma.
ASSUME ReportAssumption == \A c \in Calls \cup Probes : c.action \in AllActions

AMBIGUOUS_ACTIONS == {"create", "update", "delete", "count", "aggregate", "tx"}
CONVENTIONAL_CLIENTS == {"db", "client", "prisma", "tx", "transaction", "batcher"}
CLIENT_FACTORIES == {"Prisma", "Client", "get_client"}
HANDLE_METHODS == {"tx", "batch_", "start"}

READ_PARAMETERS == <<"skip", "where", "cursor", "include", "order", "distinct">>
POSITIONAL_PARAMETERS ==
  [a \in AllActions |->
    CASE a \in {"find_unique", "find_unique_or_raise", "delete"} -> <<"where", "include">>
      [] a \in {"find_first", "find_first_or_raise"} -> READ_PARAMETERS
      [] a = "find_many"   -> <<"take">> \o READ_PARAMETERS
      [] a = "create"      -> <<"data", "include">>
      [] a = "create_many" -> <<"data">>
      [] a = "update"      -> <<"data", "where", "include">>
      [] a = "update_many" -> <<"data", "where">>
      [] a = "upsert"      -> <<"where", "data", "include">>
      [] a = "delete_many" -> <<"where">>
      [] a = "count" -> <<"select", "take", "skip", "where", "cursor", "distinct">>
      [] a = "group_by"    -> <<"by">>
      [] a \in RAW_ACTIONS -> <<"query">>
      [] OTHER             -> <<>>]

\* _client_bindings: a pass over the whole file, in no order.  A source is an
\* import from prisma (asname for name), an assignment from a call, an
\* annotated name or argument, or the target of a `with`.
Factories(S) ==
  CLIENT_FACTORIES \cup {s.asname : s \in {t \in S :
                           t.form = "import" /\ t.name \in CLIENT_FACTORIES}}
ClientBindings(S) ==
  {s.target : s \in {t \in S :
     \/ t.form = "assign" /\ t.call \in Factories(S) \cup HANDLE_METHODS
     \/ t.form = "annotation" /\ t.call \in Factories(S)
     \/ t.form = "with" /\ t.call \in TRANSACTION_ACTIONS}}

VARIABLES
  stmts,   \* the statements of the file that may bind a client
  blocks,  \* the `with` statements that are open, outermost first
  opened,  \* how many there were
  sites,   \* the call sites found
  single   \* the file holds a single call

reportVars == <<stmts, blocks, opened, sites, single>>

Resolve(name) ==
  IF name \in ClientBindings(stmts) THEN "binding"
  ELSE IF name \in CONVENTIONAL_CLIENTS THEN "convention"
  ELSE "unresolved"

\* _entry: how a call is recorded, given how its receiver is written: a model of
\* a client (db.user), the client itself, Model.prisma(handle), an accessor on
\* a model chosen at run time, or getattr(db, name).
Unseen(action, name) == Resolve(name) = "unresolved" /\ action \in AMBIGUOUS_ACTIONS
Entry(c) ==
  CASE c.action \in TRANSACTION_ACTIONS ->
         IF Unseen(c.action, c.name) THEN "none" ELSE "transaction"
    [] c.via = "accessor" -> "model"
    [] c.via = "runtime accessor" -> "model"
    [] c.via = "getattr" -> IF Resolve(c.name) = "unresolved" THEN "none" ELSE "client"
    [] c.via = "client" ->
         IF c.action \in RAW_ACTIONS /\ Resolve(c.name) # "unresolved"
         THEN "client" ELSE "none"
    [] OTHER -> IF Unseen(c.action, c.name) THEN "none" ELSE "client"

Resolution(c) ==
  CASE c.action \in TRANSACTION_ACTIONS -> Resolve(c.name)
    [] c.via = "accessor" -> "binding"
    [] c.via \in {"runtime accessor", "getattr"} -> "dynamic"
    [] OTHER -> Resolve(c.name)

\* _arguments: the name each argument is read under, and the splats.
Splats(c) ==
  {"*" : i \in {j \in DOMAIN c.args : \/ c.args[j].star
                                     \/ j > Len(POSITIONAL_PARAMETERS[c.action])}}
    \cup {"**" : k \in {j \in DOMAIN c.keywords : Key(c.keywords[j]) = Computed}}
Positional(c) ==
  LET p == POSITIONAL_PARAMETERS[c.action] IN
  [i \in {j \in DOMAIN c.args : j <= Len(p) /\ ~c.args[j].star} |->
     <<p[i], c.args[i].value>>]
Arguments(c) ==
  LET given == SelectSeq(c.keywords, LAMBDA k : Key(k) # Computed)
      named == {Key(k) : k \in ToSet(given)}
      pos   == Positional(c)
  IN  [n \in named \cup {Key(pos[i]) : i \in DOMAIN pos} |->
         IF n \in named THEN ValueAt(Dict(given), n)
         ELSE Value(pos[CHOOSE i \in DOMAIN pos : Key(pos[i]) = n])]

-----------------------------------------------------------------------------
(* _doctor.py: names, by what the runbook says of them.  A representative  *)
(* stands for the operators that are treated alike.                        *)

VERIFIED_ACTIONS ==
  {"find_unique", "find_first", "find_many", "create", "update", "delete",
   "upsert", "count", "group_by", "tx", "batch_"} \cup Bulk
STOP_ACTIONS == {"aggregate"}
UNKNOWN_ACTIONS == {"find_unique_or_raise", "find_first_or_raise"} \cup RAW_ACTIONS

COVERED_ARGUMENTS ==
  [a \in AllActions |->
    CASE a \in {"find_unique", "find_unique_or_raise"} -> {"where", "include"}
      [] a \in Reads \ {"find_unique", "find_unique_or_raise"} ->
           {"where", "include", "order", "take", "skip", "distinct"}
      [] a = "create"      -> {"data"}
      [] a = "create_many" -> {"data", "skip_duplicates"}
      [] a \in {"update", "update_many"} -> {"data", "where"}
      [] a = "upsert"      -> {"where", "data", "include"}
      [] a \in {"delete", "delete_many", "count"} -> {"where"}
      [] a = "group_by"    -> {"by", "count", "where", "sum", "avg", "min", "max"}
      [] a = "tx"          -> {"max_wait", "timeout"}
      [] a \in RAW_ACTIONS -> {"query"}
      [] OTHER             -> {}]

-----------------------------------------------------------------------------
(* classify(): the verdicts on one call.                                   *)

Stop(code)    == {[verdict |-> "stop", code |-> code]}
Unknown(code) == {[verdict |-> "unknown", code |-> code]}

Verdicts(s) ==
  UNION {
    CASE s.resolution = "dynamic" -> Unknown("dynamic-model")
      [] s.resolution = "unresolved" -> Unknown("unresolved-client")
      [] OTHER -> {},
    CASE s.action \in STOP_ACTIONS -> Stop("aggregate")
      [] s.action \in UNKNOWN_ACTIONS -> Unknown("not-covered")
      [] OTHER -> {},
    IF s.opaque # {} THEN Unknown("opaque-arguments") ELSE {},
    Examine(s.action, s.arguments),
    IF DOMAIN s.arguments \subseteq COVERED_ARGUMENTS[s.action] THEN {}
    ELSE Unknown("argument-not-covered")}

\* A visible STOP outranks what could not be read.
Classify(s) ==
  LET kinds == {v.verdict : v \in Verdicts(s)} IN
  IF "stop" \in kinds THEN "stop"
  ELSE IF "unknown" \in kinds THEN "unknown"
  ELSE "verified"

\* _block_transactions: one STOP takes the rest of its block with it.
Blocked(b) == \E i \in DOMAIN sites : sites[i].block = b /\ sites[i].status = "stop"
Status(s) ==
  IF s.block # 0 /\ s.status = "verified" /\ Blocked(s.block) THEN "stop"
  ELSE s.status

\* _group and _phase, over the call sites of the file.  (Slip: the calls that
\* are blocked by another one count as verified.)
TallyAlone(status) == Cardinality({i \in DOMAIN sites : sites[i].status = status})
Tally(status) == Cardinality({i \in DOMAIN sites : Status(sites[i]) = status})
Phase ==
  LET verified == Tally("verified")
      stop     == Tally("stop")
      unknown  == Tally("unknown")
  IN  IF stop = 0 /\ unknown = 0 THEN "migratable-now"
      ELSE IF stop = 1 /\ unknown = 0 /\ verified > 0 THEN "one-blocker"
      ELSE IF stop > verified + unknown THEN "blocked"
      ELSE "mixed"

-----------------------------------------------------------------------------
(* _Visitor: reading the file.  A call belongs to the innermost block whose  *)
(* handle it runs through; runs_in and transaction say where it really runs: *)
(* a batch opened on the handle of a transaction is part of it.              *)

Handles(name) == {i \in DOMAIN blocks : blocks[i].target = name}
NoBlock == [id |-> 0, transaction |-> 0]
Innermost(I) ==
  IF I = {} THEN NoBlock ELSE blocks[CHOOSE i \in I : \A j \in I : j <= i]

\* (Slip: the innermost block around the call.)
LexicalBlock(name) == IF blocks = <<>> THEN 0 ELSE Last(blocks).id
Block(name) == Innermost({i \in Handles(name) : blocks[i].seen}).id

Scanned(c) == [action |-> c.action, resolution |-> Resolution(c),
               opaque |-> Splats(c), arguments |-> Arguments(c)]
Site(c, block, own) ==
  [call |-> Scanned(c), status |-> Classify(Scanned(c)), block |-> block,
   runs_in |-> own.id, transaction |-> own.transaction]

ScanInit ==
  /\ stmts \in Files
  /\ blocks = <<>> /\ opened = 0
  /\ sites = <<>>
  /\ single = FALSE

\* _visit_with: the call that opens a block belongs to it.  A `with` whose
\* receiver is not taken for a client opens no block, but binds its target.
Open(c, target) ==
  LET id == opened + 1
      in == Innermost(Handles(c.name)).transaction
      b  == [id |-> id, target |-> target, seen |-> Entry(c) # "none",
             transaction |-> IF c.action = "batch_" /\ in # 0 THEN in ELSE id]
  IN
  /\ ~single /\ opened < MaxBlocks /\ Len(sites) < MaxSites
  /\ c.action \in TRANSACTION_ACTIONS
  /\ [form |-> "with", target |-> target, call |-> c.action] \in stmts
  /\ \A i \in DOMAIN blocks : blocks[i].target # target
  /\ opened' = id
  /\ blocks' = Append(blocks, b)
  /\ sites' = IF b.seen THEN Append(sites, Site(c, id, b)) ELSE sites
  /\ UNCHANGED <<stmts, single>>

Close ==
  /\ blocks # <<>>
  /\ blocks' = Front(blocks)
  /\ UNCHANGED <<stmts, opened, sites, single>>

\* visit_Call.
Call(c) ==
  /\ ~single /\ Len(sites) < MaxSites
  /\ c.action \notin TRANSACTION_ACTIONS
  /\ Entry(c) # "none"
  /\ sites' = Append(sites, Site(c, Block(c.name), Innermost(Handles(c.name))))
  /\ UNCHANGED <<stmts, blocks, opened, single>>

\* A call alone in its file.
Probe(c) ==
  /\ Entry(c) # "none"
  /\ sites' = <<Site(c, 0, NoBlock)>>
  /\ single' = TRUE
  /\ UNCHANGED <<stmts, blocks, opened>>

ScanNext ==
  \/ \E c \in Calls : Call(c) \/ \E target \in Names : Open(c, target)
  \/ opened = 0 /\ sites = <<>> /\ \E c \in Probes : Probe(c)
  \/ Close

ScanSpec == ScanInit /\ [][ScanNext]_reportVars

-----------------------------------------------------------------------------
(* Properties.                                                             *)

\* "An argument the scanner cannot see cannot be certified": a call reported as
\* verified is on a known client, splats nothing, and its action and the names
\* of its arguments are on the list of what is verified.
VerifiedIsVisible ==
  \A s \in ToSet(sites) : s.status = "verified" =>
    /\ s.call.action \in VERIFIED_ACTIONS
    /\ s.call.resolution \in {"binding", "convention"}
    /\ s.call.opaque = {}
    /\ DOMAIN s.call.arguments \subseteq COVERED_ARGUMENTS[s.call.action]

\* "tx() blocks migrate whole, or stay on Prisma whole": a call that is clean on
\* its own is reported as STOP exactly if it runs through the handle of a block,
\* wherever it is written, of which another call is a STOP.
BlocksMigrateWhole ==
  \A s \in ToSet(sites) : s.status = "verified" =>
    (Status(s) = "stop" <=>
       \E o \in ToSet(sites) : /\ o.runs_in = s.runs_in /\ s.block # 0
                               /\ o.status = "stop")

\* "Migratable now", "One blocker away": a file planned as the former is clean,
\* and in one planned as the latter a single call stands in the way of the
\* rest, none of which shares a block with it.
PhasesCostRight ==
  LET own(i) == sites[i].status IN
  /\ Phase = "migratable-now" => \A i \in DOMAIN sites : own(i) = "verified"
  /\ Phase = "one-blocker" =>
       \E i \in DOMAIN sites :
         /\ own(i) = "stop"
         /\ \A j \in DOMAIN sites \ {i} :
              /\ own(j) = "verified"
              /\ sites[j].block # sites[i].block \/ sites[j].block = 0

=============================================================================
