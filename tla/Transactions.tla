---------------------------- MODULE Transactions ----------------------------
(***************************************************************************)
(* Interactive transactions: the blocks `with client.tx() as tx` that the  *)
(* threads or tasks of a program run on one client (_transactions.py), the *)
(* requests they send (engine/_http.py, engine/_query.py) and the query    *)
(* engine that owns the transactions.                                      *)
(*                                                                         *)
(* A call is three steps: the request is sent, the engine serves it, the   *)
(* caller takes the answer.  The caller may stop waiting at any moment (an *)
(* httpx timeout, a broken connection, a cancelled task): the request may  *)
(* then be served later or never, and its answer is lost.                  *)
(***************************************************************************)
EXTENDS FiniteSets

CONSTANTS
  Managers,   \* transaction managers, each driven by a thread or task
  Txs,        \* transactions the query engines can hand out
  Queries,    \* write queries (or batches); each is issued at most once
  Engines,    \* query-engine processes, one per connect() of the client
  NoTx, NoEngine, NoQuery    \* Python's None

ASSUME TransactionsAssumption ==
  /\ NoTx \notin Txs /\ NoEngine \notin Engines /\ NoQuery \notin Queries

VARIABLES
  engine,    \* the client's _internal_engine: a process, or NoEngine
  process,   \* process[e]: "unborn", "up" or "down"
  phase,     \* phase[t]: the transaction at the query engine
  home,      \* home[t]: the query engine that owns t
  staged,    \* staged[t]: the writes made in t
  db,        \* the writes that are committed
  pc,        \* pc[m]: the call m's block is in
  block,     \* block[m]: the transaction of m's current or last block
  tx_id,     \* tx_id[m]: the manager's _tx_id, and its client's
  writing,   \* writing[m]: the query of m's block that is being answered
  issued,    \* issued[t]: what t's body sent through the client of the block
  outer,     \* outer[t]: what it sent through the client it was opened on
  seen,      \* seen[t]: the writes t's body saw succeed
  exc,       \* exc[t]: t's body ended with an exception
  result,    \* result[t]: how the block ended for the code around it
  transit,   \* requests that are not served yet
  answer     \* answer[m]: the response to the call m waits for

clientVars == <<engine, process>>
serverVars == <<phase, home, staged, db>>
blockVars  == <<pc, block, tx_id, writing, issued, outer, seen, exc, result>>
netVars    == <<transit, answer>>
vars == <<engine, process, phase, home, staged, db, pc, block, tx_id, writing,
          issued, outer, seen, exc, result, transit, answer>>

-----------------------------------------------------------------------------
(* Data.                                                                   *)

\* none: the id is unused;   asked: a start request names it;
\* gone: rolled back by request, by timeout or with its engine.
Phase == {"none", "asked", "open", "committed", "gone"}

\* idle: outside any block;   body: between two calls of the block's body.
Call  == {"start", "query", "commit", "rollback"}
Label == Call \cup {"idle", "body"}

\* "from" is the manager whose call it is while that call still waits.
Request == [op : Call, tx : Txs \cup {NoTx}, query : Queries \cup {NoQuery},
            to : Engines, from : Managers, waited : BOOLEAN]

TypeOK ==
  /\ engine \in Engines \cup {NoEngine}
  /\ process \in [Engines -> {"unborn", "up", "down"}]
  /\ phase \in [Txs -> Phase]
  /\ home \in [Txs -> Engines \cup {NoEngine}]
  /\ staged \in [Txs -> SUBSET Queries]
  /\ db \in SUBSET Queries
  /\ pc \in [Managers -> Label]
  /\ block \in [Managers -> Txs \cup {NoTx}]
  /\ tx_id \in [Managers -> Txs \cup {NoTx}]
  /\ writing \in [Managers -> Queries \cup {NoQuery}]
  /\ issued \in [Txs -> SUBSET Queries]
  /\ outer \in [Txs -> SUBSET Queries]
  /\ seen \in [Txs -> SUBSET Queries]
  /\ exc \in [Txs -> BOOLEAN]
  /\ result \in [Txs -> {"none", "returned", "raised"}]
  /\ transit \in SUBSET Request
  /\ answer \in [Managers -> {"none", "ok", "error"}]

Init ==
  /\ engine = NoEngine
  /\ process = [e \in Engines |-> "unborn"]
  /\ phase = [t \in Txs |-> "none"]
  /\ home = [t \in Txs |-> NoEngine]
  /\ staged = [t \in Txs |-> {}]
  /\ db = {}
  /\ pc = [m \in Managers |-> "idle"]
  /\ block = [m \in Managers |-> NoTx]
  /\ tx_id = [m \in Managers |-> NoTx]
  /\ writing = [m \in Managers |-> NoQuery]
  /\ issued = [t \in Txs |-> {}]
  /\ outer = [t \in Txs |-> {}]
  /\ seen = [t \in Txs |-> {}]
  /\ exc = [t \in Txs |-> FALSE]
  /\ result = [t \in Txs |-> "none"]
  /\ transit = {}
  /\ answer = [m \in Managers |-> "none"]

At(m, l)   == pc[m] = l
Goto(m, l) == pc' = [pc EXCEPT ![m] = l]

\* SyncHTTPEngine.request up to the point where it blocks.
Send(m, op, t, q, e) ==
  /\ transit' = transit \cup {[op |-> op, tx |-> t, query |-> q, to |-> e,
                               from |-> m, waited |-> TRUE]}
  /\ Goto(m, op)
  /\ UNCHANGED answer

\* The request returns (status 2xx, no "errors") ...
Succeeds(m) ==
  /\ answer[m] = "ok"
  /\ answer' = [answer EXCEPT ![m] = "none"]
  /\ UNCHANGED transit

\* ... or raises: an error was answered (P2028, connection refused) ...
Fails(m) ==
  /\ answer[m] = "error"
  /\ answer' = [answer EXCEPT ![m] = "none"]
  /\ UNCHANGED transit

\* ... or nobody waits for the answer any more (httpx.Timeout(30)).
GivesUp(m) ==
  /\ transit' = {IF r.from = m THEN [r EXCEPT !.waited = FALSE] ELSE r :
                   r \in transit}
  /\ answer' = [answer EXCEPT ![m] = "none"]

Raises(m) == Fails(m) \/ GivesUp(m)

-----------------------------------------------------------------------------
(* The client.                                                             *)

Connect(e) ==
  /\ engine = NoEngine /\ process[e] = "unborn"
  /\ engine' = e
  /\ process' = [process EXCEPT ![e] = "up"]
  /\ UNCHANGED <<serverVars, blockVars, netVars>>

\* A dead engine takes its open transactions with it.
Dies(e) ==
  /\ process' = [process EXCEPT ![e] = "down"]
  /\ phase' = [t \in Txs |-> IF phase[t] = "open" /\ home[t] = e
                               THEN "gone" ELSE phase[t]]

Disconnect ==
  /\ engine # NoEngine
  /\ engine' = NoEngine
  /\ Dies(engine)
  /\ UNCHANGED <<home, staged, db, blockVars, netVars>>

Crash(e) ==
  /\ process[e] = "up"
  /\ Dies(e)
  /\ UNCHANGED <<engine, home, staged, db, blockVars, netVars>>

-----------------------------------------------------------------------------
(* The transaction manager.                                                *)

\* __enter__: start().  Without an engine it raises ClientNotConnectedError
\* and changes nothing.
Start(m, t) ==
  /\ At(m, "idle") /\ engine # NoEngine
  /\ phase[t] = "none"
  /\ phase' = [phase EXCEPT ![t] = "asked"]
  /\ home' = [home EXCEPT ![t] = engine]
  /\ block' = [block EXCEPT ![m] = t]
  /\ Send(m, "start", t, NoQuery, engine)
  /\ UNCHANGED <<clientVars, staged, db, tx_id, writing, issued, outer, seen,
                 exc, result>>

\* The id arrived: the manager keeps it and gives it to the client copy.
Started(m) ==
  /\ At(m, "start") /\ Succeeds(m)
  /\ tx_id' = [tx_id EXCEPT ![m] = block[m]]
  /\ Goto(m, "body")
  /\ UNCHANGED <<clientVars, serverVars, block, writing, issued, outer, seen,
                 exc, result>>

\* The exception leaves __enter__: neither the body nor __exit__ runs.
StartFails(m) ==
  /\ At(m, "start") /\ Raises(m)
  /\ result' = [result EXCEPT ![block[m]] = "raised"]
  /\ Goto(m, "idle")
  /\ UNCHANGED <<clientVars, serverVars, block, tx_id, writing, issued, outer,
                 seen, exc>>

Fresh(q) == \A t \in Txs : q \notin issued[t] \cup outer[t]

\* A query of the body through the copy of the client, which shares the engine
\* object the client had when the block started.
\* (Slip: the copy does not get the transaction id.)
QueryWithoutId(m, q) ==
  LET t == block[m] IN
  /\ At(m, "body") /\ Fresh(q)
  /\ issued' = [issued EXCEPT ![t] = @ \cup {q}]
  /\ writing' = [writing EXCEPT ![m] = q]
  /\ Send(m, "query", NoTx, q, home[t])
  /\ UNCHANGED <<clientVars, serverVars, block, tx_id, outer, seen, exc,
                 result>>
Query(m, q) ==
  LET t == block[m] IN
  /\ At(m, "body") /\ Fresh(q)
  /\ issued' = [issued EXCEPT ![t] = @ \cup {q}]
  /\ writing' = [writing EXCEPT ![m] = q]
  /\ Send(m, "query", tx_id[m], q, home[t])
  /\ UNCHANGED <<clientVars, serverVars, block, tx_id, outer, seen, exc,
                 result>>

\* A query of the body through the client the block was opened on: no
\* transaction id, and the engine that client has now.
QueryOuter(m, q) ==
  LET t == block[m] IN
  /\ At(m, "body") /\ engine # NoEngine /\ Fresh(q)
  /\ outer' = [outer EXCEPT ![t] = @ \cup {q}]
  /\ writing' = [writing EXCEPT ![m] = q]
  /\ Send(m, "query", NoTx, q, engine)
  /\ UNCHANGED <<clientVars, serverVars, block, tx_id, issued, seen, exc,
                 result>>

QueryDone(m) ==
  /\ At(m, "query") /\ Succeeds(m)
  /\ seen' = [seen EXCEPT ![block[m]] = @ \cup {writing[m]}]
  /\ Goto(m, "body")
  /\ UNCHANGED <<clientVars, serverVars, block, tx_id, writing, issued, outer,
                 exc, result>>

\* The body may handle the exception, or end with it (ExitRollback).
QueryFails(m) ==
  /\ At(m, "query") /\ Raises(m)
  /\ Goto(m, "body")
  /\ UNCHANGED <<clientVars, serverVars, block, tx_id, writing, issued, outer,
                 seen, exc, result>>

End(m, outcome) ==
  /\ result' = [result EXCEPT ![block[m]] = outcome]
  /\ Goto(m, "idle")

\* commit() and rollback(): `self.__client._engine` is the engine the client
\* has now; without one ClientNotConnectedError is raised.
Ask(m, op) ==
  IF engine = NoEngine
    THEN End(m, "raised") /\ UNCHANGED netVars
    ELSE Send(m, op, tx_id[m], NoQuery, engine) /\ UNCHANGED result

\* __exit__ after a body without exception.
ExitCommit(m) ==
  /\ At(m, "body")
  /\ Ask(m, "commit")
  /\ UNCHANGED <<clientVars, serverVars, block, tx_id, writing, issued, outer,
                 seen, exc>>

\* __exit__ after a body that raised.
\* (Slip: commit in a `finally`.)
ExitCommitAnyway(m) ==
  /\ At(m, "body")
  /\ exc' = [exc EXCEPT ![block[m]] = TRUE]
  /\ Ask(m, "commit")
  /\ UNCHANGED <<clientVars, serverVars, block, tx_id, writing, issued, outer,
                 seen>>
ExitRollback(m) ==
  /\ At(m, "body")
  /\ exc' = [exc EXCEPT ![block[m]] = TRUE]
  /\ Ask(m, "rollback")
  /\ UNCHANGED <<clientVars, serverVars, block, tx_id, writing, issued, outer,
                 seen>>

Committed(m) ==
  /\ At(m, "commit") /\ Succeeds(m)
  /\ End(m, "returned")
  /\ UNCHANGED <<clientVars, serverVars, block, tx_id, writing, issued, outer,
                 seen, exc>>

\* An error of commit() leaves the block; nothing is rolled back.
\* (Slip: it is logged and ignored, as for rollback().)
CommitErrorIgnored(m) ==
  /\ At(m, "commit") /\ Raises(m)
  /\ End(m, "returned")
  /\ UNCHANGED <<clientVars, serverVars, block, tx_id, writing, issued, outer,
                 seen, exc>>
CommitFails(m) ==
  /\ At(m, "commit") /\ Raises(m)
  /\ End(m, "raised")
  /\ UNCHANGED <<clientVars, serverVars, block, tx_id, writing, issued, outer,
                 seen, exc>>

\* An error of rollback() is logged; the body's exception is raised.
RolledBack(m) ==
  /\ At(m, "rollback") /\ (Succeeds(m) \/ Raises(m))
  /\ End(m, "raised")
  /\ UNCHANGED <<clientVars, serverVars, block, tx_id, writing, issued, outer,
                 seen, exc>>

-----------------------------------------------------------------------------
(* The query engine (external).                                            *)

Reply(r, outcome) ==
  /\ transit' = transit \ {r}
  /\ answer' = IF r.waited THEN [answer EXCEPT ![r.from] = outcome] ELSE answer

Up(r)   == process[r.to] = "up"
Open(r) == r.tx # NoTx /\ phase[r.tx] = "open" /\ home[r.tx] = r.to

\* The engine opens the transaction asked for.
ServeStart(r) ==
  /\ r.op = "start" /\ Up(r)
  /\ phase' = [phase EXCEPT ![r.tx] = "open"]
  /\ Reply(r, "ok")
  /\ UNCHANGED <<clientVars, home, staged, db, blockVars>>

\* A write inside an open transaction.
ServeStaged(r) ==
  /\ r.op = "query" /\ Up(r) /\ Open(r)
  /\ staged' = [staged EXCEPT ![r.tx] = @ \cup {r.query}]
  /\ Reply(r, "ok")
  /\ UNCHANGED <<clientVars, phase, home, db, blockVars>>

\* A write outside any transaction.
ServeDirect(r) ==
  /\ r.op = "query" /\ Up(r) /\ r.tx = NoTx
  /\ db' = db \cup {r.query}
  /\ Reply(r, "ok")
  /\ UNCHANGED <<clientVars, phase, home, staged, blockVars>>

ServeCommit(r) ==
  /\ r.op = "commit" /\ Up(r) /\ Open(r)
  /\ phase' = [phase EXCEPT ![r.tx] = "committed"]
  /\ db' = db \cup staged[r.tx]
  /\ Reply(r, "ok")
  /\ UNCHANGED <<clientVars, home, staged, blockVars>>

ServeRollback(r) ==
  /\ r.op = "rollback" /\ Up(r) /\ Open(r)
  /\ phase' = [phase EXCEPT ![r.tx] = "gone"]
  /\ Reply(r, "ok")
  /\ UNCHANGED <<clientVars, home, staged, db, blockVars>>

\* The transaction is unknown or closed (P2028), the query fails, or there is
\* no engine to connect to.
Refuse(r) ==
  /\ Up(r) => r.op \in {"start", "query"} \/ ~Open(r)
  /\ Reply(r, "error")
  /\ UNCHANGED <<clientVars, serverVars, blockVars>>

\* "Prisma will cancel and rollback any transactions that last longer".
Expire(t) ==
  /\ phase[t] = "open"
  /\ phase' = [phase EXCEPT ![t] = "gone"]
  /\ UNCHANGED <<clientVars, home, staged, db, blockVars, netVars>>

Serve(r) ==
  \/ ServeStart(r) \/ ServeStaged(r) \/ ServeDirect(r) \/ ServeCommit(r)
  \/ ServeRollback(r) \/ Refuse(r)

Manager(m) ==
  \/ \E t \in Txs : Start(m, t)
  \/ \E q \in Queries : Query(m, q) \/ QueryOuter(m, q)
  \/ ExitCommit(m) \/ ExitRollback(m)

Returns(m) ==
  \/ Started(m) \/ StartFails(m) \/ QueryDone(m) \/ QueryFails(m)
  \/ Committed(m) \/ CommitFails(m) \/ RolledBack(m)

Next ==
  \/ \E e \in Engines : Connect(e) \/ Crash(e)
  \/ Disconnect
  \/ \E m \in Managers : Manager(m) \/ Returns(m)
  \/ \E r \in transit : Serve(r)
  \/ \E t \in Txs : Expire(t)

Spec == Init /\ [][Next]_vars

-----------------------------------------------------------------------------
(* Properties.                                                             *)

InBody(t) == \E m \in Managers : block[m] = t /\ pc[m] \in {"body", "query"}

\* "If any error is raised during the transaction, Prisma will roll back the
\* entire transaction": nothing a block wrote is ever committed once its
\* body has raised, even when the rollback itself is lost or refused.
FailedBodyLeavesNothing ==
  \A t \in Txs : exc[t] => issued[t] \cap db = {}

\* A block that returns has committed every write its body saw succeed, in
\* whatever engine those writes were made.
ReturnedIsDurable ==
  \A t \in Txs : result[t] = "returned" => seen[t] \subseteq db

\* "Queries will not be committed to the database until the context manager
\* exits": a write of a block is invisible while its body runs.
InvisibleInBody ==
  \A t \in Txs : InBody(t) => issued[t] \cap db = {}

\* A request that was given up and served late, of whatever block, never
\* slips one write of a block in: the database grows by the whole of what a
\* block wrote, after its body, or by a write made outside the transaction.
OnlyWholeBlocks ==
  [][db' # db =>
       \/ \E t \in Txs : /\ db' = db \cup staged[t]
                         /\ seen[t] \cap issued[t] \subseteq staged[t]
                         /\ ~exc[t] /\ ~InBody(t)
       \/ \E t \in Txs : \E q \in outer[t] : db' = db \cup {q}]_vars

-----------------------------------------------------------------------------
(* What a document promises and the code does not keep: no run checks it,  *)
(* and TLC refutes it when one does (see README.md, "Disagreements").      *)

\* The docstring of Prisma.tx() runs `client.user.create` twice in the body
\* of `with client.tx() as transaction`: "if the first database call succeeds
\* but the second does not then neither of the records will be created".
NeitherIsCreated ==
  \A t \in Txs : exc[t] /\ outer[t] \ seen[t] # {}
                  => outer[t] \cap seen[t] \cap db = {}

=============================================================================
