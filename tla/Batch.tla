-------------------------------- MODULE Batch --------------------------------
(***************************************************************************)
(* A batch of the generated client (client.py.jinja): one list of queries  *)
(* that the tasks of a program add to and commit, each commit a request    *)
(* that the engine runs as one transaction.  commit() awaits its answer    *)
(* with the list emptied already, so that other tasks add to the batch and *)
(* commit it meanwhile.  The engine is external: it serves or refuses a    *)
(* request at any time, also when nobody waits for the answer any more.    *)
(***************************************************************************)
EXTENDS Naturals, Sequences

CONSTANTS
  Users,       \* the tasks that have the Batch object
  Owner,       \* the one that runs `async with client.batch_() as b`
  MaxBatch,    \* bound: queries added
  MaxCommits   \* bound: commits

ASSUME BatchAssumption == Owner \in Users /\ MaxBatch \in Nat /\ MaxCommits \in Nat

VARIABLES
  block,    \* none, open, leaving, left, raised: the `with` block
  queue,    \* __queries: the queries that were not sent yet, by number
  added,    \* how many were added
  commits,  \* what each commit() sent, and what became of it
  applied,  \* the commits that the engine ran, in order
  before    \* ghost: how many queries were added when the block came to its end

batchVars == <<block, queue, added, commits, applied, before>>

BatchInit ==
  /\ block = "none"
  /\ queue = <<>> /\ added = 0 /\ commits = <<>> /\ applied = <<>> /\ before = 0

Awaits(u) == \E c \in DOMAIN commits : commits[c].by = u /\ commits[c].answer = "awaited"

EnterBatch ==
  /\ block = "none"
  /\ block' = "open"
  /\ UNCHANGED <<queue, added, commits, applied, before>>

\* _add: the query is built at once. Nothing asks whether the block has ended.
AddToBatch(u) ==
  /\ block # "none" /\ ~Awaits(u) /\ added < MaxBatch
  /\ queue' = Append(queue, added + 1)
  /\ added' = added + 1
  /\ UNCHANGED <<block, commits, applied, before>>

Sent(u) == [queries |-> queue, by |-> u, answer |-> "awaited", state |-> "sent"]

\* commit(): the list is emptied before the request. (Slip: the list stays.)
SendQueriesKeeping(u) ==
  /\ ~Awaits(u) /\ Len(commits) < MaxCommits
  /\ commits' = Append(commits, Sent(u))
  /\ UNCHANGED <<queue, added, applied>>
SendQueries(u) ==
  /\ ~Awaits(u) /\ Len(commits) < MaxCommits
  /\ commits' = Append(commits, Sent(u))
  /\ queue' = <<>>
  /\ UNCHANGED <<added, applied>>

Commit(u) ==
  /\ block # "none"
  /\ SendQueries(u)
  /\ UNCHANGED <<block, before>>

\* The end of the block, without an exception and with one.
LeaveBatch ==
  /\ block = "open"
  /\ SendQueries(Owner)
  /\ block' = "leaving" /\ before' = added
RaiseInBatch ==
  /\ block = "open" /\ ~Awaits(Owner)
  /\ block' = "raised"
  /\ UNCHANGED <<queue, added, commits, applied, before>>

-----------------------------------------------------------------------------
(* The engine, and its answers.                                            *)

RunCommit(c) ==
  /\ commits[c].state = "sent"
  /\ commits' = [commits EXCEPT ![c].state = "run"]
  /\ applied' = Append(applied, c)
  /\ UNCHANGED <<block, queue, added, before>>

\* One of its queries fails, and so none of them is applied.
RefuseCommit(c) ==
  /\ commits[c].state = "sent"
  /\ commits' = [commits EXCEPT ![c].state = "refused"]
  /\ UNCHANGED <<block, queue, added, applied, before>>

\* A commit that ends the block ends it either way.
Ended(c, next) ==
  IF block = "leaving" /\ commits[c].by = Owner THEN next ELSE block

Return(c) ==
  /\ commits[c].answer = "awaited" /\ commits[c].state = "run"
  /\ commits' = [commits EXCEPT ![c].answer = "returned"]
  /\ block' = Ended(c, "left")
  /\ UNCHANGED <<queue, added, applied, before>>

\* An error is reported, the client is not connected, the request times out, its
\* answer is lost, or the task is cancelled: what the engine does is left open.
Fail(c) ==
  /\ commits[c].answer = "awaited"
  /\ commits' = [commits EXCEPT ![c].answer = "raised"]
  /\ block' = Ended(c, "raised")
  /\ UNCHANGED <<queue, added, applied, before>>

BatchNext ==
  \/ EnterBatch \/ LeaveBatch \/ RaiseInBatch
  \/ \E u \in Users : AddToBatch(u) \/ Commit(u)
  \/ \E c \in DOMAIN commits : RunCommit(c) \/ RefuseCommit(c) \/ Return(c) \/ Fail(c)

BatchSpec == BatchInit /\ [][BatchNext]_batchVars

-----------------------------------------------------------------------------
(* Properties.                                                             *)

\* The queries of the i-th transaction that the engine ran.
Applied(i) == commits[applied[i]].queries

NothingTwice ==
  \A i, j \in DOMAIN applied : \A k \in DOMAIN Applied(i), l \in DOMAIN Applied(j) :
    Applied(i)[k] = Applied(j)[l] => i = j /\ k = l

\* A transaction runs its queries in the order in which they were added.
Sorted ==
  \A c \in DOMAIN commits : \A k, l \in DOMAIN commits[c].queries :
    k < l => commits[c].queries[k] < commits[c].queries[l]

\* A task that saw its commit succeed has it applied before its later ones.
InOrder ==
  \A c, e \in DOMAIN commits :
    /\ c < e /\ commits[c].by = commits[e].by
    /\ commits[c].answer = "returned" /\ commits[e].state = "run"
    => \E i, j \in DOMAIN applied : i < j /\ applied[i] = c /\ applied[j] = e

\* Where a query is that was added before the block ended.
Accounted(c) ==
  \/ \E i \in DOMAIN applied : applied[i] = c
  \/ commits[c].answer = "raised"
  \/ commits[c].answer = "awaited" /\ commits[c].by # Owner

NothingForgotten ==
  block = "left" => \A q \in 1 .. before :
    \E c \in DOMAIN commits : Accounted(c) /\ \E k \in DOMAIN commits[c].queries : commits[c].queries[k] = q

\* However the tasks that share a batch interleave, and whatever fails, is late
\* or comes without an answer: no query is applied twice, those of one
\* transaction and the commits that a task saw succeed are applied in their
\* order, and once the block has ended without an exception every query that was
\* added before is applied, unless its commit raised or is another task's that
\* still waits for it.
BatchAppliesOnce == NothingTwice /\ Sorted /\ InOrder /\ NothingForgotten

=============================================================================
