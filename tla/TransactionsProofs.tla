------------------------- MODULE TransactionsProofs -------------------------
(***************************************************************************)
(* Proofs about Transactions, for every number of managers, transactions,  *)
(* queries and query engines.                                              *)
(***************************************************************************)
EXTENDS Transactions, TLAPS

-----------------------------------------------------------------------------
(* The inductive invariant.                                                *)

\* A transaction belongs to one block.  While the block runs, the manager has
\* its id, it has no result, and only a body that raised is rolled back.
Blocks ==
  /\ \A m \in Managers :
       /\ block[m] # NoTx =>
            phase[block[m]] # "none" /\ home[block[m]] \in Engines
       /\ ~At(m, "idle") => block[m] # NoTx /\ result[block[m]] = "none"
       /\ pc[m] \in {"body", "query", "commit", "rollback"} =>
            tx_id[m] = block[m]
       /\ pc[m] \in {"start", "body", "query", "commit"} => ~exc[block[m]]
  /\ \A m, n \in Managers :
       block[m] # NoTx /\ block[m] = block[n] => m = n
  /\ \A t \in Txs : phase[t] = "none" =>
       /\ issued[t] = {} /\ outer[t] = {} /\ seen[t] = {} /\ staged[t] = {}
       /\ ~exc[t] /\ result[t] = "none"

\* A manager waits for one request at a time, the one its call has sent, and
\* for no answer outside a call.
Waiting ==
  /\ \A r \in transit : r.waited =>
       /\ At(r.from, r.op) /\ answer[r.from] = "none"
       /\ r.tx # NoTx => r.tx = block[r.from]
       /\ r.op = "query" => writing[r.from] = r.query
       /\ r.op = "query" /\ r.tx = NoTx => r.query \in outer[block[r.from]]
  /\ \A r, s \in transit :
       r.waited /\ s.waited /\ r.from = s.from => r = s
  /\ \A m \in Managers : answer[m] # "none" => pc[m] \in Call

\* A commit was asked for after a body that did not raise.
Finished(t) ==
  /\ phase[t] # "none" /\ ~exc[t]
  /\ \A m \in Managers : block[m] = t => pc[m] \in {"commit", "idle"}

\* What a request in transit says is still so when it is served, however late.
InTransit ==
  /\ \A r \in transit :
       /\ r.tx # NoTx => phase[r.tx] # "none"
       /\ r.op # "query" => r.tx # NoTx
       /\ r.op = "start" => phase[r.tx] = "asked"
       /\ r.op = "query" /\ r.tx # NoTx => r.query \in issued[r.tx]
       /\ r.op = "query" /\ r.tx = NoTx => \E t \in Txs : r.query \in outer[t]
       /\ r.op = "commit" => Finished(r.tx)
  /\ \A r, s \in transit :
       r.op = "start" /\ s.op = "start" /\ r.tx = s.tx => r = s

\* A query is issued once, by one block, in its transaction or outside.
Apart ==
  /\ \A t, u \in Txs : issued[t] \cap outer[u] = {}
  /\ \A t, u \in Txs : t # u => issued[t] \cap issued[u] = {}
  /\ \A t \in Txs : staged[t] \subseteq issued[t]

\* The database holds the whole of what a committed transaction staged, writes
\* made outside, and nothing else.
Ledger ==
  /\ \A q \in db : \E t \in Txs : q \in issued[t] \cup outer[t]
  /\ \A t \in Txs :
       /\ issued[t] \cap db # {} => phase[t] = "committed"
       /\ phase[t] = "committed" => staged[t] \subseteq db /\ Finished(t)

\* What a body saw succeed is staged or, if made outside, in the database; a
\* block that returned was committed.
Observed ==
  /\ \A t \in Txs :
       /\ seen[t] \subseteq issued[t] \cup outer[t]
       /\ seen[t] \cap issued[t] \subseteq staged[t]
       /\ seen[t] \cap outer[t] \subseteq db
       /\ result[t] = "returned" => phase[t] = "committed"
  /\ \A m \in Managers :
       /\ At(m, "query") =>
            /\ writing[m] \in issued[block[m]] \cup outer[block[m]]
            /\ answer[m] = "ok" =>
                 writing[m] \in staged[block[m]] \cup (outer[block[m]] \cap db)
       /\ At(m, "commit") /\ answer[m] = "ok" => phase[block[m]] = "committed"

IInv == /\ TypeOK /\ Blocks /\ Waiting /\ InTransit /\ Apart /\ Ledger
        /\ Observed

-----------------------------------------------------------------------------
(* Requests.                                                               *)

\* A call adds the one request it waits for.
LEMMA Sent ==
  ASSUME TypeOK, NEW m \in Managers, NEW op \in Call,
         NEW t \in Txs \cup {NoTx}, NEW q \in Queries \cup {NoQuery},
         NEW e \in Engines, Send(m, op, t, q, e)
  PROVE  \E s \in Request :
           /\ transit' = transit \cup {s}
           /\ s.op = op /\ s.tx = t /\ s.query = q
           /\ s.from = m /\ s.waited
           /\ pc' = [pc EXCEPT ![m] = op] /\ answer' = answer
<1> DEFINE s == [op |-> op, tx |-> t, query |-> q, to |-> e, from |-> m,
                 waited |-> TRUE]
<1>1. s \in Request
  BY DEF Request
<1>2. transit' = transit \cup {s}
  BY DEF Send
<1>3. s.op = op /\ s.tx = t /\ s.query = q /\ s.from = m /\ s.waited
  OBVIOUS
<1>4. pc' = [pc EXCEPT ![m] = op] /\ answer' = answer
  BY DEF Send, Goto
<1> HIDE DEF s
<1> QED BY <1>1, <1>2, <1>3, <1>4

\* The same of a request without a query.
LEMMA Asked ==
  ASSUME TypeOK, NEW m \in Managers, NEW op \in Call,
         NEW t \in Txs \cup {NoTx}, NEW e \in Engines,
         Send(m, op, t, NoQuery, e)
  PROVE  \E s \in Request :
           /\ transit' = transit \cup {s}
           /\ s.op = op /\ s.tx = t
           /\ s.from = m /\ s.waited
           /\ pc' = [pc EXCEPT ![m] = op] /\ answer' = answer
<1>1. NoQuery \in Queries \cup {NoQuery}
  OBVIOUS
<1> QED BY <1>1, Sent

\* It is a request like the others.
LEMMA SentTypes ==
  ASSUME TypeOK, NEW m \in Managers, NEW op \in Call,
         NEW t \in Txs \cup {NoTx}, NEW q \in Queries \cup {NoQuery},
         NEW e \in Engines, Send(m, op, t, q, e)
  PROVE  /\ transit' \in SUBSET Request
         /\ pc' \in [Managers -> Label] /\ answer' = answer
<1>1. transit' \in SUBSET Request
  <2>1. \E s \in Request : transit' = transit \cup {s}
    BY Sent
  <2> QED BY <2>1 DEF TypeOK
<1>2. pc' \in [Managers -> Label] /\ answer' = answer
  BY DEF Send, Goto, TypeOK, Label
<1> QED BY <1>1, <1>2

Left(m, r) == IF r.from = m THEN [r EXCEPT !.waited = FALSE] ELSE r

\* A request that nobody waits for any more is the same otherwise.
LEMMA LeftFields ==
  ASSUME NEW m, NEW r \in Request
  PROVE  LET s == Left(m, r) IN
         /\ s \in Request
         /\ s.op = r.op /\ s.tx = r.tx /\ s.query = r.query /\ s.from = r.from
         /\ s.waited => s = r /\ r.from # m
BY DEF Left, Request

\* A call that raises leaves its request, if it is still in transit, to nobody.
LEMMA Abandoned ==
  ASSUME TypeOK, Waiting, NEW m \in Managers, pc[m] \in Call, Raises(m)
  PROVE  /\ transit' \in SUBSET Request
         /\ answer' = [answer EXCEPT ![m] = "none"]
         /\ \A s \in transit' : \E r \in transit :
              /\ s.op = r.op /\ s.tx = r.tx /\ s.query = r.query
              /\ s.from = r.from
              /\ s.waited => s = r /\ r.from # m
         /\ \A s, u \in transit' : \E r, v \in transit :
              /\ s.op = r.op /\ s.tx = r.tx /\ u.op = v.op /\ u.tx = v.tx
              /\ r = v => s = u
<1>1. CASE Fails(m)
  <2>1. /\ transit' = transit /\ answer' = [answer EXCEPT ![m] = "none"]
        /\ answer[m] = "error"
    BY <1>1 DEF Fails
  <2>2. \A r \in transit : r.waited => r.from # m
    BY <2>1 DEF Waiting
  <2> QED BY <2>1, <2>2 DEF TypeOK
<1>2. CASE GivesUp(m)
  <2>1. /\ transit' = {Left(m, r) : r \in transit}
        /\ answer' = [answer EXCEPT ![m] = "none"]
    BY <1>2 DEF GivesUp, Left
  <2>2. transit \subseteq Request
    BY DEF TypeOK
  <2>3. \A s \in transit' : \E r \in transit : s = Left(m, r)
    BY <2>1
  <2> QED BY <2>1, <2>2, <2>3, LeftFields
<1> QED BY <1>1, <1>2 DEF Raises

\* A manager outside a call waits for nothing.
LEMMA NotCalling ==
  ASSUME TypeOK, Waiting, NEW m \in Managers, pc[m] \notin Call
  PROVE  answer[m] = "none" /\ \A r \in transit : r.waited => r.from # m
BY DEF TypeOK, Waiting, Request, At

\* When a call returns or raises, nobody waits for its request any more, and
\* the other calls wait as they did.
LEMMA CallEnds ==
  ASSUME TypeOK, Waiting, NEW m \in Managers, pc[m] \in Call,
         Succeeds(m) \/ Raises(m),
         \A n \in Managers \ {m} : pc'[n] = pc[n],
         block' = block, writing' = writing, outer' = outer
  PROVE  Waiting'
<1>1. /\ answer' = [answer EXCEPT ![m] = "none"]
      /\ \A r \in transit' : r.waited => r \in transit /\ r.from # m
  <2>1. CASE Succeeds(m)
    BY <2>1 DEF Succeeds, Waiting
  <2>2. CASE Raises(m)
    BY <2>2, Abandoned
  <2> QED BY <2>1, <2>2
<1>2. \A r \in transit : r.from \in Managers
  BY DEF TypeOK, Request
<1>3. ASSUME NEW r \in transit', r.waited
      PROVE  /\ At(r.from, r.op)' /\ answer'[r.from] = "none"
             /\ r.tx # NoTx => r.tx = block'[r.from]
             /\ r.op = "query" => writing'[r.from] = r.query
             /\ r.op = "query" /\ r.tx = NoTx =>
                  r.query \in outer'[block'[r.from]]
  <2>1. r \in transit /\ r.from \in Managers \ {m}
    BY <1>1, <1>2, <1>3
  <2>2. answer'[r.from] = answer[r.from] /\ pc'[r.from] = pc[r.from]
    BY <1>1, <2>1 DEF TypeOK
  <2> QED BY <1>3, <2>1, <2>2 DEF Waiting, At
<1>4. \A r, u \in transit' :
        r.waited /\ u.waited /\ r.from = u.from => r = u
  BY <1>1 DEF Waiting
<1>5. \A n \in Managers : answer'[n] # "none" => pc'[n] \in Call
  BY <1>1 DEF Waiting, TypeOK
<1> QED BY <1>3, <1>4, <1>5 DEF Waiting

-----------------------------------------------------------------------------
(* The steps.                                                              *)

\* No block was opened yet.
LEMMA InitInvariant == Init => IInv
BY TransactionsAssumption
   DEF Init, IInv, TypeOK, Blocks, Waiting, InTransit, Apart, Ledger, Observed,
       Finished, Phase, Call, Label, At

\* One step per action.
LEMMA TypeStep ==
  ASSUME TypeOK, Blocks, Waiting, InTransit, Observed, [Next]_vars
  PROVE  TypeOK'
<1> USE TransactionsAssumption DEF TypeOK, Phase, Call, Label, Request,
       clientVars, serverVars, blockVars, netVars, At, Goto
<1>1. ASSUME NEW e \in Engines, Connect(e) PROVE TypeOK'
  BY <1>1 DEF Connect
<1>2. ASSUME NEW e \in Engines, Crash(e) PROVE TypeOK'
  BY <1>2 DEF Crash, Dies
<1>3. CASE Disconnect
  BY <1>3 DEF Disconnect, Dies
<1>4. ASSUME NEW m \in Managers, NEW t \in Txs, Start(m, t) PROVE TypeOK'
  <2>1. /\ Send(m, "start", t, NoQuery, engine)
        /\ engine \in Engines
    BY <1>4 DEF Start
  <2>2. /\ transit' \in SUBSET Request
        /\ pc' \in [Managers -> Label] /\ answer' = answer
    BY <2>1, SentTypes
  <2> QED BY <1>4, <2>2 DEF Start
<1>5. ASSUME NEW m \in Managers, NEW q \in Queries, Query(m, q) PROVE TypeOK'
  <2>1. /\ Send(m, "query", tx_id[m], q, home[block[m]])
        /\ home[block[m]] \in Engines /\ tx_id[m] \in Txs \cup {NoTx}
        /\ q \in Queries \cup {NoQuery} /\ "query" \in Call
    BY <1>5 DEF Query, Blocks
  <2>2. /\ transit' \in SUBSET Request /\ pc' \in [Managers -> Label]
        /\ answer' = answer
    BY <2>1, SentTypes
  <2>3. block[m] \in Txs
    BY <1>5 DEF Query, Blocks
  <2> QED BY <1>5, <2>2, <2>3 DEF Query
<1>6. ASSUME NEW m \in Managers, NEW q \in Queries, QueryOuter(m, q)
      PROVE TypeOK'
  <2>1. /\ Send(m, "query", NoTx, q, engine)
        /\ engine \in Engines /\ NoTx \in Txs \cup {NoTx}
        /\ q \in Queries \cup {NoQuery} /\ "query" \in Call
    BY <1>6 DEF QueryOuter, Blocks
  <2>2. /\ transit' \in SUBSET Request /\ pc' \in [Managers -> Label]
        /\ answer' = answer
    BY <2>1, SentTypes
  <2>3. block[m] \in Txs
    BY <1>6 DEF QueryOuter, Blocks
  <2> QED BY <1>6, <2>2, <2>3 DEF QueryOuter
<1>7. ASSUME NEW m \in Managers, ExitCommit(m) PROVE TypeOK'
  <2>1. block[m] \in Txs
    BY <1>7 DEF ExitCommit, Blocks
  <2>2. /\ transit' \in SUBSET Request /\ pc' \in [Managers -> Label]
        /\ answer' = answer
        /\ result' \in [Txs -> {"none", "returned", "raised"}]
    <3>1. CASE engine = NoEngine
      BY <1>7, <2>1, <3>1 DEF ExitCommit, Ask, End
    <3>2. CASE engine # NoEngine
      <4>1. Send(m, "commit", tx_id[m], NoQuery, engine) /\ result' = result
        BY <1>7, <3>2 DEF ExitCommit, Ask
      <4> QED BY <3>2, <4>1, SentTypes
    <3> QED BY <3>1, <3>2
  <2> QED BY <1>7, <2>1, <2>2 DEF ExitCommit
<1>8. ASSUME NEW m \in Managers, ExitRollback(m) PROVE TypeOK'
  <2>1. block[m] \in Txs
    BY <1>8 DEF ExitRollback, Blocks
  <2>2. /\ transit' \in SUBSET Request /\ pc' \in [Managers -> Label]
        /\ answer' = answer
        /\ result' \in [Txs -> {"none", "returned", "raised"}]
    <3>1. CASE engine = NoEngine
      BY <1>8, <2>1, <3>1 DEF ExitRollback, Ask, End
    <3>2. CASE engine # NoEngine
      <4>1. Send(m, "rollback", tx_id[m], NoQuery, engine) /\ result' = result
        BY <1>8, <3>2 DEF ExitRollback, Ask
      <4> QED BY <3>2, <4>1, SentTypes
    <3> QED BY <3>1, <3>2
  <2> QED BY <1>8, <2>1, <2>2 DEF ExitRollback
<1>9. ASSUME NEW m \in Managers, Started(m) PROVE TypeOK'
  BY <1>9 DEF Started, Succeeds
<1>10. ASSUME NEW m \in Managers, StartFails(m) PROVE TypeOK'
  <2>1. pc[m] \in Call /\ Raises(m) /\ block[m] \in Txs
    BY <1>10 DEF StartFails, Blocks
  <2>2. transit' \in SUBSET Request /\ answer' = [answer EXCEPT ![m] = "none"]
    BY <2>1, Abandoned
  <2> QED BY <1>10, <2>1, <2>2 DEF StartFails, End
<1>11. ASSUME NEW m \in Managers, QueryDone(m) PROVE TypeOK'
  <2>1. block[m] \in Txs /\ writing[m] \in Queries
    BY <1>11 DEF QueryDone, Blocks, Observed
  <2> QED BY <1>11, <2>1 DEF QueryDone, Succeeds
<1>12. ASSUME NEW m \in Managers, QueryFails(m) PROVE TypeOK'
  <2>1. pc[m] \in Call /\ Raises(m) /\ block[m] \in Txs
    BY <1>12 DEF QueryFails, Blocks
  <2>2. transit' \in SUBSET Request /\ answer' = [answer EXCEPT ![m] = "none"]
    BY <2>1, Abandoned
  <2> QED BY <1>12, <2>1, <2>2 DEF QueryFails, End
<1>13. ASSUME NEW m \in Managers, Committed(m) PROVE TypeOK'
  BY <1>13 DEF Committed, Succeeds, End
<1>14. ASSUME NEW m \in Managers, CommitFails(m) PROVE TypeOK'
  <2>1. pc[m] \in Call /\ Raises(m) /\ block[m] \in Txs
    BY <1>14 DEF CommitFails, Blocks
  <2>2. transit' \in SUBSET Request /\ answer' = [answer EXCEPT ![m] = "none"]
    BY <2>1, Abandoned
  <2> QED BY <1>14, <2>1, <2>2 DEF CommitFails, End
<1>15. ASSUME NEW m \in Managers, RolledBack(m) PROVE TypeOK'
  <2>1. pc[m] \in Call /\ block[m] \in Txs
    BY <1>15 DEF RolledBack, Blocks
  <2>2. transit' \in SUBSET Request /\ answer' = [answer EXCEPT ![m] = "none"]
    <3>1. CASE Succeeds(m)
      BY <3>1 DEF Succeeds
    <3>2. CASE Raises(m)
      BY <2>1, <3>2, Abandoned
    <3> QED BY <1>15, <3>1, <3>2 DEF RolledBack
  <2> QED BY <1>15, <2>1, <2>2 DEF RolledBack, End
<1>16. ASSUME NEW r \in transit, ServeStart(r) PROVE TypeOK'
  BY <1>16 DEF ServeStart, Reply, Up
<1>17. ASSUME NEW r \in transit, ServeStaged(r) PROVE TypeOK'
  <2>1. r.query \in Queries
    BY <1>17 DEF ServeStaged, InTransit
  <2> QED BY <1>17, <2>1 DEF ServeStaged, Reply, Up, Open
<1>18. ASSUME NEW r \in transit, ServeDirect(r) PROVE TypeOK'
  <2>1. r.query \in Queries
    BY <1>18 DEF ServeDirect, InTransit
  <2> QED BY <1>18, <2>1 DEF ServeDirect, Reply, Up
<1>19. ASSUME NEW r \in transit, ServeCommit(r) PROVE TypeOK'
  BY <1>19 DEF ServeCommit, Reply, Up, Open
<1>20. ASSUME NEW r \in transit, ServeRollback(r) PROVE TypeOK'
  BY <1>20 DEF ServeRollback, Reply, Up, Open
<1>21. ASSUME NEW r \in transit, Refuse(r) PROVE TypeOK'
  BY <1>21 DEF Refuse, Reply
<1>22. ASSUME NEW t \in Txs, Expire(t) PROVE TypeOK'
  BY <1>22 DEF Expire
<1>23. CASE UNCHANGED vars
  BY <1>23 DEF vars
<1> QED BY <1>1, <1>2, <1>3, <1>4, <1>5, <1>6, <1>7, <1>8, <1>9, <1>10,
           <1>11, <1>12, <1>13, <1>14, <1>15, <1>16, <1>17, <1>18, <1>19,
           <1>20, <1>21, <1>22, <1>23
        DEF Next, Manager, Returns, Serve

\* A block takes a transaction nobody had.
LEMMA BlocksStep ==
  ASSUME TypeOK, Waiting, Blocks, [Next]_vars
  PROVE  Blocks'
<1> USE TransactionsAssumption DEF TypeOK, Phase, Call, Label, Request,
       clientVars, serverVars, blockVars, netVars, At, Goto, Waiting, Blocks
<1>1. ASSUME NEW e \in Engines, Connect(e) PROVE Blocks'
  BY <1>1 DEF Connect
<1>2. ASSUME NEW e \in Engines, Crash(e) PROVE Blocks'
  BY <1>2 DEF Crash, Dies
<1>3. CASE Disconnect
  BY <1>3 DEF Disconnect, Dies
<1>4. ASSUME NEW m \in Managers, NEW t \in Txs, Start(m, t) PROVE Blocks'
  BY <1>4 DEF Start, Send
<1>5. ASSUME NEW m \in Managers, NEW q \in Queries, Query(m, q) PROVE Blocks'
  BY <1>5 DEF Query, Send, Fresh
<1>6. ASSUME NEW m \in Managers, NEW q \in Queries, QueryOuter(m, q)
      PROVE Blocks'
  BY <1>6 DEF QueryOuter, Send, Fresh
<1>7. ASSUME NEW m \in Managers, ExitCommit(m) PROVE Blocks'
  BY <1>7 DEF ExitCommit, Ask, Send, End
<1>8. ASSUME NEW m \in Managers, ExitRollback(m) PROVE Blocks'
  BY <1>8 DEF ExitRollback, Ask, Send, End
<1>9. ASSUME NEW m \in Managers, Started(m) PROVE Blocks'
  BY <1>9 DEF Started, Succeeds
<1>10. ASSUME NEW m \in Managers, StartFails(m) PROVE Blocks'
  BY <1>10 DEF StartFails, Raises, Fails, GivesUp
<1>11. ASSUME NEW m \in Managers, QueryDone(m) PROVE Blocks'
  BY <1>11 DEF QueryDone, Succeeds
<1>12. ASSUME NEW m \in Managers, QueryFails(m) PROVE Blocks'
  BY <1>12 DEF QueryFails, Raises, Fails, GivesUp
<1>13. ASSUME NEW m \in Managers, Committed(m) PROVE Blocks'
  BY <1>13 DEF Committed, Succeeds, End
<1>14. ASSUME NEW m \in Managers, CommitFails(m) PROVE Blocks'
  BY <1>14 DEF CommitFails, Raises, Fails, GivesUp, End
<1>15. ASSUME NEW m \in Managers, RolledBack(m) PROVE Blocks'
  BY <1>15 DEF RolledBack, Succeeds, Raises, Fails, GivesUp, End
<1>16. ASSUME NEW r \in transit, ServeStart(r) PROVE Blocks'
  BY <1>16 DEF ServeStart, Reply, Up
<1>17. ASSUME NEW r \in transit, ServeStaged(r) PROVE Blocks'
  BY <1>17 DEF ServeStaged, Reply, Up, Open
<1>18. ASSUME NEW r \in transit, ServeDirect(r) PROVE Blocks'
  BY <1>18 DEF ServeDirect, Reply, Up
<1>19. ASSUME NEW r \in transit, ServeCommit(r) PROVE Blocks'
  BY <1>19 DEF ServeCommit, Reply, Up, Open
<1>20. ASSUME NEW r \in transit, ServeRollback(r) PROVE Blocks'
  BY <1>20 DEF ServeRollback, Reply, Up, Open
<1>21. ASSUME NEW r \in transit, Refuse(r) PROVE Blocks'
  BY <1>21 DEF Refuse, Reply
<1>22. ASSUME NEW t \in Txs, Expire(t) PROVE Blocks'
  BY <1>22 DEF Expire
<1>23. CASE UNCHANGED vars
  BY <1>23 DEF vars
<1> QED BY <1>1, <1>2, <1>3, <1>4, <1>5, <1>6, <1>7, <1>8, <1>9, <1>10,
           <1>11, <1>12, <1>13, <1>14, <1>15, <1>16, <1>17, <1>18, <1>19,
           <1>20, <1>21, <1>22, <1>23
        DEF Next, Manager, Returns, Serve

\* A request is answered to the call that sent it, or to nobody.
LEMMA WaitingStep ==
  ASSUME TypeOK, Blocks, Waiting, [Next]_vars
  PROVE  Waiting'
<1> USE TransactionsAssumption DEF TypeOK, Phase, Call, Label, Request,
       clientVars, serverVars, blockVars, netVars, At, Goto, Blocks, Waiting
<1>1. ASSUME NEW e \in Engines, Connect(e) PROVE Waiting'
  BY <1>1 DEF Connect
<1>2. ASSUME NEW e \in Engines, Crash(e) PROVE Waiting'
  BY <1>2 DEF Crash, Dies
<1>3. CASE Disconnect
  BY <1>3 DEF Disconnect, Dies
<1>4. ASSUME NEW m \in Managers, NEW t \in Txs, Start(m, t) PROVE Waiting'
  <2>1. /\ Send(m, "start", t, NoQuery, engine)
        /\ engine \in Engines /\ t \in Txs \cup {NoTx}
        /\ NoQuery \in Queries \cup {NoQuery} /\ "start" \in Call
    BY <1>4 DEF Start, Blocks
  <2>2. PICK s \in Request :
              /\ transit' = transit \cup {s}
              /\ s.op = "start" /\ s.tx = t
              /\ s.from = m /\ s.waited
              /\ pc' = [pc EXCEPT ![m] = "start"] /\ answer' = answer
    <3> HIDE DEF TypeOK, Call, Request
    <3> QED BY <2>1, Asked
  <2>3. answer[m] = "none" /\ \A r \in transit : r.waited => r.from # m
    BY <1>4, NotCalling DEF Start
  <2>4. /\ block' = [block EXCEPT ![m] = t] /\ writing' = writing
        /\ outer' = outer
    BY <1>4 DEF Start, Blocks
  <2>5. ASSUME NEW r \in transit', r.waited
        PROVE  /\ At(r.from, r.op)' /\ answer'[r.from] = "none"
               /\ r.tx # NoTx => r.tx = block'[r.from]
               /\ r.op = "query" => writing'[r.from] = r.query
               /\ r.op = "query" /\ r.tx = NoTx =>
                    r.query \in outer'[block'[r.from]]
    <3>1. CASE r \in transit
      <4>1. r.from # m /\ r \in Request
        BY <2>3, <2>5, <3>1
      <4> QED BY <2>2, <2>4, <2>5, <3>1, <4>1
    <3>2. CASE r = s
      BY <2>2, <2>3, <2>4, <3>2
    <3> QED BY <2>2, <3>1, <3>2
  <2>6. \A r, u \in transit' :
          r.waited /\ u.waited /\ r.from = u.from => r = u
    BY <2>2, <2>3
  <2>7. \A n \in Managers : answer'[n] # "none" => pc'[n] \in Call
    BY <2>2
  <2> QED BY <2>5, <2>6, <2>7
<1>5. ASSUME NEW m \in Managers, NEW q \in Queries, Query(m, q) PROVE Waiting'
  <2>1. /\ Send(m, "query", tx_id[m], q, home[block[m]])
        /\ home[block[m]] \in Engines /\ tx_id[m] \in Txs \cup {NoTx}
        /\ q \in Queries \cup {NoQuery} /\ "query" \in Call
    BY <1>5 DEF Query, Blocks
  <2>2. PICK s \in Request :
              /\ transit' = transit \cup {s}
              /\ s.op = "query" /\ s.tx = tx_id[m] /\ s.query = q
              /\ s.from = m /\ s.waited
              /\ pc' = [pc EXCEPT ![m] = "query"] /\ answer' = answer
    <3> HIDE DEF TypeOK, Call, Request
    <3> QED BY <2>1, Sent
  <2>3. answer[m] = "none" /\ \A r \in transit : r.waited => r.from # m
    BY <1>5, NotCalling DEF Query
  <2>4. /\ block' = block /\ writing' = [writing EXCEPT ![m] = q]
        /\ outer' = outer /\ block[m] \in Txs /\ tx_id[m] = block[m]
    BY <1>5 DEF Query, Blocks
  <2>5. ASSUME NEW r \in transit', r.waited
        PROVE  /\ At(r.from, r.op)' /\ answer'[r.from] = "none"
               /\ r.tx # NoTx => r.tx = block'[r.from]
               /\ r.op = "query" => writing'[r.from] = r.query
               /\ r.op = "query" /\ r.tx = NoTx =>
                    r.query \in outer'[block'[r.from]]
    <3>1. CASE r \in transit
      <4>1. r.from # m /\ r \in Request
        BY <2>3, <2>5, <3>1
      <4> QED BY <2>2, <2>4, <2>5, <3>1, <4>1
    <3>2. CASE r = s
      BY <2>2, <2>3, <2>4, <3>2
    <3> QED BY <2>2, <3>1, <3>2
  <2>6. \A r, u \in transit' :
          r.waited /\ u.waited /\ r.from = u.from => r = u
    BY <2>2, <2>3
  <2>7. \A n \in Managers : answer'[n] # "none" => pc'[n] \in Call
    BY <2>2
  <2> QED BY <2>5, <2>6, <2>7
<1>6. ASSUME NEW m \in Managers, NEW q \in Queries, QueryOuter(m, q)
      PROVE Waiting'
  <2>1. /\ Send(m, "query", NoTx, q, engine)
        /\ engine \in Engines /\ NoTx \in Txs \cup {NoTx}
        /\ q \in Queries \cup {NoQuery} /\ "query" \in Call
    BY <1>6 DEF QueryOuter, Blocks
  <2>2. PICK s \in Request :
              /\ transit' = transit \cup {s}
              /\ s.op = "query" /\ s.tx = NoTx /\ s.query = q
              /\ s.from = m /\ s.waited
              /\ pc' = [pc EXCEPT ![m] = "query"] /\ answer' = answer
    <3> HIDE DEF TypeOK, Call, Request
    <3> QED BY <2>1, Sent
  <2>3. answer[m] = "none" /\ \A r \in transit : r.waited => r.from # m
    BY <1>6, NotCalling DEF QueryOuter
  <2>4. /\ block' = block /\ writing' = [writing EXCEPT ![m] = q]
        /\ outer' = [outer EXCEPT ![block[m]] = @ \cup {q}]
        /\ block[m] \in Txs
    BY <1>6 DEF QueryOuter, Blocks
  <2>5. ASSUME NEW r \in transit', r.waited
        PROVE  /\ At(r.from, r.op)' /\ answer'[r.from] = "none"
               /\ r.tx # NoTx => r.tx = block'[r.from]
               /\ r.op = "query" => writing'[r.from] = r.query
               /\ r.op = "query" /\ r.tx = NoTx =>
                    r.query \in outer'[block'[r.from]]
    <3>1. CASE r \in transit
      <4>1. r.from # m /\ r \in Request
        BY <2>3, <2>5, <3>1
      <4> QED BY <2>2, <2>4, <2>5, <3>1, <4>1
    <3>2. CASE r = s
      BY <2>2, <2>3, <2>4, <3>2
    <3> QED BY <2>2, <3>1, <3>2
  <2>6. \A r, u \in transit' :
          r.waited /\ u.waited /\ r.from = u.from => r = u
    BY <2>2, <2>3
  <2>7. \A n \in Managers : answer'[n] # "none" => pc'[n] \in Call
    BY <2>2
  <2> QED BY <2>5, <2>6, <2>7
<1>7. ASSUME NEW m \in Managers, ExitCommit(m) PROVE Waiting'
  <2>1. /\ answer[m] = "none" /\ \A r \in transit : r.waited => r.from # m
        /\ block[m] \in Txs /\ tx_id[m] = block[m]
        /\ block' = block /\ writing' = writing /\ outer' = outer
    BY <1>7, NotCalling DEF ExitCommit, Blocks
  <2>2. CASE engine = NoEngine
    <3>1. pc' = [pc EXCEPT ![m] = "idle"] /\ UNCHANGED <<transit, answer>>
      BY <1>7, <2>2 DEF ExitCommit, Ask, End
    <3> QED BY <2>1, <3>1
  <2>3. CASE engine # NoEngine
    <3>1. /\ Send(m, "commit", tx_id[m], NoQuery, engine)
          /\ engine \in Engines /\ "commit" \in Call
          /\ tx_id[m] \in Txs \cup {NoTx}
          /\ NoQuery \in Queries \cup {NoQuery}
      BY <1>7, <2>3 DEF ExitCommit, Ask
    <3>2. PICK s \in Request :
            /\ transit' = transit \cup {s}
            /\ s.op = "commit" /\ s.tx = tx_id[m]
            /\ s.from = m /\ s.waited
            /\ pc' = [pc EXCEPT ![m] = "commit"] /\ answer' = answer
      <4> HIDE DEF TypeOK, Call, Request
      <4> QED BY <3>1, Asked
    <3>3. ASSUME NEW r \in transit', r.waited
          PROVE  /\ At(r.from, r.op)' /\ answer'[r.from] = "none"
                 /\ r.tx # NoTx => r.tx = block'[r.from]
                 /\ r.op = "query" => writing'[r.from] = r.query
                 /\ r.op = "query" /\ r.tx = NoTx =>
                      r.query \in outer'[block'[r.from]]
      <4>1. CASE r \in transit
        <5>1. r.from # m /\ r \in Request
          BY <2>1, <3>3, <4>1
        <5> QED BY <2>1, <3>2, <3>3, <4>1, <5>1
      <4>2. CASE r = s
        BY <2>1, <3>2, <4>2
      <4> QED BY <3>2, <4>1, <4>2
    <3>4. \A r, u \in transit' :
            r.waited /\ u.waited /\ r.from = u.from => r = u
      BY <2>1, <3>2
    <3>5. \A n \in Managers : answer'[n] # "none" => pc'[n] \in Call
      BY <3>2
    <3> QED BY <3>3, <3>4, <3>5
  <2> QED BY <2>2, <2>3
<1>8. ASSUME NEW m \in Managers, ExitRollback(m) PROVE Waiting'
  <2>1. /\ answer[m] = "none" /\ \A r \in transit : r.waited => r.from # m
        /\ block[m] \in Txs /\ tx_id[m] = block[m]
        /\ block' = block /\ writing' = writing /\ outer' = outer
    BY <1>8, NotCalling DEF ExitRollback, Blocks
  <2>2. CASE engine = NoEngine
    <3>1. pc' = [pc EXCEPT ![m] = "idle"] /\ UNCHANGED <<transit, answer>>
      BY <1>8, <2>2 DEF ExitRollback, Ask, End
    <3> QED BY <2>1, <3>1
  <2>3. CASE engine # NoEngine
    <3>1. /\ Send(m, "rollback", tx_id[m], NoQuery, engine)
          /\ engine \in Engines /\ "rollback" \in Call
          /\ tx_id[m] \in Txs \cup {NoTx}
          /\ NoQuery \in Queries \cup {NoQuery}
      BY <1>8, <2>3 DEF ExitRollback, Ask
    <3>2. PICK s \in Request :
            /\ transit' = transit \cup {s}
            /\ s.op = "rollback" /\ s.tx = tx_id[m]
            /\ s.from = m /\ s.waited
            /\ pc' = [pc EXCEPT ![m] = "rollback"] /\ answer' = answer
      <4> HIDE DEF TypeOK, Call, Request
      <4> QED BY <3>1, Asked
    <3>3. ASSUME NEW r \in transit', r.waited
          PROVE  /\ At(r.from, r.op)' /\ answer'[r.from] = "none"
                 /\ r.tx # NoTx => r.tx = block'[r.from]
                 /\ r.op = "query" => writing'[r.from] = r.query
                 /\ r.op = "query" /\ r.tx = NoTx =>
                      r.query \in outer'[block'[r.from]]
      <4>1. CASE r \in transit
        <5>1. r.from # m /\ r \in Request
          BY <2>1, <3>3, <4>1
        <5> QED BY <2>1, <3>2, <3>3, <4>1, <5>1
      <4>2. CASE r = s
        BY <2>1, <3>2, <4>2
      <4> QED BY <3>2, <4>1, <4>2
    <3>4. \A r, u \in transit' :
            r.waited /\ u.waited /\ r.from = u.from => r = u
      BY <2>1, <3>2
    <3>5. \A n \in Managers : answer'[n] # "none" => pc'[n] \in Call
      BY <3>2
    <3> QED BY <3>3, <3>4, <3>5
  <2> QED BY <2>2, <2>3
<1>9. ASSUME NEW m \in Managers, Started(m) PROVE Waiting'
  <2>1. /\ pc[m] \in Call /\ (Succeeds(m) \/ Raises(m))
        /\ \A n \in Managers \ {m} : pc'[n] = pc[n]
        /\ block' = block /\ writing' = writing /\ outer' = outer
    BY <1>9 DEF Started
  <2> QED BY <2>1, CallEnds
<1>10. ASSUME NEW m \in Managers, StartFails(m) PROVE Waiting'
  <2>1. /\ pc[m] \in Call /\ (Succeeds(m) \/ Raises(m))
        /\ \A n \in Managers \ {m} : pc'[n] = pc[n]
        /\ block' = block /\ writing' = writing /\ outer' = outer
    BY <1>10 DEF StartFails
  <2> QED BY <2>1, CallEnds
<1>11. ASSUME NEW m \in Managers, QueryDone(m) PROVE Waiting'
  <2>1. /\ pc[m] \in Call /\ (Succeeds(m) \/ Raises(m))
        /\ \A n \in Managers \ {m} : pc'[n] = pc[n]
        /\ block' = block /\ writing' = writing /\ outer' = outer
    BY <1>11 DEF QueryDone
  <2> QED BY <2>1, CallEnds
<1>12. ASSUME NEW m \in Managers, QueryFails(m) PROVE Waiting'
  <2>1. /\ pc[m] \in Call /\ (Succeeds(m) \/ Raises(m))
        /\ \A n \in Managers \ {m} : pc'[n] = pc[n]
        /\ block' = block /\ writing' = writing /\ outer' = outer
    BY <1>12 DEF QueryFails
  <2> QED BY <2>1, CallEnds
<1>13. ASSUME NEW m \in Managers, Committed(m) PROVE Waiting'
  <2>1. /\ pc[m] \in Call /\ (Succeeds(m) \/ Raises(m))
        /\ \A n \in Managers \ {m} : pc'[n] = pc[n]
        /\ block' = block /\ writing' = writing /\ outer' = outer
    BY <1>13 DEF Committed, End
  <2> QED BY <2>1, CallEnds
<1>14. ASSUME NEW m \in Managers, CommitFails(m) PROVE Waiting'
  <2>1. /\ pc[m] \in Call /\ (Succeeds(m) \/ Raises(m))
        /\ \A n \in Managers \ {m} : pc'[n] = pc[n]
        /\ block' = block /\ writing' = writing /\ outer' = outer
    BY <1>14 DEF CommitFails, End
  <2> QED BY <2>1, CallEnds
<1>15. ASSUME NEW m \in Managers, RolledBack(m) PROVE Waiting'
  <2>1. /\ pc[m] \in Call /\ (Succeeds(m) \/ Raises(m))
        /\ \A n \in Managers \ {m} : pc'[n] = pc[n]
        /\ block' = block /\ writing' = writing /\ outer' = outer
    BY <1>15 DEF RolledBack, End
  <2> QED BY <2>1, CallEnds
<1>16. ASSUME NEW r \in transit, ServeStart(r) PROVE Waiting'
  BY <1>16 DEF ServeStart, Reply, Up
<1>17. ASSUME NEW r \in transit, ServeStaged(r) PROVE Waiting'
  BY <1>17 DEF ServeStaged, Reply, Up, Open
<1>18. ASSUME NEW r \in transit, ServeDirect(r) PROVE Waiting'
  BY <1>18 DEF ServeDirect, Reply, Up
<1>19. ASSUME NEW r \in transit, ServeCommit(r) PROVE Waiting'
  BY <1>19 DEF ServeCommit, Reply, Up, Open
<1>20. ASSUME NEW r \in transit, ServeRollback(r) PROVE Waiting'
  BY <1>20 DEF ServeRollback, Reply, Up, Open
<1>21. ASSUME NEW r \in transit, Refuse(r) PROVE Waiting'
  BY <1>21 DEF Refuse, Reply
<1>22. ASSUME NEW t \in Txs, Expire(t) PROVE Waiting'
  BY <1>22 DEF Expire
<1>23. CASE UNCHANGED vars
  BY <1>23 DEF vars
<1> QED BY <1>1, <1>2, <1>3, <1>4, <1>5, <1>6, <1>7, <1>8, <1>9, <1>10,
           <1>11, <1>12, <1>13, <1>14, <1>15, <1>16, <1>17, <1>18, <1>19,
           <1>20, <1>21, <1>22, <1>23
        DEF Next, Manager, Returns, Serve

\* What the engine does for one request invalidates no other.
LEMMA InTransitStep ==
  ASSUME TypeOK, Blocks, Waiting, InTransit, [Next]_vars
  PROVE  InTransit'
<1> USE TransactionsAssumption DEF TypeOK, Phase, Call, Label, Request,
       clientVars, serverVars, blockVars, netVars, At, Goto, Blocks, Waiting,
       InTransit, Finished
<1>1. ASSUME NEW e \in Engines, Connect(e) PROVE InTransit'
  BY <1>1 DEF Connect
<1>2. ASSUME NEW e \in Engines, Crash(e) PROVE InTransit'
  BY <1>2 DEF Crash, Dies
<1>3. CASE Disconnect
  BY <1>3 DEF Disconnect, Dies
<1>4. ASSUME NEW m \in Managers, NEW t \in Txs, Start(m, t) PROVE InTransit'
  <2>1. /\ Send(m, "start", t, NoQuery, engine)
        /\ engine \in Engines /\ t \in Txs \cup {NoTx}
        /\ NoQuery \in Queries \cup {NoQuery} /\ "start" \in Call
    BY <1>4 DEF Start, Blocks
  <2>2. PICK s \in Request :
              /\ transit' = transit \cup {s}
              /\ s.op = "start" /\ s.tx = t
              /\ s.from = m /\ s.waited
              /\ pc' = [pc EXCEPT ![m] = "start"] /\ answer' = answer
    <3> HIDE DEF TypeOK, Call, Request
    <3> QED BY <2>1, Asked
  <2>3. /\ phase[t] = "none" /\ phase' = [phase EXCEPT ![t] = "asked"]
        /\ block' = [block EXCEPT ![m] = t] /\ pc[m] = "idle"
        /\ issued' = issued /\ outer' = outer /\ exc' = exc
    BY <1>4 DEF Start, Blocks
  <2>4. \A u \in Txs : Finished(u) => Finished(u)'
    BY <2>2, <2>3 DEF Finished
  <2>5. ASSUME NEW r \in transit'
        PROVE  /\ r.tx # NoTx => phase'[r.tx] # "none"
               /\ r.op # "query" => r.tx # NoTx
               /\ r.op = "start" => phase'[r.tx] = "asked"
               /\ r.op = "query" /\ r.tx # NoTx => r.query \in issued'[r.tx]
               /\ r.op = "query" /\ r.tx = NoTx =>
                    \E u \in Txs : r.query \in outer'[u]
               /\ r.op = "commit" => Finished(r.tx)'
    <3>1. CASE r \in transit
      <4>1. r \in Request
        BY <3>1
      <4> HIDE DEF Finished
      <4> QED BY <2>3, <2>4, <3>1, <4>1
    <3>2. CASE r = s
      BY <2>2, <2>3, <3>2
    <3> QED BY <2>2, <3>1, <3>2
  <2>6. \A r, u \in transit' :
          r.op = "start" /\ u.op = "start" /\ r.tx = u.tx => r = u
    BY <2>2, <2>3
  <2> QED BY <2>5, <2>6
<1>5. ASSUME NEW m \in Managers, NEW q \in Queries, Query(m, q)
      PROVE InTransit'
  BY <1>5 DEF Query, Send, Fresh
<1>6. ASSUME NEW m \in Managers, NEW q \in Queries, QueryOuter(m, q)
      PROVE InTransit'
  <2>1. /\ Send(m, "query", NoTx, q, engine)
        /\ engine \in Engines /\ NoTx \in Txs \cup {NoTx}
        /\ q \in Queries \cup {NoQuery} /\ "query" \in Call
    BY <1>6 DEF QueryOuter, Blocks
  <2>2. PICK s \in Request :
              /\ transit' = transit \cup {s}
              /\ s.op = "query" /\ s.tx = NoTx /\ s.query = q
              /\ s.from = m /\ s.waited
              /\ pc' = [pc EXCEPT ![m] = "query"] /\ answer' = answer
    <3> HIDE DEF TypeOK, Call, Request
    <3> QED BY <2>1, Sent
  <2>3. /\ block' = block /\ phase' = phase /\ exc' = exc /\ issued' = issued
        /\ block[m] \in Txs /\ pc[m] = "body"
        /\ outer' = [outer EXCEPT ![block[m]] = @ \cup {q}]
    BY <1>6 DEF QueryOuter, Blocks
  <2>4. \A u \in Txs : Finished(u) => Finished(u)'
    BY <2>2, <2>3 DEF Finished
  <2>5. ASSUME NEW r \in transit'
        PROVE  /\ r.tx # NoTx => phase'[r.tx] # "none"
               /\ r.op # "query" => r.tx # NoTx
               /\ r.op = "start" => phase'[r.tx] = "asked"
               /\ r.op = "query" /\ r.tx # NoTx => r.query \in issued'[r.tx]
               /\ r.op = "query" /\ r.tx = NoTx =>
                    \E u \in Txs : r.query \in outer'[u]
               /\ r.op = "commit" => Finished(r.tx)'
    <3>1. CASE r \in transit
      <4>1. r \in Request
        BY <3>1
      <4> HIDE DEF Finished
      <4> QED BY <2>3, <2>4, <3>1, <4>1
    <3>2. CASE r = s
      BY <2>2, <2>3, <3>2
    <3> QED BY <2>2, <3>1, <3>2
  <2>6. \A r, u \in transit' :
          r.op = "start" /\ u.op = "start" /\ r.tx = u.tx => r = u
    BY <2>2, <2>3
  <2> QED BY <2>5, <2>6
<1>7. ASSUME NEW m \in Managers, ExitCommit(m) PROVE InTransit'
  BY <1>7 DEF ExitCommit, Ask, Send, End
<1>8. ASSUME NEW m \in Managers, ExitRollback(m) PROVE InTransit'
  BY <1>8 DEF ExitRollback, Ask, Send, End
<1>9. ASSUME NEW m \in Managers, Started(m) PROVE InTransit'
  BY <1>9 DEF Started, Succeeds
<1>10. ASSUME NEW m \in Managers, StartFails(m) PROVE InTransit'
  <2>1. /\ pc[m] \in Call /\ block' = block /\ phase' = phase /\ exc' = exc
        /\ issued' = issued /\ outer' = outer
        /\ \/ pc[m] \notin {"commit"}
           \/ pc' = [pc EXCEPT ![m] = "idle"]
        /\ \E l \in Label : pc' = [pc EXCEPT ![m] = l]
    BY <1>10 DEF StartFails, End
  <2>2. \A t \in Txs : Finished(t) => Finished(t)'
    BY <2>1 DEF Finished
  <2>4. Raises(m)
    BY <1>10 DEF StartFails
  <2>5. \A s \in transit' : \E r \in transit :
          s.op = r.op /\ s.tx = r.tx /\ s.query = r.query
    BY <2>1, <2>4, Abandoned
  <2>6. \A s, u \in transit' : \E r, v \in transit :
          /\ s.op = r.op /\ s.tx = r.tx /\ u.op = v.op /\ u.tx = v.tx
          /\ r = v => s = u
    BY <2>1, <2>4, Abandoned
  <2>7. \A r, u \in transit' :
          r.op = "start" /\ u.op = "start" /\ r.tx = u.tx => r = u
    BY <2>6
  <2> HIDE DEF Finished
  <2> QED BY <2>1, <2>2, <2>5, <2>7
<1>11. ASSUME NEW m \in Managers, QueryDone(m) PROVE InTransit'
  BY <1>11 DEF QueryDone, Succeeds
<1>12. ASSUME NEW m \in Managers, QueryFails(m) PROVE InTransit'
  <2>1. /\ pc[m] \in Call /\ block' = block /\ phase' = phase /\ exc' = exc
        /\ issued' = issued /\ outer' = outer
        /\ \/ pc[m] \notin {"commit"}
           \/ pc' = [pc EXCEPT ![m] = "idle"]
        /\ \E l \in Label : pc' = [pc EXCEPT ![m] = l]
    BY <1>12 DEF QueryFails
  <2>2. \A t \in Txs : Finished(t) => Finished(t)'
    BY <2>1 DEF Finished
  <2>4. Raises(m)
    BY <1>12 DEF QueryFails
  <2>5. \A s \in transit' : \E r \in transit :
          s.op = r.op /\ s.tx = r.tx /\ s.query = r.query
    BY <2>1, <2>4, Abandoned
  <2>6. \A s, u \in transit' : \E r, v \in transit :
          /\ s.op = r.op /\ s.tx = r.tx /\ u.op = v.op /\ u.tx = v.tx
          /\ r = v => s = u
    BY <2>1, <2>4, Abandoned
  <2>7. \A r, u \in transit' :
          r.op = "start" /\ u.op = "start" /\ r.tx = u.tx => r = u
    BY <2>6
  <2> HIDE DEF Finished
  <2> QED BY <2>1, <2>2, <2>5, <2>7
<1>13. ASSUME NEW m \in Managers, Committed(m) PROVE InTransit'
  BY <1>13 DEF Committed, Succeeds, End
<1>14. ASSUME NEW m \in Managers, CommitFails(m) PROVE InTransit'
  <2>1. /\ pc[m] \in Call /\ block' = block /\ phase' = phase /\ exc' = exc
        /\ issued' = issued /\ outer' = outer
        /\ \/ pc[m] \notin {"commit"}
           \/ pc' = [pc EXCEPT ![m] = "idle"]
        /\ \E l \in Label : pc' = [pc EXCEPT ![m] = l]
    BY <1>14 DEF CommitFails, End
  <2>2. \A t \in Txs : Finished(t) => Finished(t)'
    BY <2>1 DEF Finished
  <2>4. Raises(m)
    BY <1>14 DEF CommitFails
  <2>5. \A s \in transit' : \E r \in transit :
          s.op = r.op /\ s.tx = r.tx /\ s.query = r.query
    BY <2>1, <2>4, Abandoned
  <2>6. \A s, u \in transit' : \E r, v \in transit :
          /\ s.op = r.op /\ s.tx = r.tx /\ u.op = v.op /\ u.tx = v.tx
          /\ r = v => s = u
    BY <2>1, <2>4, Abandoned
  <2>7. \A r, u \in transit' :
          r.op = "start" /\ u.op = "start" /\ r.tx = u.tx => r = u
    BY <2>6
  <2> HIDE DEF Finished
  <2> QED BY <2>1, <2>2, <2>5, <2>7
<1>15. ASSUME NEW m \in Managers, RolledBack(m) PROVE InTransit'
  <2>1. /\ pc[m] \in Call /\ block' = block /\ phase' = phase /\ exc' = exc
        /\ issued' = issued /\ outer' = outer
        /\ \/ pc[m] \notin {"commit"}
           \/ pc' = [pc EXCEPT ![m] = "idle"]
        /\ \E l \in Label : pc' = [pc EXCEPT ![m] = l]
    BY <1>15 DEF RolledBack, End
  <2>2. \A t \in Txs : Finished(t) => Finished(t)'
    BY <2>1 DEF Finished
  <2>3. CASE Succeeds(m)
    <3>1. transit' = transit
      BY <2>3 DEF Succeeds
    <3> HIDE DEF Finished
    <3> QED BY <2>1, <2>2, <3>1
  <2>4. CASE Raises(m)
    <3>5. \A s \in transit' : \E r \in transit :
            s.op = r.op /\ s.tx = r.tx /\ s.query = r.query
      BY <2>1, <2>4, Abandoned
    <3>6. \A s, u \in transit' : \E r, v \in transit :
            /\ s.op = r.op /\ s.tx = r.tx /\ u.op = v.op /\ u.tx = v.tx
            /\ r = v => s = u
      BY <2>1, <2>4, Abandoned
    <3>7. \A r, u \in transit' :
            r.op = "start" /\ u.op = "start" /\ r.tx = u.tx => r = u
      BY <3>6
    <3> HIDE DEF Finished
    <3> QED BY <2>1, <2>2, <3>5, <3>7
  <2> QED BY <1>15, <2>3, <2>4 DEF RolledBack
<1>16. ASSUME NEW r \in transit, ServeStart(r) PROVE InTransit'
  BY <1>16 DEF ServeStart, Reply, Up
<1>17. ASSUME NEW r \in transit, ServeStaged(r) PROVE InTransit'
  BY <1>17 DEF ServeStaged, Reply, Up, Open
<1>18. ASSUME NEW r \in transit, ServeDirect(r) PROVE InTransit'
  BY <1>18 DEF ServeDirect, Reply, Up
<1>19. ASSUME NEW r \in transit, ServeCommit(r) PROVE InTransit'
  BY <1>19 DEF ServeCommit, Reply, Up, Open
<1>20. ASSUME NEW r \in transit, ServeRollback(r) PROVE InTransit'
  BY <1>20 DEF ServeRollback, Reply, Up, Open
<1>21. ASSUME NEW r \in transit, Refuse(r) PROVE InTransit'
  BY <1>21 DEF Refuse, Reply
<1>22. ASSUME NEW t \in Txs, Expire(t) PROVE InTransit'
  BY <1>22 DEF Expire
<1>23. CASE UNCHANGED vars
  BY <1>23 DEF vars
<1> QED BY <1>1, <1>2, <1>3, <1>4, <1>5, <1>6, <1>7, <1>8, <1>9, <1>10,
           <1>11, <1>12, <1>13, <1>14, <1>15, <1>16, <1>17, <1>18, <1>19,
           <1>20, <1>21, <1>22, <1>23
        DEF Next, Manager, Returns, Serve

\* Only a query in transit is staged.
LEMMA ApartStep ==
  ASSUME TypeOK, Blocks, InTransit, Apart, [Next]_vars
  PROVE  Apart'
<1> USE TransactionsAssumption DEF TypeOK, Phase, Call, Label, Request,
       clientVars, serverVars, blockVars, netVars, At, Goto, Blocks,
       InTransit, Apart
<1>1. ASSUME NEW e \in Engines, Connect(e) PROVE Apart'
  BY <1>1 DEF Connect
<1>2. ASSUME NEW e \in Engines, Crash(e) PROVE Apart'
  BY <1>2 DEF Crash, Dies
<1>3. CASE Disconnect
  BY <1>3 DEF Disconnect, Dies
<1>4. ASSUME NEW m \in Managers, NEW t \in Txs, Start(m, t) PROVE Apart'
  BY <1>4 DEF Start, Send
<1>5. ASSUME NEW m \in Managers, NEW q \in Queries, Query(m, q) PROVE Apart'
  BY <1>5 DEF Query, Send, Fresh
<1>6. ASSUME NEW m \in Managers, NEW q \in Queries, QueryOuter(m, q)
      PROVE Apart'
  BY <1>6 DEF QueryOuter, Send, Fresh
<1>7. ASSUME NEW m \in Managers, ExitCommit(m) PROVE Apart'
  BY <1>7 DEF ExitCommit, Ask, Send, End
<1>8. ASSUME NEW m \in Managers, ExitRollback(m) PROVE Apart'
  BY <1>8 DEF ExitRollback, Ask, Send, End
<1>9. ASSUME NEW m \in Managers, Started(m) PROVE Apart'
  BY <1>9 DEF Started, Succeeds
<1>10. ASSUME NEW m \in Managers, StartFails(m) PROVE Apart'
  BY <1>10 DEF StartFails, Raises, Fails, GivesUp
<1>11. ASSUME NEW m \in Managers, QueryDone(m) PROVE Apart'
  BY <1>11 DEF QueryDone, Succeeds
<1>12. ASSUME NEW m \in Managers, QueryFails(m) PROVE Apart'
  BY <1>12 DEF QueryFails, Raises, Fails, GivesUp
<1>13. ASSUME NEW m \in Managers, Committed(m) PROVE Apart'
  BY <1>13 DEF Committed, Succeeds, End
<1>14. ASSUME NEW m \in Managers, CommitFails(m) PROVE Apart'
  BY <1>14 DEF CommitFails, Raises, Fails, GivesUp, End
<1>15. ASSUME NEW m \in Managers, RolledBack(m) PROVE Apart'
  BY <1>15 DEF RolledBack, Succeeds, Raises, Fails, GivesUp, End
<1>16. ASSUME NEW r \in transit, ServeStart(r) PROVE Apart'
  BY <1>16 DEF ServeStart, Reply, Up
<1>17. ASSUME NEW r \in transit, ServeStaged(r) PROVE Apart'
  BY <1>17 DEF ServeStaged, Reply, Up, Open
<1>18. ASSUME NEW r \in transit, ServeDirect(r) PROVE Apart'
  BY <1>18 DEF ServeDirect, Reply, Up
<1>19. ASSUME NEW r \in transit, ServeCommit(r) PROVE Apart'
  BY <1>19 DEF ServeCommit, Reply, Up, Open
<1>20. ASSUME NEW r \in transit, ServeRollback(r) PROVE Apart'
  BY <1>20 DEF ServeRollback, Reply, Up, Open
<1>21. ASSUME NEW r \in transit, Refuse(r) PROVE Apart'
  BY <1>21 DEF Refuse, Reply
<1>22. ASSUME NEW t \in Txs, Expire(t) PROVE Apart'
  BY <1>22 DEF Expire
<1>23. CASE UNCHANGED vars
  BY <1>23 DEF vars
<1> QED BY <1>1, <1>2, <1>3, <1>4, <1>5, <1>6, <1>7, <1>8, <1>9, <1>10,
           <1>11, <1>12, <1>13, <1>14, <1>15, <1>16, <1>17, <1>18, <1>19,
           <1>20, <1>21, <1>22, <1>23
        DEF Next, Manager, Returns, Serve

\* Only a commit adds what is staged, and only once the body has ended.
LEMMA LedgerStep ==
  ASSUME TypeOK, Blocks, InTransit, Apart, Ledger, [Next]_vars
  PROVE  Ledger'
<1> USE TransactionsAssumption DEF TypeOK, Phase, Call, Label, Request,
       clientVars, serverVars, blockVars, netVars, At, Goto, Blocks,
       InTransit, Apart, Ledger, Finished
<1>1. ASSUME NEW e \in Engines, Connect(e) PROVE Ledger'
  BY <1>1 DEF Connect
<1>2. ASSUME NEW e \in Engines, Crash(e) PROVE Ledger'
  BY <1>2 DEF Crash, Dies
<1>3. CASE Disconnect
  BY <1>3 DEF Disconnect, Dies
<1>4. ASSUME NEW m \in Managers, NEW t \in Txs, Start(m, t) PROVE Ledger'
  BY <1>4 DEF Start, Send
<1>5. ASSUME NEW m \in Managers, NEW q \in Queries, Query(m, q) PROVE Ledger'
  BY <1>5 DEF Query, Send, Fresh
<1>6. ASSUME NEW m \in Managers, NEW q \in Queries, QueryOuter(m, q)
      PROVE Ledger'
  BY <1>6 DEF QueryOuter, Send, Fresh
<1>7. ASSUME NEW m \in Managers, ExitCommit(m) PROVE Ledger'
  BY <1>7 DEF ExitCommit, Ask, Send, End
<1>8. ASSUME NEW m \in Managers, ExitRollback(m) PROVE Ledger'
  BY <1>8 DEF ExitRollback, Ask, Send, End
<1>9. ASSUME NEW m \in Managers, Started(m) PROVE Ledger'
  BY <1>9 DEF Started, Succeeds
<1>10. ASSUME NEW m \in Managers, StartFails(m) PROVE Ledger'
  BY <1>10 DEF StartFails, Raises, Fails, GivesUp
<1>11. ASSUME NEW m \in Managers, QueryDone(m) PROVE Ledger'
  BY <1>11 DEF QueryDone, Succeeds
<1>12. ASSUME NEW m \in Managers, QueryFails(m) PROVE Ledger'
  BY <1>12 DEF QueryFails, Raises, Fails, GivesUp
<1>13. ASSUME NEW m \in Managers, Committed(m) PROVE Ledger'
  BY <1>13 DEF Committed, Succeeds, End
<1>14. ASSUME NEW m \in Managers, CommitFails(m) PROVE Ledger'
  BY <1>14 DEF CommitFails, Raises, Fails, GivesUp, End
<1>15. ASSUME NEW m \in Managers, RolledBack(m) PROVE Ledger'
  BY <1>15 DEF RolledBack, Succeeds, Raises, Fails, GivesUp, End
<1>16. ASSUME NEW r \in transit, ServeStart(r) PROVE Ledger'
  BY <1>16 DEF ServeStart, Reply, Up
<1>17. ASSUME NEW r \in transit, ServeStaged(r) PROVE Ledger'
  BY <1>17 DEF ServeStaged, Reply, Up, Open
<1>18. ASSUME NEW r \in transit, ServeDirect(r) PROVE Ledger'
  BY <1>18 DEF ServeDirect, Reply, Up
<1>19. ASSUME NEW r \in transit, ServeCommit(r) PROVE Ledger'
  BY <1>19 DEF ServeCommit, Reply, Up, Open
<1>20. ASSUME NEW r \in transit, ServeRollback(r) PROVE Ledger'
  BY <1>20 DEF ServeRollback, Reply, Up, Open
<1>21. ASSUME NEW r \in transit, Refuse(r) PROVE Ledger'
  BY <1>21 DEF Refuse, Reply
<1>22. ASSUME NEW t \in Txs, Expire(t) PROVE Ledger'
  BY <1>22 DEF Expire
<1>23. CASE UNCHANGED vars
  BY <1>23 DEF vars
<1> QED BY <1>1, <1>2, <1>3, <1>4, <1>5, <1>6, <1>7, <1>8, <1>9, <1>10,
           <1>11, <1>12, <1>13, <1>14, <1>15, <1>16, <1>17, <1>18, <1>19,
           <1>20, <1>21, <1>22, <1>23
        DEF Next, Manager, Returns, Serve

\* An answer tells what was done.
LEMMA ObservedStep ==
  ASSUME TypeOK, Blocks, Waiting, InTransit, Apart, Ledger, Observed,
         [Next]_vars
  PROVE  Observed'
<1> USE TransactionsAssumption DEF TypeOK, Phase, Call, Label, Request,
       clientVars, serverVars, blockVars, netVars, At, Goto, Blocks, Waiting,
       InTransit, Apart, Ledger, Observed
<1>1. ASSUME NEW e \in Engines, Connect(e) PROVE Observed'
  BY <1>1 DEF Connect
<1>2. ASSUME NEW e \in Engines, Crash(e) PROVE Observed'
  BY <1>2 DEF Crash, Dies
<1>3. CASE Disconnect
  BY <1>3 DEF Disconnect, Dies
<1>4. ASSUME NEW m \in Managers, NEW t \in Txs, Start(m, t) PROVE Observed'
  BY <1>4 DEF Start, Send
<1>5. ASSUME NEW m \in Managers, NEW q \in Queries, Query(m, q) PROVE Observed'
  <2>1. /\ block[m] \in Txs /\ pc[m] = "body" /\ answer[m] = "none"
        /\ issued' = [issued EXCEPT ![block[m]] = @ \cup {q}] /\ outer' = outer
        /\ writing' = [writing EXCEPT ![m] = q]
        /\ pc' = [pc EXCEPT ![m] = "query"] /\ answer' = answer
        /\ UNCHANGED <<block, seen, staged, db, phase, result>>
        /\ \A u \in Txs : q \notin issued[u] \cup outer[u]
    <3>1. At(m, "body") /\ Fresh(q)
      BY <1>5 DEF Query
    <3>2. block[m] \in Txs /\ answer[m] = "none"
      BY <3>1
    <3> QED BY <1>5, <3>1, <3>2 DEF Query, Send, Fresh
  <2>2. ASSUME NEW u \in Txs
        PROVE  /\ seen'[u] \subseteq issued'[u] \cup outer'[u]
               /\ seen'[u] \cap issued'[u] \subseteq staged'[u]
               /\ seen'[u] \cap outer'[u] \subseteq db'
               /\ result'[u] = "returned" => phase'[u] = "committed"
    BY <2>1
  <2>3. ASSUME NEW n \in Managers
        PROVE  /\ At(n, "query")' =>
                    /\ writing'[n] \in issued'[block'[n]] \cup outer'[block'[n]]
                    /\ answer'[n] = "ok" =>
                         writing'[n] \in staged'[block'[n]]
                                         \cup (outer'[block'[n]] \cap db')
               /\ At(n, "commit")' /\ answer'[n] = "ok" =>
                    phase'[block'[n]] = "committed"
    <3>1. CASE n = m
      BY <2>1, <3>1
    <3>2. CASE n # m
      <4>1. /\ pc'[n] = pc[n] /\ writing'[n] = writing[n]
            /\ answer'[n] = answer[n] /\ block'[n] = block[n]
        BY <2>1, <3>2
      <4>2. At(n, "query") => block[n] \in Txs
        OBVIOUS
      <4> QED BY <2>1, <3>2, <4>1, <4>2
    <3> QED BY <3>1, <3>2
  <2> QED BY <2>2, <2>3
<1>6. ASSUME NEW m \in Managers, NEW q \in Queries, QueryOuter(m, q)
      PROVE Observed'
  <2>1. /\ block[m] \in Txs /\ pc[m] = "body" /\ answer[m] = "none"
        /\ outer' = [outer EXCEPT ![block[m]] = @ \cup {q}] /\ issued' = issued
        /\ writing' = [writing EXCEPT ![m] = q]
        /\ pc' = [pc EXCEPT ![m] = "query"] /\ answer' = answer
        /\ UNCHANGED <<block, seen, staged, db, phase, result>>
        /\ \A u \in Txs : q \notin issued[u] \cup outer[u]
    <3>1. At(m, "body") /\ Fresh(q)
      BY <1>6 DEF QueryOuter
    <3>2. block[m] \in Txs /\ answer[m] = "none"
      BY <3>1
    <3> QED BY <1>6, <3>1, <3>2 DEF QueryOuter, Send, Fresh
  <2>2. ASSUME NEW u \in Txs
        PROVE  /\ seen'[u] \subseteq issued'[u] \cup outer'[u]
               /\ seen'[u] \cap issued'[u] \subseteq staged'[u]
               /\ seen'[u] \cap outer'[u] \subseteq db'
               /\ result'[u] = "returned" => phase'[u] = "committed"
    BY <2>1
  <2>3. ASSUME NEW n \in Managers
        PROVE  /\ At(n, "query")' =>
                    /\ writing'[n] \in issued'[block'[n]] \cup outer'[block'[n]]
                    /\ answer'[n] = "ok" =>
                         writing'[n] \in staged'[block'[n]]
                                         \cup (outer'[block'[n]] \cap db')
               /\ At(n, "commit")' /\ answer'[n] = "ok" =>
                    phase'[block'[n]] = "committed"
    <3>1. CASE n = m
      BY <2>1, <3>1
    <3>2. CASE n # m
      <4>1. /\ pc'[n] = pc[n] /\ writing'[n] = writing[n]
            /\ answer'[n] = answer[n] /\ block'[n] = block[n]
        BY <2>1, <3>2
      <4>2. At(n, "query") => block[n] \in Txs
        OBVIOUS
      <4> QED BY <2>1, <3>2, <4>1, <4>2
    <3> QED BY <3>1, <3>2
  <2> QED BY <2>2, <2>3
<1>7. ASSUME NEW m \in Managers, ExitCommit(m) PROVE Observed'
  BY <1>7 DEF ExitCommit, Ask, Send, End
<1>8. ASSUME NEW m \in Managers, ExitRollback(m) PROVE Observed'
  BY <1>8 DEF ExitRollback, Ask, Send, End
<1>9. ASSUME NEW m \in Managers, Started(m) PROVE Observed'
  BY <1>9 DEF Started, Succeeds
<1>10. ASSUME NEW m \in Managers, StartFails(m) PROVE Observed'
  BY <1>10 DEF StartFails, Raises, Fails, GivesUp
<1>11. ASSUME NEW m \in Managers, QueryDone(m) PROVE Observed'
  BY <1>11 DEF QueryDone, Succeeds
<1>12. ASSUME NEW m \in Managers, QueryFails(m) PROVE Observed'
  BY <1>12 DEF QueryFails, Raises, Fails, GivesUp
<1>13. ASSUME NEW m \in Managers, Committed(m) PROVE Observed'
  BY <1>13 DEF Committed, Succeeds, End
<1>14. ASSUME NEW m \in Managers, CommitFails(m) PROVE Observed'
  BY <1>14 DEF CommitFails, Raises, Fails, GivesUp, End
<1>15. ASSUME NEW m \in Managers, RolledBack(m) PROVE Observed'
  BY <1>15 DEF RolledBack, Succeeds, Raises, Fails, GivesUp, End
<1>16. ASSUME NEW r \in transit, ServeStart(r) PROVE Observed'
  BY <1>16 DEF ServeStart, Reply, Up
<1>17. ASSUME NEW r \in transit, ServeStaged(r) PROVE Observed'
  BY <1>17 DEF ServeStaged, Reply, Up, Open
<1>18. ASSUME NEW r \in transit, ServeDirect(r) PROVE Observed'
  BY <1>18 DEF ServeDirect, Reply, Up
<1>19. ASSUME NEW r \in transit, ServeCommit(r) PROVE Observed'
  BY <1>19 DEF ServeCommit, Reply, Up, Open
<1>20. ASSUME NEW r \in transit, ServeRollback(r) PROVE Observed'
  BY <1>20 DEF ServeRollback, Reply, Up, Open
<1>21. ASSUME NEW r \in transit, Refuse(r) PROVE Observed'
  BY <1>21 DEF Refuse, Reply
<1>22. ASSUME NEW t \in Txs, Expire(t) PROVE Observed'
  BY <1>22 DEF Expire
<1>23. CASE UNCHANGED vars
  BY <1>23 DEF vars
<1> QED BY <1>1, <1>2, <1>3, <1>4, <1>5, <1>6, <1>7, <1>8, <1>9, <1>10,
           <1>11, <1>12, <1>13, <1>14, <1>15, <1>16, <1>17, <1>18, <1>19,
           <1>20, <1>21, <1>22, <1>23
        DEF Next, Manager, Returns, Serve

-----------------------------------------------------------------------------
(* The theorems.                                                           *)

\* IInv is inductive.
LEMMA InvariantCorrect == Spec => []IInv
<1>1. IInv /\ [Next]_vars => IInv'
  BY TypeStep, BlocksStep, WaitingStep, InTransitStep, ApartStep, LedgerStep,
     ObservedStep
     DEF IInv
<1> QED BY <1>1, InitInvariant, PTL DEF Spec

\* Type correctness of blocks, requests and engines.
THEOREM TypeCorrect == Spec => []TypeOK
<1>1. IInv => TypeOK
  BY DEF IInv
<1> QED BY <1>1, InvariantCorrect, PTL

\* A commit may be lost, late or refused, and so may a rollback: what a block
\* wrote never gets committed once its body has raised.
THEOREM FailedBodyCorrect == Spec => []FailedBodyLeavesNothing
<1>1. IInv => FailedBodyLeavesNothing
  BY DEF IInv, Ledger, Finished, FailedBodyLeavesNothing
<1> QED BY <1>1, InvariantCorrect, PTL

\* A block that returns has committed every write its body saw succeed.
THEOREM ReturnedCorrect == Spec => []ReturnedIsDurable
<1>1. ASSUME IInv, NEW t \in Txs, result[t] = "returned"
      PROVE  seen[t] \subseteq db
  <2>1. staged[t] \subseteq db
    BY <1>1 DEF IInv, Observed, Ledger
  <2> QED BY <1>1, <2>1 DEF IInv, Observed
<1>2. IInv => ReturnedIsDurable
  BY <1>1 DEF ReturnedIsDurable
<1> QED BY <1>2, InvariantCorrect, PTL

\* A write of a block is invisible while its body runs.
THEOREM InvisibleCorrect == Spec => []InvisibleInBody
<1>1. ASSUME IInv, NEW t \in Txs, InBody(t), phase[t] = "committed"
      PROVE  FALSE
  <2>1. Finished(t)
    BY <1>1 DEF IInv, Ledger
  <2> QED BY <1>1, <2>1 DEF Finished, InBody
<1>2. ASSUME IInv, NEW t \in Txs, InBody(t)
      PROVE  issued[t] \cap db = {}
  BY <1>1, <1>2 DEF IInv, Ledger
<1>3. IInv => InvisibleInBody
  BY <1>2 DEF InvisibleInBody
<1> QED BY <1>3, InvariantCorrect, PTL

\* A served request adds one outside write or the whole of a finished block.
LEMMA DatabaseStep ==
  ASSUME IInv, [Next]_vars, db' # db
  PROVE  \/ \E t \in Txs : /\ db' = db \cup staged[t]
                           /\ seen[t] \cap issued[t] \subseteq staged[t]
                           /\ ~exc[t] /\ ~InBody(t)
         \/ \E t \in Txs : \E q \in outer[t] : db' = db \cup {q}
<1>1. PICK r \in transit : ServeDirect(r) \/ ServeCommit(r)
  <2> USE DEF Next, Manager, Returns, Serve
  <2> SUFFICES ASSUME ~\E r \in transit : ServeDirect(r) \/ ServeCommit(r)
               PROVE  db' = db
    OBVIOUS
  <2> USE DEF serverVars
  <2>1. ASSUME NEW e \in Engines, Connect(e) \/ Crash(e) PROVE db' = db
    BY <2>1 DEF Connect, Crash
  <2>2. CASE Disconnect
    BY <2>2 DEF Disconnect
  <2>3. ASSUME NEW m \in Managers, Manager(m) PROVE db' = db
    BY <2>3 DEF Start, Query, QueryOuter, ExitCommit, ExitRollback
  <2>4. ASSUME NEW m \in Managers, Returns(m) PROVE db' = db
    BY <2>4 DEF Started, StartFails, QueryDone, QueryFails, Committed,
                CommitFails, RolledBack
  <2>5. ASSUME NEW r \in transit, Serve(r) PROVE db' = db
    BY <2>5 DEF ServeStart, ServeStaged, ServeRollback, Refuse
  <2>6. ASSUME NEW t \in Txs, Expire(t) PROVE db' = db
    BY <2>6 DEF Expire
  <2>7. CASE UNCHANGED vars
    BY <2>7 DEF vars
  <2> QED BY <2>1, <2>2, <2>3, <2>4, <2>5, <2>6, <2>7
<1>2. CASE ServeDirect(r)
  <2>1. PICK t \in Txs : r.query \in outer[t]
    BY <1>2 DEF ServeDirect, IInv, InTransit
  <2> QED BY <1>2, <2>1 DEF ServeDirect
<1>3. CASE ServeCommit(r)
  <2>1. r.tx \in Txs /\ Finished(r.tx) /\ db' = db \cup staged[r.tx]
    BY <1>3 DEF ServeCommit, Open, IInv, TypeOK, Request, InTransit
  <2>2. ~exc[r.tx] /\ ~InBody(r.tx)
    BY <2>1 DEF Finished, InBody
  <2>3. seen[r.tx] \cap issued[r.tx] \subseteq staged[r.tx]
    BY <2>1 DEF IInv, Observed
  <2> QED BY <2>1, <2>2, <2>3
<1> QED BY <1>1, <1>2, <1>3

\* However late a request is served, it never slips one write of a block in.
THEOREM WholeBlocksCorrect == Spec => OnlyWholeBlocks
BY InvariantCorrect, DatabaseStep, PTL DEF Spec, OnlyWholeBlocks

=============================================================================
