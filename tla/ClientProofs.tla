---------------------------- MODULE ClientProofs ----------------------------
(***************************************************************************)
(* Proofs about Client, for every number of tasks and engine objects;      *)
(* about Batch, for every number of tasks, queries and commits; and about  *)
(* Exchange, for every way to build queries and to convert answers.        *)
(***************************************************************************)
EXTENDS Client, Batch, Exchange, SequenceTheorems, WellFoundedInduction, TLAPS

-----------------------------------------------------------------------------
(* The inductive invariant.                                                *)

\* A client the program can use was not collected, a task is only in a call
\* on such a client, and `with` keeps the manager as long as the copy.
Lifetimes ==
  /\ held \cap freed = {}
  /\ \A t \in Tasks : ~At(t, "idle") => Root \in held
  /\ KeepsManager /\ Copy \in held => manager

\* What each task knows of the engine object it works on: while it connects
\* somebody created it; once it disconnects, no client will use it again.
Targets ==
  /\ \A t \in Tasks :
       /\ pc[t] \in {"poll", "ready"} => target[t] \in made
       /\ At(t, "close") => target[t] \in made
                              /\ target[t] # internal_engine[Root]
  /\ \A e \in later : e # internal_engine[Root]
  /\ internal_engine[Root] # NoEngine => internal_engine[Root] \in made
  /\ internal_engine[Copy] # NoEngine => internal_engine[Copy] \in made

\* One thread drives the synchronous client, and leaves no later closing.
OneThread ==
  ~async => /\ \A t, u \in Tasks : ~At(t, "idle") /\ ~At(u, "idle") => t = u
            /\ \A t \in Tasks : ~At(t, "close")
            /\ later = {}

Connecting(t) == pc[t] \in {"poll", "ready"}

\* One task connects an engine object, which is not connected yet; as long as
\* it is the client's, it has a process.
Exclusive ==
  /\ \A t, u \in Tasks :
       Connecting(t) /\ Connecting(u) /\ target[t] = target[u] => t = u
  /\ \A t \in Tasks : Connecting(t) =>
       /\ target[t] \notin connected
       /\ target[t] = internal_engine[Root] => target[t] \in process

\* A session of the asynchronous client is closed for good only once its
\* engine object is detached; an answered poll has opened it.
Sessions ==
  /\ \A e \in Engines : session[e] # "unused" => e \in made
  /\ \A t \in Tasks : At(t, "ready") => session[target[t]] # "unused"
  /\ async => \A e \in Engines :
       session[e] = "closed" => e # internal_engine[Root] \/ Root \in freed
  /\ \A t \in Tasks :
       At(t, "ready") /\ target[t] \in alive => session[target[t]] = "open"

IInv == /\ TypeOK /\ Lifetimes /\ Targets /\ OneThread /\ Exclusive /\ Sessions
        /\ NoStrayProcess /\ StaysUsable

-----------------------------------------------------------------------------
(* The steps.                                                              *)

\* Nothing runs yet.
LEMMA InitInvariant == Init => IInv
BY ClientAssumption
   DEF Init, IInv, TypeOK, Lifetimes, Targets, OneThread, Exclusive, Sessions,
       Connecting, NoStrayProcess, StaysUsable, Clients, Label, Session, At

\* One step per action.
LEMMA TypeStep ==
  ASSUME TypeOK, Targets, [Next]_vars
  PROVE  TypeOK'
<1> USE ClientAssumption
    DEF TypeOK, Clients, Label, Session, engineVars, objectVars, Goto, Idle, At
<1>1. CASE Step /\ UNCHANGED async
  <2>1. ASSUME NEW t \in Tasks, NEW e \in Engines, Connect(t, e) PROVE TypeOK'
    BY <1>1, <2>1 DEF Connect, Use
  <2>2. ASSUME NEW t \in Tasks, NEW e \in Engines, SpawnFails(t, e)
        PROVE TypeOK'
    BY <1>1, <2>2 DEF SpawnFails, Use
  <2>3. ASSUME NEW t \in Tasks, PollFails(t) \/ PollAnswered(t) PROVE TypeOK'
    BY <1>1, <2>3 DEF PollFails, PollAnswered, Opened
  <2>4. ASSUME NEW t \in Tasks, Connected(t) \/ Cancelled(t) PROVE TypeOK'
    BY <1>1, <2>4 DEF Connected, Cancelled
  <2>5. ASSUME NEW t \in Tasks, GivesUp(t) PROVE TypeOK'
    BY <1>1, <2>5 DEF GivesUp, Close, Kill, Closed
  <2>6. ASSUME NEW t \in Tasks, Disconnect(t) PROVE TypeOK'
    BY <1>1, <2>6 DEF Disconnect, Detach, Close, Kill, Closed
  <2>12. ASSUME NEW t \in Tasks, DisconnectAsync(t) PROVE TypeOK'
    <3>1. /\ session' \in [Engines -> Session] /\ pc' \in [Tasks -> Label]
          /\ target' \in [Tasks -> Engines \cup {NoEngine}]
      BY <1>1, <2>12 DEF DisconnectAsync, Detach, Close, Closed
    <3>2. /\ internal_engine' \in [Clients -> Engines \cup {NoEngine}]
          /\ process' \in SUBSET made' /\ alive' \in SUBSET process'
          /\ connected' \in SUBSET made' /\ later' \in SUBSET made'
      BY <1>1, <2>12 DEF DisconnectAsync, Detach, Close, Kill
    <3> QED BY <1>1, <2>12, <3>1, <3>2 DEF DisconnectAsync, Detach
  <2>7. ASSUME NEW t \in Tasks, SessionClosed(t) PROVE TypeOK'
    BY <1>1, <2>7 DEF SessionClosed, Kill, Closed, Targets
  <2>8. ASSUME NEW t \in Tasks, StartTransaction(t) PROVE TypeOK'
    BY <1>1, <2>8 DEF StartTransaction, Opened
  <2>9. ASSUME NEW e \in Engines, LateClose(e) \/ Crash(e) PROVE TypeOK'
    BY <1>1, <2>9 DEF LateClose, Crash, Kill, Closed
  <2>10. ASSUME NEW c \in Clients, Drop(c) \/ Free(c) PROVE TypeOK'
    BY <1>1, <2>10 DEF Drop, Free, Kill, Closed
  <2>11. CASE DropManager \/ Exit
    BY <1>1, <2>11 DEF DropManager, Exit, Kill
  <2> QED BY <1>1, <2>1, <2>2, <2>3, <2>4, <2>5, <2>6, <2>7, <2>8, <2>9, <2>10,
             <2>11, <2>12 DEF Step
<1>2. CASE UNCHANGED vars
  BY <1>2 DEF vars
<1> QED BY <1>1, <1>2 DEF Next

\* Only a client that nobody holds is collected.
LEMMA LifetimesStep ==
  ASSUME TypeOK, Lifetimes, [Next]_vars
  PROVE  Lifetimes'
<1> USE ClientAssumption
    DEF TypeOK, Clients, Label, Session, engineVars, objectVars, Goto, Idle,
        At,
        Lifetimes
<1>1. CASE Step /\ UNCHANGED async
  <2>1. ASSUME NEW t \in Tasks, NEW e \in Engines, Connect(t, e)
        PROVE Lifetimes'
    BY <1>1, <2>1 DEF Connect, EngineOf, Use
  <2>2. ASSUME NEW t \in Tasks, NEW e \in Engines, SpawnFails(t, e)
        PROVE Lifetimes'
    BY <1>1, <2>2 DEF SpawnFails, EngineOf, Use
  <2>3. ASSUME NEW t \in Tasks, PollFails(t) PROVE Lifetimes'
    BY <1>1, <2>3 DEF PollFails, Opened
  <2>4. ASSUME NEW t \in Tasks, PollAnswered(t) PROVE Lifetimes'
    BY <1>1, <2>4 DEF PollAnswered, Opened
  <2>5. ASSUME NEW t \in Tasks, Connected(t) PROVE Lifetimes'
    BY <1>1, <2>5 DEF Connected
  <2>6. ASSUME NEW t \in Tasks, Cancelled(t) PROVE Lifetimes'
    BY <1>1, <2>6 DEF Cancelled
  <2>7. ASSUME NEW t \in Tasks, GivesUp(t) PROVE Lifetimes'
    BY <1>1, <2>7 DEF GivesUp, Close, Kill, Closed
  <2>8. ASSUME NEW t \in Tasks, Disconnect(t) PROVE Lifetimes'
    BY <1>1, <2>8 DEF Disconnect, Detach, Close, Kill, Closed
  <2>9. ASSUME NEW t \in Tasks, DisconnectAsync(t) PROVE Lifetimes'
    BY <1>1, <2>9 DEF DisconnectAsync, Detach, Close, Kill, Closed
  <2>10. ASSUME NEW t \in Tasks, SessionClosed(t) PROVE Lifetimes'
    BY <1>1, <2>10 DEF SessionClosed, Kill, Closed
  <2>11. ASSUME NEW t \in Tasks, StartTransaction(t) PROVE Lifetimes'
    BY <1>1, <2>11 DEF StartTransaction, Opened
  <2>12. ASSUME NEW e \in Engines, LateClose(e) PROVE Lifetimes'
    BY <1>1, <2>12 DEF LateClose, Kill, Closed
  <2>13. ASSUME NEW e \in Engines, Crash(e) PROVE Lifetimes'
    BY <1>1, <2>13 DEF Crash
  <2>14. ASSUME NEW c \in Clients, Drop(c) PROVE Lifetimes'
    BY <1>1, <2>14 DEF Drop
  <2>15. ASSUME NEW c \in Clients, Free(c) PROVE Lifetimes'
    BY <1>1, <2>15 DEF Free, Referenced, Kill, Closed
  <2>16. CASE DropManager
    BY <1>1, <2>16 DEF DropManager
  <2>17. CASE Exit
    BY <1>1, <2>17 DEF Exit, Kill
  <2> QED BY <1>1, <2>1, <2>2, <2>3, <2>4, <2>5, <2>6, <2>7, <2>8, <2>9,
             <2>10, <2>11, <2>12, <2>13, <2>14, <2>15, <2>16, <2>17 DEF Step
<1>2. CASE UNCHANGED vars
  BY <1>2 DEF vars
<1> QED BY <1>1, <1>2 DEF Next

\* Engine objects are not used again once they are detached.
LEMMA TargetsStep ==
  ASSUME TypeOK, Lifetimes, Targets, [Next]_vars
  PROVE  Targets'
<1> USE ClientAssumption
    DEF TypeOK, Clients, Label, Session, engineVars, objectVars, Goto, Idle,
        At,
        Targets
<1>1. CASE Step /\ UNCHANGED async
  <2>1. ASSUME NEW t \in Tasks, NEW e \in Engines, Connect(t, e) PROVE Targets'
    BY <1>1, <2>1 DEF Connect, EngineOf, Use
  <2>2. ASSUME NEW t \in Tasks, NEW e \in Engines, SpawnFails(t, e)
        PROVE Targets'
    BY <1>1, <2>2 DEF SpawnFails, EngineOf, Use
  <2>3. ASSUME NEW t \in Tasks, PollFails(t) PROVE Targets'
    BY <1>1, <2>3 DEF PollFails, Opened
  <2>4. ASSUME NEW t \in Tasks, PollAnswered(t) PROVE Targets'
    BY <1>1, <2>4 DEF PollAnswered, Opened
  <2>5. ASSUME NEW t \in Tasks, Connected(t) PROVE Targets'
    BY <1>1, <2>5 DEF Connected
  <2>6. ASSUME NEW t \in Tasks, Cancelled(t) PROVE Targets'
    BY <1>1, <2>6 DEF Cancelled
  <2>7. ASSUME NEW t \in Tasks, GivesUp(t) PROVE Targets'
    BY <1>1, <2>7 DEF GivesUp, Close, Kill, Closed
  <2>8. ASSUME NEW t \in Tasks, Disconnect(t) PROVE Targets'
    BY <1>1, <2>8 DEF Disconnect, Detach, Close, Kill, Closed
  <2>9. ASSUME NEW t \in Tasks, DisconnectAsync(t) PROVE Targets'
    BY <1>1, <2>9 DEF DisconnectAsync, Detach, Close, Kill, Closed
  <2>10. ASSUME NEW t \in Tasks, SessionClosed(t) PROVE Targets'
    BY <1>1, <2>10 DEF SessionClosed, Kill, Closed
  <2>11. ASSUME NEW t \in Tasks, StartTransaction(t) PROVE Targets'
    BY <1>1, <2>11 DEF StartTransaction, Opened
  <2>12. ASSUME NEW e \in Engines, LateClose(e) PROVE Targets'
    BY <1>1, <2>12 DEF LateClose, Kill, Closed
  <2>13. ASSUME NEW e \in Engines, Crash(e) PROVE Targets'
    BY <1>1, <2>13 DEF Crash
  <2>14. ASSUME NEW c \in Clients, Drop(c) PROVE Targets'
    BY <1>1, <2>14 DEF Drop
  <2>15. ASSUME NEW c \in Clients, Free(c) PROVE Targets'
    BY <1>1, <2>15 DEF Free, Referenced, Kill, Closed
  <2>16. CASE DropManager
    BY <1>1, <2>16 DEF DropManager
  <2>17. CASE Exit
    BY <1>1, <2>17 DEF Exit, Kill
  <2> QED BY <1>1, <2>1, <2>2, <2>3, <2>4, <2>5, <2>6, <2>7, <2>8, <2>9,
             <2>10, <2>11, <2>12, <2>13, <2>14, <2>15, <2>16, <2>17 DEF Step
<1>2. CASE UNCHANGED vars
  BY <1>2 DEF vars
<1> QED BY <1>1, <1>2 DEF Next

\* The synchronous client has one call at a time.
LEMMA OneThreadStep ==
  ASSUME TypeOK, OneThread, [Next]_vars
  PROVE  OneThread'
<1> USE ClientAssumption
    DEF TypeOK, Clients, Label, Session, engineVars, objectVars, Goto, Idle,
        At,
        OneThread
<1>1. CASE Step /\ UNCHANGED async
  <2>1. ASSUME NEW t \in Tasks, NEW e \in Engines, Connect(t, e)
        PROVE OneThread'
    BY <1>1, <2>1 DEF Connect, EngineOf, Use
  <2>2. ASSUME NEW t \in Tasks, NEW e \in Engines, SpawnFails(t, e)
        PROVE OneThread'
    BY <1>1, <2>2 DEF SpawnFails, EngineOf, Use
  <2>3. ASSUME NEW t \in Tasks, PollFails(t) PROVE OneThread'
    BY <1>1, <2>3 DEF PollFails, Opened
  <2>4. ASSUME NEW t \in Tasks, PollAnswered(t) PROVE OneThread'
    BY <1>1, <2>4 DEF PollAnswered, Opened
  <2>5. ASSUME NEW t \in Tasks, Connected(t) PROVE OneThread'
    BY <1>1, <2>5 DEF Connected
  <2>6. ASSUME NEW t \in Tasks, Cancelled(t) PROVE OneThread'
    BY <1>1, <2>6 DEF Cancelled
  <2>7. ASSUME NEW t \in Tasks, GivesUp(t) PROVE OneThread'
    BY <1>1, <2>7 DEF GivesUp, Close, Kill, Closed
  <2>8. ASSUME NEW t \in Tasks, Disconnect(t) PROVE OneThread'
    BY <1>1, <2>8 DEF Disconnect, Detach, Close, Kill, Closed
  <2>9. ASSUME NEW t \in Tasks, DisconnectAsync(t) PROVE OneThread'
    BY <1>1, <2>9 DEF DisconnectAsync, Detach, Close, Kill, Closed
  <2>10. ASSUME NEW t \in Tasks, SessionClosed(t) PROVE OneThread'
    BY <1>1, <2>10 DEF SessionClosed, Kill, Closed
  <2>11. ASSUME NEW t \in Tasks, StartTransaction(t) PROVE OneThread'
    BY <1>1, <2>11 DEF StartTransaction, Opened
  <2>12. ASSUME NEW e \in Engines, LateClose(e) PROVE OneThread'
    BY <1>1, <2>12 DEF LateClose, Kill, Closed
  <2>13. ASSUME NEW e \in Engines, Crash(e) PROVE OneThread'
    BY <1>1, <2>13 DEF Crash
  <2>14. ASSUME NEW c \in Clients, Drop(c) PROVE OneThread'
    BY <1>1, <2>14 DEF Drop
  <2>15. ASSUME NEW c \in Clients, Free(c) PROVE OneThread'
    BY <1>1, <2>15 DEF Free, Referenced, Kill, Closed
  <2>16. CASE DropManager
    BY <1>1, <2>16 DEF DropManager
  <2>17. CASE Exit
    BY <1>1, <2>17 DEF Exit, Kill
  <2> QED BY <1>1, <2>1, <2>2, <2>3, <2>4, <2>5, <2>6, <2>7, <2>8, <2>9,
             <2>10, <2>11, <2>12, <2>13, <2>14, <2>15, <2>16, <2>17 DEF Step
<1>2. CASE UNCHANGED vars
  BY <1>2 DEF vars
<1> QED BY <1>1, <1>2 DEF Next

\* A process starts with the engine object that becomes the client's, and is
\* killed whenever the client lets go of it.
LEMMA StrayStep ==
  ASSUME TypeOK, Lifetimes, NoStrayProcess, [Next]_vars
  PROVE  NoStrayProcess'
<1> USE ClientAssumption
    DEF TypeOK, Clients, Label, Session, engineVars, objectVars, Goto, Idle,
        At,
        Lifetimes, NoStrayProcess
<1>1. CASE Step /\ UNCHANGED async
  <2>1. ASSUME NEW t \in Tasks, NEW e \in Engines, Connect(t, e)
        PROVE NoStrayProcess'
    BY <1>1, <2>1 DEF Connect, EngineOf, Use
  <2>2. ASSUME NEW t \in Tasks, NEW e \in Engines, SpawnFails(t, e)
        PROVE NoStrayProcess'
    BY <1>1, <2>2 DEF SpawnFails, EngineOf, Use
  <2>3. ASSUME NEW t \in Tasks, PollFails(t) PROVE NoStrayProcess'
    BY <1>1, <2>3 DEF PollFails, Opened
  <2>4. ASSUME NEW t \in Tasks, PollAnswered(t) PROVE NoStrayProcess'
    BY <1>1, <2>4 DEF PollAnswered, Opened
  <2>5. ASSUME NEW t \in Tasks, Connected(t) PROVE NoStrayProcess'
    BY <1>1, <2>5 DEF Connected
  <2>6. ASSUME NEW t \in Tasks, Cancelled(t) PROVE NoStrayProcess'
    BY <1>1, <2>6 DEF Cancelled
  <2>7. ASSUME NEW t \in Tasks, GivesUp(t) PROVE NoStrayProcess'
    BY <1>1, <2>7 DEF GivesUp, Close, Kill, Closed
  <2>8. ASSUME NEW t \in Tasks, Disconnect(t) PROVE NoStrayProcess'
    BY <1>1, <2>8 DEF Disconnect, Detach, Close, Kill, Closed
  <2>9. ASSUME NEW t \in Tasks, DisconnectAsync(t) PROVE NoStrayProcess'
    BY <1>1, <2>9 DEF DisconnectAsync, Detach, Close, Kill, Closed
  <2>10. ASSUME NEW t \in Tasks, SessionClosed(t) PROVE NoStrayProcess'
    BY <1>1, <2>10 DEF SessionClosed, Kill, Closed
  <2>11. ASSUME NEW t \in Tasks, StartTransaction(t) PROVE NoStrayProcess'
    BY <1>1, <2>11 DEF StartTransaction, Opened
  <2>12. ASSUME NEW e \in Engines, LateClose(e) PROVE NoStrayProcess'
    BY <1>1, <2>12 DEF LateClose, Kill, Closed
  <2>13. ASSUME NEW e \in Engines, Crash(e) PROVE NoStrayProcess'
    BY <1>1, <2>13 DEF Crash
  <2>14. ASSUME NEW c \in Clients, Drop(c) PROVE NoStrayProcess'
    BY <1>1, <2>14 DEF Drop
  <2>15. ASSUME NEW c \in Clients, Free(c) PROVE NoStrayProcess'
    BY <1>1, <2>15 DEF Free, Referenced, Kill, Closed
  <2>16. CASE DropManager
    BY <1>1, <2>16 DEF DropManager
  <2>17. CASE Exit
    BY <1>1, <2>17 DEF Exit, Kill
  <2> QED BY <1>1, <2>1, <2>2, <2>3, <2>4, <2>5, <2>6, <2>7, <2>8, <2>9,
             <2>10, <2>11, <2>12, <2>13, <2>14, <2>15, <2>16, <2>17 DEF Step
<1>2. CASE UNCHANGED vars
  BY <1>2 DEF vars
<1> QED BY <1>1, <1>2 DEF Next

\* Only a task that gave up, or a disconnect, takes the process away.
LEMMA ExclusiveStep ==
  ASSUME TypeOK, Lifetimes, Targets, Exclusive, StaysUsable, [Next]_vars
  PROVE  Exclusive'
<1> USE ClientAssumption
    DEF TypeOK, Clients, Label, Session, engineVars, objectVars, Goto, Idle,
        At,
        Lifetimes, Targets, Exclusive, Connecting
<1>1. CASE Step /\ UNCHANGED async
  <2>1. ASSUME NEW t \in Tasks, NEW e \in Engines, Connect(t, e)
        PROVE Exclusive'
    <3>1. e \notin connected
      BY <2>1 DEF Connect, EngineOf, StaysUsable
    <3>2. ASSUME NEW u \in Tasks, Connecting(u) PROVE target[u] # e
      BY <2>1, <3>2 DEF Connect, EngineOf
    <3>3. /\ pc' = [pc EXCEPT ![t] = "poll"] /\ target' = [target EXCEPT ![t] = e]
          /\ internal_engine'[Root] = e
          /\ process' = process \cup {e} /\ connected' = connected
      BY <1>1, <2>1 DEF Connect, Use
    <3>4. \A u \in Tasks : u # t => Connecting(u)' = Connecting(u)
      BY <3>3
    <3>5. ASSUME NEW u \in Tasks, Connecting(u)'
          PROVE  /\ target'[u] \notin connected'
                 /\ target'[u] = internal_engine'[Root] => target'[u] \in process'
      BY <3>1, <3>2, <3>3, <3>4, <3>5
    <3>6. ASSUME NEW u \in Tasks, NEW v \in Tasks, Connecting(u)',
    Connecting(v)',
                 target'[u] = target'[v]
          PROVE  u = v
      BY <3>2, <3>3, <3>4, <3>6
    <3> QED BY <3>5, <3>6
  <2>2. ASSUME NEW t \in Tasks, NEW e \in Engines, SpawnFails(t, e)
        PROVE Exclusive'
    BY <1>1, <2>2 DEF SpawnFails, EngineOf, Use
  <2>3. ASSUME NEW t \in Tasks, PollFails(t) PROVE Exclusive'
    BY <1>1, <2>3 DEF PollFails, Opened
  <2>4. ASSUME NEW t \in Tasks, PollAnswered(t) PROVE Exclusive'
    BY <1>1, <2>4 DEF PollAnswered, Opened
  <2>5. ASSUME NEW t \in Tasks, Connected(t) PROVE Exclusive'
    BY <1>1, <2>5 DEF Connected
  <2>6. ASSUME NEW t \in Tasks, Cancelled(t) PROVE Exclusive'
    BY <1>1, <2>6 DEF Cancelled
  <2>7. ASSUME NEW t \in Tasks, GivesUp(t) PROVE Exclusive'
    BY <1>1, <2>7 DEF GivesUp, Close, Kill, Closed
  <2>8. ASSUME NEW t \in Tasks, Disconnect(t) PROVE Exclusive'
    BY <1>1, <2>8 DEF Disconnect, Detach, Close, Kill, Closed
  <2>9. ASSUME NEW t \in Tasks, DisconnectAsync(t) PROVE Exclusive'
    BY <1>1, <2>9 DEF DisconnectAsync, Detach, Close, Kill, Closed
  <2>10. ASSUME NEW t \in Tasks, SessionClosed(t) PROVE Exclusive'
    BY <1>1, <2>10 DEF SessionClosed, Kill, Closed
  <2>11. ASSUME NEW t \in Tasks, StartTransaction(t) PROVE Exclusive'
    BY <1>1, <2>11 DEF StartTransaction, Opened
  <2>12. ASSUME NEW e \in Engines, LateClose(e) PROVE Exclusive'
    BY <1>1, <2>12 DEF LateClose, Kill, Closed
  <2>13. ASSUME NEW e \in Engines, Crash(e) PROVE Exclusive'
    BY <1>1, <2>13 DEF Crash
  <2>14. ASSUME NEW c \in Clients, Drop(c) PROVE Exclusive'
    BY <1>1, <2>14 DEF Drop
  <2>15. ASSUME NEW c \in Clients, Free(c) PROVE Exclusive'
    BY <1>1, <2>15 DEF Free, Referenced, Kill, Closed
  <2>16. CASE DropManager
    BY <1>1, <2>16 DEF DropManager
  <2>17. CASE Exit
    BY <1>1, <2>17 DEF Exit, Kill
  <2> QED BY <1>1, <2>1, <2>2, <2>3, <2>4, <2>5, <2>6, <2>7, <2>8, <2>9,
             <2>10, <2>11, <2>12, <2>13, <2>14, <2>15, <2>16, <2>17 DEF Step
<1>2. CASE UNCHANGED vars
  BY <1>2 DEF vars
<1> QED BY <1>1, <1>2 DEF Next

\* A late closing only meets engine objects without a process.
LEMMA SessionsStep ==
  ASSUME TypeOK, Lifetimes, Targets, OneThread, NoStrayProcess, Sessions,
  [Next]_vars
  PROVE  Sessions'
<1> USE ClientAssumption
    DEF TypeOK, Clients, Label, Session, engineVars, objectVars, Goto, Idle,
        At,
        Lifetimes, Targets, OneThread, NoStrayProcess, Sessions
<1>1. CASE Step /\ UNCHANGED async
  <2>1. ASSUME NEW t \in Tasks, NEW e \in Engines, Connect(t, e)
        PROVE Sessions'
    BY <1>1, <2>1 DEF Connect, EngineOf, Use
  <2>2. ASSUME NEW t \in Tasks, NEW e \in Engines, SpawnFails(t, e)
        PROVE Sessions'
    BY <1>1, <2>2 DEF SpawnFails, EngineOf, Use
  <2>3. ASSUME NEW t \in Tasks, PollFails(t) PROVE Sessions'
    BY <1>1, <2>3 DEF PollFails, Opened
  <2>4. ASSUME NEW t \in Tasks, PollAnswered(t) PROVE Sessions'
    BY <1>1, <2>4 DEF PollAnswered, Opened
  <2>5. ASSUME NEW t \in Tasks, Connected(t) PROVE Sessions'
    BY <1>1, <2>5 DEF Connected
  <2>6. ASSUME NEW t \in Tasks, Cancelled(t) PROVE Sessions'
    BY <1>1, <2>6 DEF Cancelled
  <2>7. ASSUME NEW t \in Tasks, GivesUp(t) PROVE Sessions'
    BY <1>1, <2>7 DEF GivesUp, Close, Kill, Closed
  <2>8. ASSUME NEW t \in Tasks, Disconnect(t) PROVE Sessions'
    BY <1>1, <2>8 DEF Disconnect, Detach, Close, Kill, Closed
  <2>9. ASSUME NEW t \in Tasks, DisconnectAsync(t) PROVE Sessions'
    BY <1>1, <2>9 DEF DisconnectAsync, Detach, Close, Kill, Closed
  <2>10. ASSUME NEW t \in Tasks, SessionClosed(t) PROVE Sessions'
    BY <1>1, <2>10 DEF SessionClosed, Kill, Closed
  <2>11. ASSUME NEW t \in Tasks, StartTransaction(t) PROVE Sessions'
    BY <1>1, <2>11 DEF StartTransaction, Opened
  <2>12. ASSUME NEW e \in Engines, LateClose(e) PROVE Sessions'
    BY <1>1, <2>12 DEF LateClose, Kill, Closed
  <2>13. ASSUME NEW e \in Engines, Crash(e) PROVE Sessions'
    BY <1>1, <2>13 DEF Crash
  <2>14. ASSUME NEW c \in Clients, Drop(c) PROVE Sessions'
    BY <1>1, <2>14 DEF Drop
  <2>15. ASSUME NEW c \in Clients, Free(c) PROVE Sessions'
    BY <1>1, <2>15 DEF Free, Referenced, Kill, Closed
  <2>16. CASE DropManager
    BY <1>1, <2>16 DEF DropManager
  <2>17. CASE Exit
    BY <1>1, <2>17 DEF Exit, Kill
  <2> QED BY <1>1, <2>1, <2>2, <2>3, <2>4, <2>5, <2>6, <2>7, <2>8, <2>9,
             <2>10, <2>11, <2>12, <2>13, <2>14, <2>15, <2>16, <2>17 DEF Step
<1>2. CASE UNCHANGED vars
  BY <1>2 DEF vars
<1> QED BY <1>1, <1>2 DEF Next

\* Whoever closes the session of a connection closes the connection.
LEMMA UsableStep ==
  ASSUME TypeOK, Lifetimes, Targets, OneThread, Exclusive,
         NoStrayProcess, Sessions, StaysUsable, [Next]_vars
  PROVE  StaysUsable'
<1> USE ClientAssumption
    DEF TypeOK, Clients, Label, Session, engineVars, objectVars, Goto, Idle,
        At,
        Lifetimes, Targets, OneThread, Exclusive, Connecting, NoStrayProcess,
        Sessions, StaysUsable
<1>1. CASE Step /\ UNCHANGED async
  <2>1. ASSUME NEW t \in Tasks, NEW e \in Engines, Connect(t, e)
        PROVE StaysUsable'
    BY <1>1, <2>1 DEF Connect, EngineOf, Use
  <2>2. ASSUME NEW t \in Tasks, NEW e \in Engines, SpawnFails(t, e)
        PROVE StaysUsable'
    BY <1>1, <2>2 DEF SpawnFails, EngineOf, Use
  <2>3. ASSUME NEW t \in Tasks, PollFails(t) PROVE StaysUsable'
    BY <1>1, <2>3 DEF PollFails, Opened
  <2>4. ASSUME NEW t \in Tasks, PollAnswered(t) PROVE StaysUsable'
    BY <1>1, <2>4 DEF PollAnswered, Opened
  <2>5. ASSUME NEW t \in Tasks, Connected(t) PROVE StaysUsable'
    BY <1>1, <2>5 DEF Connected
  <2>6. ASSUME NEW t \in Tasks, Cancelled(t) PROVE StaysUsable'
    BY <1>1, <2>6 DEF Cancelled
  <2>7. ASSUME NEW t \in Tasks, GivesUp(t) PROVE StaysUsable'
    BY <1>1, <2>7 DEF GivesUp, Close, Kill, Closed
  <2>8. ASSUME NEW t \in Tasks, Disconnect(t) PROVE StaysUsable'
    BY <1>1, <2>8 DEF Disconnect, Detach, Close, Kill, Closed
  <2>9. ASSUME NEW t \in Tasks, DisconnectAsync(t) PROVE StaysUsable'
    BY <1>1, <2>9 DEF DisconnectAsync, Detach, Close, Kill, Closed
  <2>10. ASSUME NEW t \in Tasks, SessionClosed(t) PROVE StaysUsable'
    BY <1>1, <2>10 DEF SessionClosed, Kill, Closed
  <2>11. ASSUME NEW t \in Tasks, StartTransaction(t) PROVE StaysUsable'
    BY <1>1, <2>11 DEF StartTransaction, Opened
  <2>12. ASSUME NEW e \in Engines, LateClose(e) PROVE StaysUsable'
    BY <1>1, <2>12 DEF LateClose, Kill, Closed
  <2>13. ASSUME NEW e \in Engines, Crash(e) PROVE StaysUsable'
    BY <1>1, <2>13 DEF Crash
  <2>14. ASSUME NEW c \in Clients, Drop(c) PROVE StaysUsable'
    BY <1>1, <2>14 DEF Drop
  <2>15. ASSUME NEW c \in Clients, Free(c) PROVE StaysUsable'
    BY <1>1, <2>15 DEF Free, Referenced, Kill, Closed
  <2>16. CASE DropManager
    BY <1>1, <2>16 DEF DropManager
  <2>17. CASE Exit
    BY <1>1, <2>17 DEF Exit, Kill
  <2> QED BY <1>1, <2>1, <2>2, <2>3, <2>4, <2>5, <2>6, <2>7, <2>8, <2>9,
             <2>10, <2>11, <2>12, <2>13, <2>14, <2>15, <2>16, <2>17 DEF Step
<1>2. CASE UNCHANGED vars
  BY <1>2 DEF vars
<1> QED BY <1>1, <1>2 DEF Next

\* The conjuncts are inductive together.
LEMMA InvariantCorrect == Spec => []IInv
<1>1. IInv /\ [Next]_vars => IInv'
  BY TypeStep, LifetimesStep, TargetsStep, OneThreadStep, ExclusiveStep,
     SessionsStep, StrayStep, UsableStep DEF IInv
<1> QED BY <1>1, InitInvariant, PTL DEF Spec

-----------------------------------------------------------------------------
(* The theorems.                                                           *)

\* Engine objects have processes, sessions and connections only once they
\* were created.
THEOREM TypeCorrect == Spec => []TypeOK
BY InvariantCorrect, PTL DEF IInv

\* No interleaving of connects, disconnects, cancellations and collections
\* leaves a query engine behind that belongs to no client.
THEOREM NoStrayProcessCorrect == Spec => []NoStrayProcess
BY InvariantCorrect, PTL DEF IInv

\* The closing that disconnect() leaves for later hits no newer connection.
THEOREM StaysUsableCorrect == Spec => []StaysUsable
BY InvariantCorrect, PTL DEF IInv

\* Collecting a client stops no engine in use, if the program keeps the
\* transaction manager; TLC refutes it for a program that does not.
THEOREM EngineOutlivesUsersCorrect ==
  ASSUME KeepsManager
  PROVE  Spec => EngineOutlivesUsers
<1> DEFINE A == freed' # freed =>
                  \A c \in held : internal_engine[c] \in alive
                                   => internal_engine[c] \in alive'
<1>1. ASSUME IInv, Next, freed' # freed, NEW c \in held,
             internal_engine[c] \in alive
      PROVE  internal_engine[c] \in alive'
  <2>1. PICK d \in Clients : Free(d)
    BY <1>1 DEF Next, Step, Connect, SpawnFails, PollFails, PollAnswered,
       Connected, GivesUp, Cancelled, Disconnect, Detach, DisconnectAsync,
       SessionClosed, StartTransaction, LateClose, Crash, Drop, DropManager,
       Exit, objectVars
  <2>2. CASE d = Copy
    BY <1>1, <2>1, <2>2 DEF Free, Kill
  <2>3. CASE d = Root
    <3>1. Root \notin held /\ ~manager
      BY <2>1, <2>3 DEF Free, Referenced
    <3>2. c = Copy
      BY <1>1, <3>1 DEF IInv, TypeOK, Clients
    <3> QED BY <1>1, <3>1, <3>2 DEF IInv, Lifetimes
  <2> QED BY <2>2, <2>3 DEF Clients
<1>2. IInv /\ [Next]_vars => [A]_vars
  BY <1>1
<1> QED BY <1>2, InvariantCorrect, PTL DEF Spec, EngineOutlivesUsers

-----------------------------------------------------------------------------
(* Batches. A query is in the list until some commit takes it; the numbers   *)
(* up to Taken are those that commits took, each one of them once.           *)

Answers == {"awaited", "returned", "raised"}
Commits == [queries : Seq(Nat), by : Users, answer : Answers, state : {"sent", "run", "refused"}]

BatchTypeOK ==
  /\ block \in {"none", "open", "leaving", "left", "raised"}
  /\ queue \in Seq(Nat) /\ added \in Nat /\ before \in Nat
  /\ commits \in Seq(Commits)
  /\ applied \in Seq(Nat)

Taken == added - Len(queue)

Queued == Taken \in Nat /\ \A i \in DOMAIN queue : queue[i] = Taken + i

SentOnce ==
  \A c, e \in DOMAIN commits : \A k \in DOMAIN commits[c].queries, l \in DOMAIN commits[e].queries :
    commits[c].queries[k] = commits[e].queries[l] => c = e /\ k = l

Carries(c, q) == \E k \in DOMAIN commits[c].queries : commits[c].queries[k] = q

SentAll ==
  /\ \A c \in DOMAIN commits : \A k \in DOMAIN commits[c].queries : commits[c].queries[k] \in 1 .. Taken
  /\ \A q \in 1 .. Taken : \E c \in DOMAIN commits : Carries(c, q)

\* The engine ran each commit at most once, and no success was made up.
RunOnce ==
  /\ \A i \in DOMAIN applied : applied[i] \in DOMAIN commits /\ commits[applied[i]].state = "run"
  /\ \A i, j \in DOMAIN applied : applied[i] = applied[j] => i = j
  /\ \A c \in DOMAIN commits :
       /\ commits[c].state = "run" => \E i \in DOMAIN applied : applied[i] = c
       /\ commits[c].answer = "returned" => commits[c].state = "run"

\* A task that waits for a commit has made no other one since.
LastIsAwaited ==
  \A c, e \in DOMAIN commits : c < e /\ commits[c].answer = "awaited" => commits[c].by # commits[e].by

\* The commit at the end of the block takes all that was added by then.
OwnerIsDone ==
  /\ block \in {"leaving", "left"} => before <= Taken
  /\ block = "left" => \A c \in DOMAIN commits :
       commits[c].by = Owner /\ commits[c].answer = "awaited"
         => \A k \in DOMAIN commits[c].queries : commits[c].queries[k] > before

BatchInv ==
  /\ BatchTypeOK /\ Queued /\ SentOnce /\ Sorted /\ SentAll /\ RunOnce /\ LastIsAwaited /\ InOrder /\ OwnerIsDone

\* The property follows from the invariant.
LEMMA BatchInvSuffices == BatchInv => BatchAppliesOnce
<1>. SUFFICES ASSUME BatchInv PROVE NothingTwice /\ NothingForgotten
  BY DEF BatchAppliesOnce, BatchInv
<1>1. NothingTwice
  <2>. SUFFICES ASSUME NEW i \in DOMAIN applied, NEW j \in DOMAIN applied,
                       NEW k \in DOMAIN Applied(i), NEW l \in DOMAIN Applied(j),
                       Applied(i)[k] = Applied(j)[l]
                PROVE  i = j /\ k = l
    BY DEF NothingTwice
  <2>1. applied[i] \in DOMAIN commits /\ applied[j] \in DOMAIN commits
    BY DEF BatchInv, RunOnce
  <2>2. applied[i] = applied[j] /\ k = l
    BY <2>1 DEF BatchInv, SentOnce, Applied
  <2>. QED
    BY <2>2 DEF BatchInv, RunOnce
<1>2. NothingForgotten
  <2>. SUFFICES ASSUME block = "left", NEW q \in 1 .. before
                PROVE  \E c \in DOMAIN commits : Accounted(c) /\ Carries(c, q)
    BY DEF NothingForgotten, Carries
  <2>1. q \in 1 .. Taken
    BY DEF BatchInv, BatchTypeOK, OwnerIsDone, Queued
  <2>2. PICK c \in DOMAIN commits : Carries(c, q)
    BY <2>1 DEF BatchInv, SentAll
  <2>3. commits[c].answer \in Answers
    <3>1. commits \in Seq(Commits)
      BY DEF BatchInv, BatchTypeOK
    <3>2. commits[c] \in Commits
      BY <3>1
    <3>. QED
      BY <3>2 DEF Commits
  <2>4. commits[c].answer = "awaited" => commits[c].by # Owner
    BY <2>2 DEF BatchInv, BatchTypeOK, OwnerIsDone, Carries
  <2>5. commits[c].answer = "returned" => \E i \in DOMAIN applied : applied[i] = c
    BY DEF BatchInv, RunOnce
  <2>. QED
    BY <2>2, <2>3, <2>4, <2>5 DEF Accounted, Answers
<1>. QED
  BY <1>1, <1>2

\* What a step keeps for the commits there are and the queries they carry.
LEMMA CommitsAreTyped ==
  ASSUME BatchTypeOK, NEW c \in DOMAIN commits
  PROVE  /\ commits[c] \in Commits /\ Len(commits) \in Nat /\ DOMAIN commits = 1 .. Len(commits)
         /\ commits[c].queries \in Seq(Nat) /\ commits[c].by \in Users
<1>1. commits \in Seq(Commits)
  BY DEF BatchTypeOK
<1>2. commits[c] \in Commits
  BY <1>1
<1>. QED
  BY <1>1, <1>2 DEF Commits

\* commit(), by whoever: the new commit carries what is in the list.
LEMMA SendKeeps ==
  ASSUME BatchInv, NEW u \in Users, SendQueries(u)
  PROVE  /\ (Queued /\ SentOnce /\ Sorted /\ SentAll /\ RunOnce /\ LastIsAwaited /\ InOrder)'
         /\ commits' \in Seq(Commits) /\ queue' = <<>> /\ Taken' = added /\ Taken <= added
         /\ DOMAIN commits' = DOMAIN commits \cup {Len(commits) + 1}
         /\ \A c \in DOMAIN commits : commits'[c] = commits[c]
         /\ commits'[Len(commits) + 1] = Sent(u)
         /\ \A i \in DOMAIN queue : queue[i] > Taken
<1>. DEFINE new == Len(commits) + 1
<1>. USE DEF BatchInv
<1>1. /\ Sent(u) \in Commits /\ Sent(u).queries = queue /\ Sent(u).by = u
      /\ Sent(u).answer = "awaited" /\ Sent(u).state = "sent"
  BY DEF BatchTypeOK, Sent, Commits, Answers
<1>2. /\ commits' \in Seq(Commits) /\ DOMAIN commits' = DOMAIN commits \cup {new}
      /\ \A c \in DOMAIN commits : commits'[c] = commits[c]
      /\ commits'[new] = Sent(u) /\ new \notin DOMAIN commits
      /\ DOMAIN commits = 1 .. Len(commits) /\ Len(commits) \in Nat
  <2>1. commits \in Seq(Commits) /\ commits' = Append(commits, Sent(u))
    BY DEF BatchTypeOK, SendQueries
  <2>. HIDE DEF Commits, Sent, BatchInv
  <2>. QED
    BY <1>1, <2>1
<1>3. queue' = <<>> /\ added' = added /\ applied' = applied /\ Taken' = added
  BY DEF SendQueries, Taken, BatchTypeOK
<1>4. Taken \in Nat /\ Taken <= added /\ DOMAIN queue = 1 .. added - Taken /\ added \in Nat
  BY DEF BatchTypeOK, Taken, Queued
<1>5. \A i \in DOMAIN queue : queue[i] = Taken + i /\ queue[i] \in Taken + 1 .. added
  BY <1>4 DEF Queued
<1>6. Queued'
  BY <1>3, <1>4 DEF Queued
<1>7. SentOnce'
  <2>. SUFFICES ASSUME NEW c \in DOMAIN commits', NEW e \in DOMAIN commits',
                       NEW k \in DOMAIN commits'[c].queries, NEW l \in DOMAIN commits'[e].queries,
                       commits'[c].queries[k] = commits'[e].queries[l]
                PROVE  c = e /\ k = l
    BY DEF SentOnce
  <2>1. CASE c \in DOMAIN commits /\ e \in DOMAIN commits
    BY <1>2, <2>1 DEF SentOnce
  <2>2. CASE c = new /\ e = new
    BY <1>1, <1>2, <1>4, <1>5, <2>2
  <2>3. CASE c \in DOMAIN commits /\ e = new
    <3>1. commits[c].queries[k] \in 1 .. Taken
      BY <1>2, <2>3 DEF SentAll
    <3>2. commits'[e].queries[l] \in Taken + 1 .. added
      BY <1>1, <1>2, <1>5, <2>3
    <3>. QED
      BY <1>2, <1>4, <2>3, <3>1, <3>2
  <2>4. CASE c = new /\ e \in DOMAIN commits
    <3>1. commits[e].queries[l] \in 1 .. Taken
      BY <1>2, <2>4 DEF SentAll
    <3>2. commits'[c].queries[k] \in Taken + 1 .. added
      BY <1>1, <1>2, <1>5, <2>4
    <3>. QED
      BY <1>2, <1>4, <2>4, <3>1, <3>2
  <2>. QED
    BY <1>2, <2>1, <2>2, <2>3, <2>4
<1>8. SentAll'
  <2>1. ASSUME NEW c \in DOMAIN commits', NEW k \in DOMAIN commits'[c].queries
        PROVE  commits'[c].queries[k] \in 1 .. added
    <3>1. CASE c \in DOMAIN commits
      BY <1>2, <1>4, <2>1, <3>1 DEF SentAll
    <3>2. CASE c = new
      BY <1>1, <1>2, <1>4, <1>5, <2>1, <3>2
    <3>. QED
      BY <1>2, <2>1, <3>1, <3>2
  <2>2. ASSUME NEW q \in 1 .. added
        PROVE  \E c \in DOMAIN commits' : \E k \in DOMAIN commits'[c].queries : commits'[c].queries[k] = q
    <3>1. CASE q \in 1 .. Taken
      <4>1. PICK c \in DOMAIN commits : Carries(c, q)
        BY <3>1 DEF SentAll
      <4>. QED
        BY <1>2, <4>1 DEF Carries
    <3>2. CASE q \notin 1 .. Taken
      <4>1. q - Taken \in DOMAIN queue /\ queue[q - Taken] = q
        BY <1>4, <1>5, <2>2, <3>2
      <4>. QED
        BY <1>1, <1>2, <4>1
    <3>. QED
      BY <3>1, <3>2
  <2>. QED
    BY <1>3, <2>1, <2>2 DEF SentAll, Carries
<1>9. RunOnce'
  BY <1>1, <1>2, <1>3 DEF RunOnce
<1>10. LastIsAwaited'
  <2>. SUFFICES ASSUME NEW c \in DOMAIN commits', NEW e \in DOMAIN commits',
                       c < e, commits'[c].answer = "awaited"
                PROVE  commits'[c].by # commits'[e].by
    BY DEF LastIsAwaited
  <2>1. c \in DOMAIN commits
    BY <1>2
  <2>2. CASE e \in DOMAIN commits
    BY <1>2, <2>1, <2>2 DEF LastIsAwaited
  <2>3. CASE e = new
    <3>1. ~Awaits(u)
      BY DEF SendQueries
    <3>. QED
      BY <1>1, <1>2, <2>1, <2>3, <3>1 DEF Awaits
  <2>. QED
    BY <1>2, <2>2, <2>3
<1>11. InOrder'
  BY <1>1, <1>2, <1>3 DEF InOrder
<1>12. Sorted'
  <2>. SUFFICES ASSUME NEW c \in DOMAIN commits', NEW k \in DOMAIN commits'[c].queries,
                       NEW l \in DOMAIN commits'[c].queries, k < l
                PROVE  commits'[c].queries[k] < commits'[c].queries[l]
    BY DEF Sorted
  <2>1. CASE c \in DOMAIN commits
    BY <1>2, <2>1 DEF Sorted
  <2>2. CASE c = new
    BY <1>1, <1>2, <1>4, <1>5, <2>2
  <2>. QED
    BY <1>2, <2>1, <2>2
<1>. QED
  BY <1>2, <1>3, <1>4, <1>5, <1>6, <1>7, <1>8, <1>9, <1>10, <1>11, <1>12

\* The answers and the engine change one commit, and neither its queries nor who
\* made it.
LEMMA OneCommitChanges ==
  ASSUME BatchInv, NEW c \in DOMAIN commits, NEW answer \in Answers, NEW state \in {"sent", "run", "refused"},
         commits' = [commits EXCEPT ![c] = [queries |-> commits[c].queries, by |-> commits[c].by,
                                            answer |-> answer, state |-> state]],
         UNCHANGED <<queue, added>>,
         answer = "awaited" => commits[c].answer = "awaited"
  PROVE  /\ (Queued /\ SentOnce /\ Sorted /\ SentAll /\ LastIsAwaited)'
         /\ commits' \in Seq(Commits) /\ DOMAIN commits' = DOMAIN commits /\ Taken' = Taken
         /\ \A e \in DOMAIN commits : /\ commits'[e].queries = commits[e].queries
                                      /\ commits'[e].by = commits[e].by
                                      /\ e # c => commits'[e] = commits[e]
         /\ commits'[c].answer = answer /\ commits'[c].state = state
<1>. DEFINE new == [queries |-> commits[c].queries, by |-> commits[c].by, answer |-> answer, state |-> state]
<1>1. BatchTypeOK /\ commits[c] \in Commits /\ commits \in Seq(Commits)
  BY CommitsAreTyped DEF BatchInv, BatchTypeOK
<1>2. new \in Commits
  BY <1>1 DEF Commits
<1>3. new.queries = commits[c].queries /\ new.by = commits[c].by /\ new.answer = answer /\ new.state = state
  OBVIOUS
<1>4. /\ commits' \in Seq(Commits) /\ DOMAIN commits' = DOMAIN commits
      /\ commits'[c] = new /\ \A e \in DOMAIN commits : e # c => commits'[e] = commits[e]
  <2>. HIDE DEF new, Commits
  <2>1. commits' = [commits EXCEPT ![c] = new]
    BY DEF new
  <2>. QED
    BY <1>1, <1>2, <2>1
<1>. HIDE DEF new
<1>5. \A e \in DOMAIN commits : /\ commits'[e].queries = commits[e].queries
                                /\ commits'[e].by = commits[e].by
                                /\ e # c => commits'[e] = commits[e]
                                /\ commits'[e].answer = "awaited" => commits[e].answer = "awaited"
  BY <1>3, <1>4
<1>6. Taken' = Taken
  BY DEF Taken
<1>7. Queued' /\ SentOnce' /\ Sorted' /\ SentAll'
  BY <1>4, <1>5, <1>6 DEF BatchInv, Queued, SentOnce, Sorted, SentAll, Carries
<1>8. LastIsAwaited'
  BY <1>4, <1>5 DEF BatchInv, LastIsAwaited
<1>. QED
  BY <1>3, <1>4, <1>5, <1>6, <1>7, <1>8

\* A query is added behind those that are in the list.
LEMMA AddKeepsInv == ASSUME BatchInv, NEW u \in Users, AddToBatch(u) PROVE BatchInv'
<1>1. queue \in Seq(Nat) /\ added \in Nat /\ queue' = Append(queue, added + 1) /\ added' = added + 1
  BY DEF BatchInv, BatchTypeOK, AddToBatch
<1>2. UNCHANGED <<block, commits, applied, before>>
  BY DEF AddToBatch
<1>3. /\ queue' \in Seq(Nat) /\ Len(queue') = Len(queue) + 1 /\ Taken' = Taken
      /\ DOMAIN queue = 1 .. Len(queue) /\ DOMAIN queue' = 1 .. Len(queue) + 1
      /\ Len(queue) \in Nat /\ Len(queue) + Taken = added
      /\ \A i \in DOMAIN queue : queue'[i] = queue[i]
      /\ queue'[Len(queue) + 1] = added + 1
  BY <1>1 DEF Taken
<1>4. Queued'
  BY <1>1, <1>3 DEF BatchInv, Queued
<1>5. BatchTypeOK'
  BY <1>1, <1>2, <1>3 DEF BatchInv, BatchTypeOK
<1>6. (SentOnce /\ Sorted /\ SentAll /\ RunOnce /\ LastIsAwaited /\ InOrder /\ OwnerIsDone)'
  BY <1>2, <1>3 DEF BatchInv, SentOnce, Sorted, SentAll, Carries, RunOnce, LastIsAwaited, InOrder, OwnerIsDone
<1>. QED
  BY <1>4, <1>5, <1>6 DEF BatchInv

\* A commit in the middle of the block, or after it.
LEMMA CommitKeepsInv == ASSUME BatchInv, NEW u \in Users, Commit(u) PROVE BatchInv'
<1>1. SendQueries(u) /\ UNCHANGED <<block, before, added, applied>>
  BY DEF Commit, SendQueries
<1>2. BatchTypeOK'
  <2>1. BatchTypeOK /\ commits' \in Seq(Commits) /\ queue' = <<>>
    BY <1>1, SendKeeps DEF BatchInv
  <2>. QED
    BY <1>1, <2>1 DEF BatchTypeOK
<1>3. OwnerIsDone'
  <2>1. before' <= Taken' \/ block' \notin {"leaving", "left"}
    BY <1>1, SendKeeps DEF BatchInv, BatchTypeOK, Queued, OwnerIsDone
  <2>2. ASSUME block' = "left", NEW c \in DOMAIN commits', commits'[c].by = Owner,
               commits'[c].answer = "awaited", NEW k \in DOMAIN commits'[c].queries
        PROVE  commits'[c].queries[k] > before'
    <3>1. CASE c \in DOMAIN commits
      BY <1>1, <2>2, <3>1, SendKeeps DEF BatchInv, OwnerIsDone
    <3>2. CASE c = Len(commits) + 1
      <4>1. commits'[c].queries = queue
        <5>1. commits'[c] = Sent(u)
          BY <1>1, <3>2, SendKeeps
        <5>. QED
          BY <5>1 DEF Sent
      <4>2. before \in Nat /\ Taken \in Nat /\ before <= Taken /\ queue[k] > Taken /\ queue[k] \in Nat
        BY <1>1, <2>2, <4>1, SendKeeps DEF BatchInv, BatchTypeOK, Queued, OwnerIsDone
      <4>. QED
        BY <1>1, <4>1, <4>2
    <3>3. DOMAIN commits' = DOMAIN commits \cup {Len(commits) + 1}
      BY <1>1, SendKeeps
    <3>. QED
      BY <2>2, <3>1, <3>2, <3>3
  <2>. QED
    BY <2>1, <2>2 DEF OwnerIsDone
<1>. QED
  BY <1>1, <1>2, <1>3, SendKeeps DEF BatchInv

\* The block ends without an exception: its commit takes all there is.
LEMMA LeaveKeepsInv == ASSUME BatchInv, LeaveBatch PROVE BatchInv'
<1>1. Owner \in Users /\ SendQueries(Owner) /\ block' = "leaving" /\ before' = added /\ UNCHANGED <<added, applied>>
  BY BatchAssumption DEF LeaveBatch, SendQueries
<1>2. BatchTypeOK'
  <2>1. BatchTypeOK /\ commits' \in Seq(Commits) /\ queue' = <<>>
    BY <1>1, SendKeeps DEF BatchInv
  <2>. QED
    BY <1>1, <2>1 DEF BatchTypeOK
<1>3. OwnerIsDone'
  BY <1>1, SendKeeps DEF BatchInv, BatchTypeOK, OwnerIsDone
<1>. QED
  BY <1>1, <1>2, <1>3, SendKeeps DEF BatchInv

\* The engine runs a commit: it is applied now, after every one that returned.
LEMMA RunKeepsInv == ASSUME BatchInv, NEW c \in DOMAIN commits, RunCommit(c) PROVE BatchInv'
<1>1. /\ commits[c] \in Commits /\ commits[c].state = "sent"
      /\ UNCHANGED <<block, queue, added, before>>
      /\ applied \in Seq(Nat) /\ applied' = Append(applied, c) /\ c \in Nat
  BY CommitsAreTyped DEF BatchInv, BatchTypeOK, RunCommit
<1>2. commits' = [commits EXCEPT ![c] = [queries |-> commits[c].queries, by |-> commits[c].by,
                                         answer |-> commits[c].answer, state |-> "run"]]
  <2>1. commits' = [commits EXCEPT ![c].state = "run"]
    BY DEF RunCommit
  <2>2. \A r \in Commits : [r EXCEPT !.state = "run"] =
                              [queries |-> r.queries, by |-> r.by, answer |-> r.answer, state |-> "run"]
    BY ONLY DEF Commits
  <2>. QED
    BY <1>1, <2>1, <2>2
<1>3. /\ (Queued /\ SentOnce /\ Sorted /\ SentAll /\ LastIsAwaited)'
      /\ commits' \in Seq(Commits) /\ DOMAIN commits' = DOMAIN commits /\ Taken' = Taken
      /\ \A e \in DOMAIN commits : /\ commits'[e].queries = commits[e].queries
                                   /\ commits'[e].by = commits[e].by
                                   /\ e # c => commits'[e] = commits[e]
      /\ commits'[c].answer = commits[c].answer /\ commits'[c].state = "run"
  <2>1. commits[c].answer \in Answers
    BY <1>1 DEF Commits
  <2>. QED
    BY <1>1, <1>2, <2>1, OneCommitChanges
<1>4. /\ applied' \in Seq(Nat) /\ DOMAIN applied' = DOMAIN applied \cup {Len(applied) + 1}
      /\ \A i \in DOMAIN applied : applied'[i] = applied[i] /\ i < Len(applied) + 1
      /\ applied'[Len(applied) + 1] = c /\ Len(applied) + 1 \notin DOMAIN applied
  BY <1>1
<1>5. BatchTypeOK'
  BY <1>1, <1>3, <1>4 DEF BatchInv, BatchTypeOK
<1>6. RunOnce'
  <2>1. \A i \in DOMAIN applied : applied[i] # c
    BY <1>1 DEF BatchInv, RunOnce
  <2>2. \A i \in DOMAIN applied' : applied'[i] \in DOMAIN commits' /\ commits'[applied'[i]].state = "run"
    BY <1>3, <1>4, <2>1 DEF BatchInv, RunOnce
  <2>3. \A i, j \in DOMAIN applied' : applied'[i] = applied'[j] => i = j
    BY <1>4, <2>1 DEF BatchInv, RunOnce
  <2>4. ASSUME NEW e \in DOMAIN commits'
        PROVE  /\ commits'[e].state = "run" => \E i \in DOMAIN applied' : applied'[i] = e
               /\ commits'[e].answer = "returned" => commits'[e].state = "run"
    BY <1>3, <1>4, <2>4 DEF BatchInv, RunOnce
  <2>. QED
    BY <2>2, <2>3, <2>4 DEF RunOnce
<1>7. InOrder'
  <2>. SUFFICES ASSUME NEW e \in DOMAIN commits', NEW f \in DOMAIN commits', e < f,
                       commits'[e].by = commits'[f].by,
                       commits'[e].answer = "returned", commits'[f].state = "run"
                PROVE  \E i, j \in DOMAIN applied' : i < j /\ applied'[i] = e /\ applied'[j] = f
    BY DEF InOrder
  <2>1. commits[e].answer = "returned" /\ commits[e].by = commits[f].by
    BY <1>3
  <2>2. CASE f = c
    <3>1. PICK i \in DOMAIN applied : applied[i] = e
      BY <1>3, <2>1 DEF BatchInv, RunOnce
    <3>. QED
      BY <1>4, <2>2, <3>1
  <2>3. CASE f # c
    <3>1. PICK i \in DOMAIN applied, j \in DOMAIN applied : i < j /\ applied[i] = e /\ applied[j] = f
      BY <1>3, <2>1, <2>3 DEF BatchInv, InOrder
    <3>. QED
      BY <1>4, <3>1
  <2>. QED
    BY <2>2, <2>3
<1>8. OwnerIsDone'
  BY <1>1, <1>3 DEF BatchInv, OwnerIsDone
<1>. QED
  BY <1>3, <1>5, <1>6, <1>7, <1>8 DEF BatchInv

\* The engine refuses a commit, or an answer arrives or is given up: nothing is
\* applied, and only what the block waits for can end it.
LEMMA AnswerKeepsInv ==
  ASSUME BatchInv, NEW c \in DOMAIN commits, RefuseCommit(c) \/ Return(c) \/ Fail(c)
  PROVE  BatchInv'
<1>. DEFINE answer == IF RefuseCommit(c) THEN commits[c].answer
                      ELSE IF Return(c) THEN "returned" ELSE "raised"
            state  == IF RefuseCommit(c) THEN "refused" ELSE commits[c].state
<1>1. /\ commits[c] \in Commits /\ UNCHANGED <<queue, added, applied, before>>
      /\ block' \in {block, Ended(c, "left"), Ended(c, "raised")}
  BY CommitsAreTyped DEF BatchInv, RefuseCommit, Return, Fail
<1>2. answer \in Answers /\ state \in {"sent", "run", "refused"}
  BY <1>1 DEF Commits, Answers
<1>3. commits' = [commits EXCEPT ![c] = [queries |-> commits[c].queries, by |-> commits[c].by,
                                         answer |-> answer, state |-> state]]
  <2>1. CASE RefuseCommit(c)
    BY <1>1, <2>1 DEF RefuseCommit, Commits
  <2>2. CASE ~RefuseCommit(c) /\ Return(c)
    BY <1>1, <2>2 DEF Return, Commits
  <2>3. CASE ~RefuseCommit(c) /\ ~Return(c)
    BY <1>1, <2>3 DEF Fail, Commits
  <2>. QED
    BY <2>1, <2>2, <2>3
<1>4. /\ answer = "awaited" => commits[c].answer = "awaited"
      /\ commits[c].state = "run" => state = "run"
      /\ state = "run" => commits[c].state = "run"
      /\ answer = "returned" => commits[c].answer = "returned" \/ Return(c)
      /\ Return(c) => commits[c].answer = "awaited" /\ commits[c].state = "run"
      /\ RefuseCommit(c) => block' = block /\ commits[c].state = "sent"
  BY <1>2 DEF RefuseCommit, Return
<1>. HIDE DEF answer, state
<1>5. /\ (Queued /\ SentOnce /\ Sorted /\ SentAll /\ LastIsAwaited)'
      /\ commits' \in Seq(Commits) /\ DOMAIN commits' = DOMAIN commits /\ Taken' = Taken
      /\ \A e \in DOMAIN commits : /\ commits'[e].queries = commits[e].queries
                                   /\ commits'[e].by = commits[e].by
                                   /\ e # c => commits'[e] = commits[e]
      /\ commits'[c].answer = answer /\ commits'[c].state = state
  BY <1>1, <1>2, <1>3, <1>4, OneCommitChanges
<1>6. BatchTypeOK'
  BY <1>1, <1>5 DEF BatchInv, BatchTypeOK, Ended
<1>7. RunOnce'
  BY <1>1, <1>4, <1>5 DEF BatchInv, RunOnce
<1>8. InOrder'
  <2>. SUFFICES ASSUME NEW e \in DOMAIN commits', NEW f \in DOMAIN commits', e < f,
                       commits'[e].by = commits'[f].by,
                       commits'[e].answer = "returned", commits'[f].state = "run"
                PROVE  \E i, j \in DOMAIN applied' : i < j /\ applied'[i] = e /\ applied'[j] = f
    BY DEF InOrder
  <2>1. commits[f].state = "run" /\ commits[e].by = commits[f].by
    BY <1>4, <1>5
  <2>2. commits[e].answer # "awaited"
    BY <1>5, <2>1 DEF BatchInv, LastIsAwaited
  <2>3. commits[e].answer = "returned"
    BY <1>4, <1>5, <2>2
  <2>. QED
    BY <1>1, <1>5, <2>1, <2>3 DEF BatchInv, InOrder
<1>9. OwnerIsDone'
  <2>1. block' \in {"leaving", "left"} => block = block' \/ block = "leaving"
    BY <1>1 DEF Ended
  <2>2. block' \in {"leaving", "left"} => before' <= Taken'
    BY <1>1, <1>5, <2>1 DEF BatchInv, OwnerIsDone
  <2>3. ASSUME block' = "left", NEW e \in DOMAIN commits', commits'[e].by = Owner,
               commits'[e].answer = "awaited", NEW k \in DOMAIN commits'[e].queries
        PROVE  commits'[e].queries[k] > before'
    <3>1. commits[e].by = Owner /\ commits[e].answer = "awaited"
      BY <1>4, <1>5, <2>3
    <3>2. CASE block = "left"
      BY <1>1, <1>5, <2>3, <3>1, <3>2 DEF BatchInv, OwnerIsDone
    <3>3. CASE block # "left"
      <4>1. ~RefuseCommit(c)
        BY <1>4, <2>3, <3>3
      <4>2. commits[c].by = Owner /\ commits[c].answer = "awaited" /\ answer # "awaited"
        BY <2>3, <3>3, <4>1 DEF Return, Fail, Ended, answer
      <4>3. e # c
        BY <1>5, <2>3, <4>2
      <4>4. c \in Nat /\ e \in Nat
        BY <1>5, <2>3, CommitsAreTyped DEF BatchInv
      <4>. QED
        BY <1>5, <2>3, <3>1, <4>2, <4>3, <4>4 DEF BatchInv, LastIsAwaited
    <3>. QED
      BY <3>2, <3>3
  <2>. QED
    BY <2>2, <2>3 DEF OwnerIsDone
<1>. QED
  BY <1>5, <1>6, <1>7, <1>8, <1>9 DEF BatchInv

\* Whatever the tasks, the engine and the network do, no query of a batch is
\* applied twice, a task's commits are applied in its order as far as it saw
\* them succeed, and a block that ended well left no query behind.
THEOREM BatchCorrect == BatchSpec => []BatchAppliesOnce
<1>1. BatchInit => BatchInv
  BY DEF BatchInit, BatchInv, BatchTypeOK, Taken, Queued, SentOnce, Sorted, SentAll, RunOnce, LastIsAwaited,
         InOrder, OwnerIsDone
<1>2. BatchInv /\ [BatchNext]_batchVars => BatchInv'
  <2>. SUFFICES ASSUME BatchInv, [BatchNext]_batchVars PROVE BatchInv'
    OBVIOUS
  <2>1. CASE UNCHANGED batchVars
    BY <2>1 DEF batchVars, BatchInv, BatchTypeOK, Taken, Queued, SentOnce, Sorted, SentAll, Carries, RunOnce,
                LastIsAwaited, InOrder, OwnerIsDone
  <2>2. CASE EnterBatch \/ RaiseInBatch
    <3>1. block' \in {"open", "raised"} /\ UNCHANGED <<queue, added, commits, applied, before>>
      BY <2>2 DEF EnterBatch, RaiseInBatch
    <3>2. BatchTypeOK' /\ OwnerIsDone'
      BY <3>1 DEF BatchInv, BatchTypeOK, OwnerIsDone
    <3>. QED
      BY <3>1, <3>2 DEF BatchInv, Taken, Queued, SentOnce, Sorted, SentAll, Carries, RunOnce, LastIsAwaited, InOrder
  <2>. QED
    BY <2>1, <2>2, AddKeepsInv, CommitKeepsInv, LeaveKeepsInv, RunKeepsInv, AnswerKeepsInv DEF BatchNext
<1>. QED
  BY <1>1, <1>2, BatchInvSuffices, PTL DEF BatchSpec

-----------------------------------------------------------------------------
(* Exchange: the inductive invariant.                                      *)

\* What the program gets is what the client makes of the reply, and the errors
\* of a reply are a list.
ExchangeInv ==
  /\ client \in Options
  /\ phase = "sent" => call \in Calls /\ Buildable(client, call)
  /\ DOMAIN reply.errors \subseteq Nat
  /\ phase = "done" =>
       \/ reply = NoReply
       \/ outcome = Outcome(call, Response(OnePass(client, call), call.class, reply))

\* A request that was not made has no errors.
LEMMA NothingSaid == NoReply.errors = <<>> /\ NoReply.status = "none" /\ DOMAIN NoReply.errors \subseteq Nat
  BY DEF NoReply

\* Every step keeps the invariant.
LEMMA ExchangeStep ==
  ASSUME ExchangeInv, ExchangeNext
  PROVE  ExchangeInv'
<1>1. ASSUME NEW c \in Callable, RefusedCall(c) \/ RefusedQuery(c)
      PROVE  ExchangeInv'
  <2>1. /\ client' = client /\ phase' = "done" /\ reply' = NoReply
    BY <1>1 DEF RefusedCall, RefusedQuery, Raise
  <2> QED BY <2>1, NothingSaid DEF ExchangeInv
<1>2. ASSUME NEW c \in Callable, Send(c)
      PROVE  ExchangeInv'
  <2>1. /\ client' = client /\ phase' = "sent" /\ call' = c /\ reply' = NoReply
        /\ Buildable(client, c) /\ c \in Calls
    BY <1>2 DEF Send, Callable
  <2>2. Buildable(client, call)'
    BY <2>1 DEF Buildable
  <2> QED BY <2>1, <2>2, NothingSaid DEF ExchangeInv
<1>3. CASE Answer
  <2>1. PICK a \in Replies(client, call), big \in Sizes :
          reply' = [status |-> "ok", big |-> big, data |-> a.data, errors |-> a.errors]
    BY <1>3 DEF Answer
  <2>2. client' = client /\ phase' = "answered" /\ phase = "sent"
    BY <1>3 DEF Answer
  <2>3. DOMAIN a.errors = 1 .. Len(a.errors)
    BY <2>2, ExchangeAssumption DEF ExchangeInv
  <2>4. reply'.errors = a.errors
    BY <2>1
  <2> QED BY <2>2, <2>3, <2>4 DEF ExchangeInv
<1>4. CASE Fault
  <2>1. client' = client /\ phase' = "answered"
    BY <1>4 DEF Fault
  <2>2. ASSUME NEW big, NEW errors \in ErrorLists,
               reply' = [status |-> "ok", big |-> big, data |-> None, errors |-> errors]
        PROVE  DOMAIN reply'.errors \subseteq Nat
    BY <2>2, ExchangeAssumption
  <2>3. ASSUME NEW status, reply' = [NoReply EXCEPT !.status = status]
        PROVE  DOMAIN reply'.errors \subseteq Nat
    BY <2>3, NothingSaid DEF NoReply
  <2> QED BY <1>4, <2>1, <2>2, <2>3 DEF Fault, ExchangeInv
<1>5. CASE Receive
  <2>1. /\ client' = client /\ call' = call /\ reply' = reply /\ phase' = "done"
        /\ outcome' = Outcome(call, Response(OnePass(client, call), call.class, reply))
    BY <1>5 DEF Receive
  <2>2. Outcome(call, Response(OnePass(client, call), call.class, reply))'
          = Outcome(call, Response(OnePass(client, call), call.class, reply))
    BY <2>1 DEF Outcome
  <2> QED BY <2>1, <2>2 DEF ExchangeInv
<1>6. CASE Continue
  <2>1. client' = client /\ phase' = "idle" /\ reply' = NoReply
    BY <1>6 DEF Continue
  <2> QED BY <2>1, NothingSaid DEF ExchangeInv
<1> QED BY <1>1, <1>2, <1>3, <1>4, <1>5, <1>6 DEF ExchangeNext

\* Every state of an exchange satisfies it.
LEMMA ExchangeInvariant == ExchangeSpec => []ExchangeInv
<1>1. ExchangeInit => ExchangeInv
  BY NothingSaid DEF ExchangeInit, ExchangeInv
<1>2. ExchangeInv /\ UNCHANGED exchangeVars => ExchangeInv'
  BY DEF exchangeVars, ExchangeInv, Outcome, Buildable
<1>3. ExchangeInv /\ [ExchangeNext]_exchangeVars => ExchangeInv'
  BY <1>2, ExchangeStep
<1> QED BY <1>1, <1>3, PTL DEF ExchangeSpec

-----------------------------------------------------------------------------
(* Exchange: what follows from it.                                         *)

\* A set of numbers has a least one.
LEMMA LeastOf ==
  ASSUME NEW I \in SUBSET Nat, I # {}
  PROVE  \E i \in I : \A j \in I : i <= j
<1> DEFINE R == OpToRel(<, Nat)
<1>1. \A i, j \in Nat : i < j => <<i, j>> \in R
  BY DEF OpToRel
<1>2. IsWellFoundedOn(R, Nat)
  BY NatLessThanWellFounded
<1> HIDE DEF R
<1>3. PICK i \in I : \A j \in I : <<j, i>> \notin R
  BY <1>2, WFMin
<1>4. \A j \in I : ~(j < i)
  BY <1>1, <1>3
<1> QED BY <1>3, <1>4

\* handle_response_errors raises what an entry names, or DataError.
LEMMA NamedIsRaised ==
  ASSUME NEW errors, DOMAIN errors \subseteq Nat
  PROVE  HandleResponseErrors(errors) \in
           (IF {EntryError(errors[i]) : i \in DOMAIN errors} \ {None} = {} THEN {"DataError"}
            ELSE {EntryError(errors[i]) : i \in DOMAIN errors} \ {None})
<1> DEFINE raising == {i \in DOMAIN errors : EntryError(errors[i]) # None}
<1>1. CASE raising = {}
  BY <1>1 DEF HandleResponseErrors
<1>2. CASE raising # {}
  <2>1. \E i \in raising : \A j \in raising : i <= j
    BY <1>2, LeastOf
  <2>2. (CHOOSE i \in raising : \A j \in raising : i <= j) \in raising
    BY <2>1
  <2>3. HandleResponseErrors(errors)
          = EntryError(errors[CHOOSE i \in raising : \A j \in raising : i <= j])
    BY <1>2 DEF HandleResponseErrors
  <2> QED BY <2>2, <2>3
<1> QED BY <1>1, <1>2

\* request() raises on every error, whatever the size of the body and the way
\* it is decoded.
LEMMA ErrorsAreRaised ==
  ASSUME NEW decoder, NEW class, NEW r, r.status # "ok" \/ r.errors # <<>>
  PROVE  Response(decoder, class, r) =
           [raises |-> IF r.status = "ok" THEN HandleResponseErrors(r.errors)
                       ELSE IF r.status = "unprocessable" THEN "UnprocessableEntityError"
                       ELSE "EngineRequestError"]
  BY DEF Response, DecodeRaw, ProcessResponseData, ProcessResponseError

\* In such a state an error of the engine has become an exception, or None where
\* update() and delete() say so.
LEMMA ErrorsNeverReturn ==
  ASSUME ExchangeInv
  PROVE  ErrorsAreNeverResults
<1> SUFFICES ASSUME phase = "done", reply.status \notin {"ok", "none"} \/ reply.errors # <<>>
             PROVE  IF "raises" \in DOMAIN outcome
                    THEN outcome.raises \in
                           (IF reply.status # "ok"
                            THEN {"UnprocessableEntityError", "EngineRequestError"}
                            ELSE IF Named = {} THEN {"DataError"} ELSE Named)
                    ELSE /\ outcome = [returns |-> None]
                         /\ call.api \in {"update", "delete"}
                         /\ reply.status = "ok" /\ "RecordNotFoundError" \in Named
  BY DEF ErrorsAreNeverResults
<1> DEFINE raised == IF reply.status = "ok" THEN HandleResponseErrors(reply.errors)
                     ELSE IF reply.status = "unprocessable" THEN "UnprocessableEntityError"
                     ELSE "EngineRequestError"
<1>1. outcome = Outcome(call, [raises |-> raised])
  <2>1. reply # NoReply /\ (reply.status # "ok" \/ reply.errors # <<>>)
    BY NothingSaid
  <2> QED BY <2>1, ErrorsAreRaised DEF ExchangeInv
<1>2. raised \in (IF reply.status # "ok" THEN {"UnprocessableEntityError", "EngineRequestError"}
                  ELSE IF Named = {} THEN {"DataError"} ELSE Named)
  BY NamedIsRaised DEF Named, ExchangeInv
<1> HIDE DEF raised
<1>3. DOMAIN [raises |-> raised] = {"raises"} /\ [raises |-> raised].raises = raised
  OBVIOUS
<1>4. CASE call.api \in {"update", "delete"} /\ raised = "RecordNotFoundError"
  <2>1. outcome = [returns |-> None]
    BY <1>1, <1>3, <1>4 DEF Outcome
  <2>2. "raises" \notin DOMAIN outcome
    BY <2>1
  <2>3. reply.status = "ok" /\ "RecordNotFoundError" \in Named
    BY <1>2, <1>4
  <2> QED BY <1>4, <2>1, <2>2, <2>3
<1>5. CASE ~(call.api \in {"update", "delete"} /\ raised = "RecordNotFoundError")
  <2>1. outcome = [raises |-> raised]
    BY <1>1, <1>3, <1>5 DEF Outcome
  <2> QED BY <1>2, <1>3, <2>1
<1> QED BY <1>4, <1>5

\* Whatever methods, builder and decoders make of it, an error of the engine is
\* raised as the exception that it names, and never returned.
THEOREM ErrorsAreNeverResultsCorrect == ExchangeSpec => []ErrorsAreNeverResults
  BY ExchangeInvariant, ErrorsNeverReturn, PTL

=============================================================================
