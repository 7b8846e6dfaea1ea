------------------------------- MODULE Client -------------------------------
(***************************************************************************)
(* The life of a Prisma client (_base_client.py): its connections, the     *)
(* engine object behind each (engine/_query.py), the HTTP session of that  *)
(* object (http_abstract.py), and the copy of the client that a            *)
(* transaction hands out (_transactions.py).                               *)
(*                                                                         *)
(* Tasks of one event loop call the asynchronous client and interleave at  *)
(* each await; the synchronous client is driven by one thread.  Engines    *)
(* are not shared here: SharedEngine models the registry.                  *)
(***************************************************************************)
EXTENDS FiniteSets

CONSTANTS
  Tasks,         \* what calls the client concurrently
  Engines,       \* engine objects, one for each time a client needs one
  Root, Copy,    \* the client, and the copy that tx().start() returns
  Interfaces,    \* the clients generated: asynchronous (TRUE), synchronous
  KeepsManager,  \* whether the program keeps the transaction manager while
                 \* it uses the copy (`with` does)
  NoEngine       \* Python's None

Clients == {Root, Copy}

ASSUME ClientAssumption ==
  /\ Root # Copy
  /\ Interfaces \subseteq BOOLEAN /\ KeepsManager \in BOOLEAN
  /\ NoEngine \notin Engines

VARIABLES
  async,            \* which interface the client was generated with
  internal_engine,  \* _internal_engine of each client
  held,             \* the clients the program holds a reference to
  manager,          \* whether it holds the transaction manager
  freed,            \* the clients that were garbage collected
  made,             \* the engine objects created so far
  process,          \* the engine objects whose `process` is not None
  alive,            \* the engine objects whose process runs
  session,          \* session[e]: the HTTP session of e
  connected,        \* ghost: connect() returned for e and nobody closed e
  later,            \* engine objects with an aclose() scheduled by stop()
  pc,               \* pc[t]: the call task t is in
  target,           \* target[t]: the engine object that call works on
  running           \* the interpreter has not reached its atexit handlers

engineVars == <<made, process, alive, session, connected, later>>
objectVars == <<held, manager, freed>>
vars == <<async, internal_engine, held, manager, freed, made, process, alive,
          session, connected, later, pc, target, running>>

-----------------------------------------------------------------------------
(* Data.                                                                   *)

\* unused: no request yet;   closed: for good.
Session == {"unused", "open", "closed"}

\* poll: inside spawn(), waiting for /status;   ready: /status answered, the
\* task is not resumed yet;   close: inside aclose(), closing the session.
Label == {"idle", "poll", "ready", "close"}

TypeOK ==
  /\ async \in BOOLEAN
  /\ internal_engine \in [Clients -> Engines \cup {NoEngine}]
  /\ held \in SUBSET Clients /\ freed \in SUBSET Clients
  /\ manager \in BOOLEAN /\ running \in BOOLEAN
  /\ made \in SUBSET Engines
  /\ process \in SUBSET made /\ alive \in SUBSET process
  /\ session \in [Engines -> Session]
  /\ connected \in SUBSET made /\ later \in SUBSET made
  /\ pc \in [Tasks -> Label]
  /\ target \in [Tasks -> Engines \cup {NoEngine}]

Init ==
  /\ async \in Interfaces
  /\ internal_engine = [c \in Clients |-> NoEngine]
  /\ held = {Root} /\ manager = FALSE /\ freed = {}
  /\ made = {} /\ process = {} /\ alive = {}
  /\ session = [e \in Engines |-> "unused"]
  /\ connected = {} /\ later = {}
  /\ pc = [t \in Tasks |-> "idle"]
  /\ target = [t \in Tasks |-> NoEngine]
  /\ running = TRUE

\* One thread drives a synchronous client.
Idle(t) ==
  /\ running /\ pc[t] = "idle"
  /\ async \/ \A u \in Tasks : pc[u] = "idle"
At(t, l)   == pc[t] = l
Goto(t, l) == pc' = [pc EXCEPT ![t] = l]

\* AbstractHTTP.close: a session that was never used stays usable.
Closed(e) ==
  [session EXCEPT ![e] = IF @ = "open" THEN "closed" ELSE @]
\* A request opens an unused session; a closed one raises instead.
Opened(e) ==
  [session EXCEPT ![e] = IF @ = "unused" THEN "open" ELSE @]

\* _kill_process of the engine objects E.
Kill(E) == process' = process \ E /\ alive' = alive \ E

\* close() of the engine object e: only the synchronous one closes its
\* session.  (Slip: an exit path that leaves the process running.)
CloseSessionOnly(e) ==
  /\ session' = IF async THEN session ELSE Closed(e)
  /\ UNCHANGED <<process, alive>>
Close(e) ==
  /\ Kill({e})
  /\ session' = IF async THEN session ELSE Closed(e)

-----------------------------------------------------------------------------
(* connect().                                                              *)

\* _internal_engine, or a new engine object that becomes it.
EngineOf(c) ==
  IF internal_engine[c] = NoEngine THEN Engines \ made ELSE {internal_engine[c]}

Use(t, e) ==
  /\ internal_engine' = [internal_engine EXCEPT ![Root] = e]
  /\ made' = made \cup {e}
  /\ target' = [target EXCEPT ![t] = e]

\* Nothing is awaited between the check for AlreadyConnectedError and Popen.
Connect(t, e) ==
  /\ Idle(t) /\ Root \in held
  /\ e \in EngineOf(Root) /\ e \notin process
  /\ Use(t, e)
  /\ process' = process \cup {e}
  /\ alive' = alive \cup {e}
  /\ Goto(t, "poll")
  /\ UNCHANGED <<objectVars, session, connected, later, running>>

\* The binary is missing, or Popen raises: no request was made.
SpawnFails(t, e) ==
  /\ Idle(t) /\ Root \in held
  /\ e \in EngineOf(Root) /\ e \notin process
  /\ Use(t, e)
  /\ UNCHANGED <<objectVars, process, alive, session, connected, later, pc,
                 running>>

\* A request to /status fails; the loop sleeps and tries again.
PollFails(t) ==
  /\ At(t, "poll")
  /\ session' = Opened(target[t])
  /\ UNCHANGED <<internal_engine, objectVars, made, process, alive, connected,
                 later, pc, target, running>>

PollAnswered(t) ==
  /\ At(t, "poll")
  /\ target[t] \in alive /\ session[target[t]] # "closed"
  /\ session' = Opened(target[t])
  /\ Goto(t, "ready")
  /\ UNCHANGED <<internal_engine, objectVars, made, process, alive, connected,
                 later, target, running>>

\* connect() returns; another task may have disconnected in the meantime.
Connected(t) ==
  /\ At(t, "ready")
  /\ connected' = connected \cup ({target[t]} \cap alive)
  /\ Goto(t, "idle")
  /\ UNCHANGED <<internal_engine, objectVars, made, process, alive, session,
                 later, target, running>>

\* The timeout is up: `except Exception: self.close()`.
GivesUp(t) ==
  /\ At(t, "poll")
  /\ Close(target[t])
  /\ Goto(t, "idle")
  /\ UNCHANGED <<internal_engine, objectVars, made, connected, later, target,
                 running>>

\* CancelledError and KeyboardInterrupt are no Exceptions; a disconnect() that
\* is cancelled skips stop().
Cancelled(t) ==
  /\ ~At(t, "idle")
  /\ Goto(t, "idle")
  /\ UNCHANGED <<internal_engine, objectVars, engineVars, target, running>>

-----------------------------------------------------------------------------
(* disconnect(), also as the end of a `with` statement.                    *)

Detach(t) ==
  /\ Idle(t) /\ Root \in held
  /\ internal_engine[Root] # NoEngine
  /\ internal_engine' = [internal_engine EXCEPT ![Root] = NoEngine]
  /\ Close(internal_engine[Root])
  /\ connected' = connected \ {internal_engine[Root]}

\* The synchronous client.
Disconnect(t) ==
  /\ ~async /\ Detach(t)
  /\ UNCHANGED <<objectVars, made, later, pc, target, running>>

\* The asynchronous client kills the process, then awaits the session.
\* (Slip: the engine object is kept for the next connect().)
DisconnectKeeps(t) ==
  /\ async /\ Idle(t) /\ Root \in held
  /\ internal_engine[Root] # NoEngine
  /\ Close(internal_engine[Root])
  /\ connected' = connected \ {internal_engine[Root]}
  /\ target' = [target EXCEPT ![t] = internal_engine[Root]]
  /\ Goto(t, "close")
  /\ UNCHANGED <<internal_engine, objectVars, made, later, running>>
DisconnectAsync(t) ==
  /\ async /\ Detach(t)
  /\ target' = [target EXCEPT ![t] = internal_engine[Root]]
  /\ Goto(t, "close")
  /\ UNCHANGED <<objectVars, made, later, running>>

\* aclose() returns and stop() closes once more, now and in a task of its own.
SessionClosed(t) ==
  /\ At(t, "close")
  /\ session' = Closed(target[t])
  /\ Kill({target[t]})
  /\ later' = later \cup {target[t]}
  /\ Goto(t, "idle")
  /\ UNCHANGED <<internal_engine, objectVars, made, connected, target, running>>

LateClose(e) ==
  /\ running /\ e \in later
  /\ later' = later \ {e}
  /\ Kill({e})
  /\ session' = Closed(e)
  /\ UNCHANGED <<internal_engine, objectVars, made, connected, pc, target,
                 running>>

-----------------------------------------------------------------------------
(* Object lifetimes.                                                       *)

\* manager = client.tx(); copy = manager.start().  The manager refers to the
\* client, the copy shares its engine object.
StartTransaction(t) ==
  LET e == internal_engine[Root] IN
  /\ Idle(t) /\ Root \in held /\ Copy \notin held \cup freed
  /\ e \in alive /\ session[e] # "closed"
  /\ internal_engine' = [internal_engine EXCEPT ![Copy] = e]
  /\ session' = Opened(e)
  /\ held' = held \cup {Copy}
  /\ manager' = TRUE
  /\ UNCHANGED <<freed, made, process, alive, connected, later, pc, target,
                 running>>

\* The program forgets a client that no call of its own is using ...
Drop(c) ==
  /\ running /\ c \in held
  /\ c = Root => \A t \in Tasks : At(t, "idle")
  /\ held' = held \ {c}
  /\ UNCHANGED <<internal_engine, manager, freed, engineVars, pc, target,
                 running>>

\* ... or the transaction manager.
DropManager ==
  /\ running /\ manager
  /\ KeepsManager => Copy \notin held
  /\ manager' = FALSE
  /\ UNCHANGED <<internal_engine, held, freed, engineVars, pc, target, running>>

\* The client objects that are still referred to.
Referenced == held \cup (IF manager THEN {Root} ELSE {})

\* __del__: a client that is no copy stops its engine, which outside a
\* running loop does not close an asynchronous session.
\* (Slip: every client stops its engine.)
FreeAnyway(c) ==
  /\ running /\ c \notin Referenced \cup freed
  /\ internal_engine[c] # NoEngine
  /\ freed' = freed \cup {c}
  /\ internal_engine' = [internal_engine EXCEPT ![c] = NoEngine]
  /\ Kill({internal_engine[c]})
  /\ connected' = connected \ {internal_engine[c]}
  /\ session' \in {session, Closed(internal_engine[c])}
  /\ UNCHANGED <<held, manager, made, later, pc, target, running>>
Free(c) ==
  LET stops == c # Copy /\ internal_engine[c] # NoEngine
      e     == internal_engine[c]
  IN
  /\ running /\ c \notin Referenced \cup freed
  /\ c = Root \/ internal_engine[c] # NoEngine
  /\ freed' = freed \cup {c}
  /\ internal_engine' = [internal_engine EXCEPT ![c] = NoEngine]
  /\ Kill(IF stops THEN {e} ELSE {})
  /\ connected' = IF stops THEN connected \ {e} ELSE connected
  /\ session' \in {session} \cup (IF stops THEN {Closed(e)} ELSE {})
  /\ UNCHANGED <<held, manager, made, later, pc, target, running>>

\* Every engine object registered its stop() with atexit.
Exit ==
  /\ running /\ \A t \in Tasks : At(t, "idle")
  /\ running' = FALSE
  /\ Kill(made)
  /\ connected' = {}
  /\ UNCHANGED <<internal_engine, objectVars, made, session, later, pc, target>>

\* A query engine dies on its own (external).
Crash(e) ==
  /\ e \in alive
  /\ alive' = alive \ {e}
  /\ connected' = connected \ {e}
  /\ UNCHANGED <<internal_engine, objectVars, made, process, session, later,
                 pc, target, running>>

Step ==
  \/ \E t \in Tasks :
       \/ \E e \in Engines : Connect(t, e) \/ SpawnFails(t, e)
       \/ PollFails(t) \/ PollAnswered(t) \/ Connected(t) \/ GivesUp(t)
       \/ Cancelled(t) \/ Disconnect(t) \/ DisconnectAsync(t)
       \/ SessionClosed(t) \/ StartTransaction(t)
  \/ \E e \in Engines : LateClose(e) \/ Crash(e)
  \/ \E c \in Clients : Drop(c) \/ Free(c)
  \/ DropManager \/ Exit

Next == Step /\ UNCHANGED async

Spec == Init /\ [][Next]_vars

-----------------------------------------------------------------------------
(* Properties.                                                             *)

\* A query-engine process belongs to the engine object of a client that still
\* exists: neither disconnect(), nor a failed or cancelled connect(), nor the
\* collection of the client leaves one behind.
NoStrayProcess ==
  \A e \in alive : internal_engine[Root] = e /\ Root \notin freed

\* Once connect() has returned, the process runs and its session takes
\* requests until someone disconnects: the closing that an earlier
\* disconnect() left to a later task never hits a newer connection.
StaysUsable ==
  \A e \in connected : e \in alive /\ session[e] = "open"

\* "Stopping the engine here should be safe": collecting a client stops no
\* engine that a client the program still holds works with.
EngineOutlivesUsers ==
  [][freed' # freed =>
       \A c \in held : internal_engine[c] \in alive
                         => internal_engine[c] \in alive']_vars

=============================================================================
