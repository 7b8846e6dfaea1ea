---------------------------- MODULE SharedEngine ----------------------------
(***************************************************************************)
(* The query-engine processes that the clients of one Python process spawn *)
(* and, with PRISMA_PY_SHARED_ENGINE=1, share: engine objects              *)
(* (engine/_query.py) and the reference-counted registry                   *)
(* (engine/_shared.py).                                                    *)
(*                                                                         *)
(* Each engine object is driven by a thread of its own.  A step of this    *)
(* specification is what such a thread does between two points at which    *)
(* another thread can be scheduled and see a difference: one critical      *)
(* section of the registry's lock, one signal, one wait, one poll.         *)
(*                                                                         *)
(* A URL is the process that listens on it.                                *)
(***************************************************************************)
EXTENDS Integers, FiniteSets

CONSTANTS
  Engines,     \* engine objects: one per connected client
  Keys,        \* (schema path, datasource overrides) pairs: make_key
  KeyOf,       \* the key under which each engine connects
  Procs,       \* query-engine processes that can ever be spawned
  Sharing,     \* the engines that find PRISMA_PY_SHARED_ENGINE set
  MaxCrashes,  \* bound: how many processes may die on their own
  NoProc,      \* Python's None where a process is expected
  NoKey        \* Python's None where a key is expected

ASSUME SharedEngineAssumption ==
  /\ IsFiniteSet(Engines)
  /\ KeyOf \in [Engines -> Keys]
  /\ Sharing \subseteq Engines
  /\ MaxCrashes \in Nat
  /\ NoProc \notin Procs
  /\ NoKey \notin Keys

VARIABLES
  proc,        \* proc[p]: the operating system's view of process p
  builtFor,    \* builtFor[p]: the key p was spawned with (ghost)
  crashes,     \* processes that died on their own so far (bound counter)
  entries,     \* _Registry._entries
  process,     \* process[e]: the engine's Popen object, or NoProc
  url,         \* url[e]: the process that answers at the engine's URL
  shared_key,  \* shared_key[e]: the engine's _shared_key, or NoKey
  pc,          \* pc[e]: where the thread driving e stands
  doomed,      \* doomed[e]: the process e is terminating
  deadline,    \* deadline[e]: that termination has a timeout
  up           \* the interpreter has not run the registry's exit sweep

procVars   == <<proc, builtFor, crashes>>
engineVars == <<process, url, shared_key>>
termVars   == <<doomed, deadline>>
vars == <<proc, builtFor, crashes, entries, process, url, shared_key, pc,
          doomed, deadline, up>>

-----------------------------------------------------------------------------
(* Data.                                                                   *)

\* "stopping": SIGINT was delivered and the process has not exited yet;
\* poll() still reports it as running.
ProcState == {"unborn", "live", "stopping", "dead"}

\* idle: no call in progress;   attach, ensure, spawn, poll, register: inside
\* connect();   release: inside _kill_process, its key already cleared;
\* kill, wait: inside _terminate_popen.
Label == {"idle", "attach", "ensure", "spawn", "poll", "register",
          "release", "kill", "wait"}

Entry   == [proc : Procs \cup {NoProc}, refcount : Nat]
NoEntry == [proc |-> NoProc, refcount |-> 0]

Running(p)   == proc[p] \in {"live", "stopping"}     \* poll() is None
Present(k)   == entries[k].proc # NoProc
Connected(e) == process[e] # NoProc \/ shared_key[e] # NoKey

TypeOK ==
  /\ proc \in [Procs -> ProcState]
  /\ builtFor \in [Procs -> Keys \cup {NoKey}]
  /\ crashes \in 0 .. MaxCrashes
  /\ entries \in [Keys -> Entry]
  /\ process \in [Engines -> Procs \cup {NoProc}]
  /\ url \in [Engines -> Procs \cup {NoProc}]
  /\ shared_key \in [Engines -> Keys \cup {NoKey}]
  /\ pc \in [Engines -> Label]
  /\ doomed \in [Engines -> Procs \cup {NoProc}]
  /\ deadline \in [Engines -> BOOLEAN]
  /\ up \in BOOLEAN

Init ==
  /\ proc = [p \in Procs |-> "unborn"]
  /\ builtFor = [p \in Procs |-> NoKey]
  /\ crashes = 0
  /\ entries = [k \in Keys |-> NoEntry]
  /\ process = [e \in Engines |-> NoProc]
  /\ url = [e \in Engines |-> NoProc]
  /\ shared_key = [e \in Engines |-> NoKey]
  /\ pc = [e \in Engines |-> "idle"]
  /\ doomed = [e \in Engines |-> NoProc]
  /\ deadline = [e \in Engines |-> FALSE]
  /\ up = TRUE

\* make_key: the key stands for the schema and the datasource overrides.
make_key(e) == KeyOf[e]

\* enabled().  (Slip: the flag is ignored.)
AlwaysOn(e) == TRUE
enabled(e) == e \in Sharing

\* The reference count of k goes down by release(), up by attach() or by a
\* lost spawn race.  (Slip: no increment.)
CountDown(k) == [entries EXCEPT ![k] = [proc |-> entries[k].proc,
                                        refcount |-> entries[k].refcount - 1]]
ForgetToCount(k) == entries
Acquire(k) == [entries EXCEPT ![k] = [proc |-> entries[k].proc,
                                      refcount |-> entries[k].refcount + 1]]

At(e, l)   == pc[e] = l
Goto(e, l) == pc' = [pc EXCEPT ![e] = l]

\* Enter _terminate_popen(p, timeout).
Terminate(e, p, timed) ==
  /\ Goto(e, "kill")
  /\ doomed' = [doomed EXCEPT ![e] = p]
  /\ deadline' = [deadline EXCEPT ![e] = timed]

-----------------------------------------------------------------------------
(* connect().  An engine that is already connected raises and changes      *)
(* nothing.                                                                *)

Connect(e) ==
  /\ up
  /\ At(e, "idle") /\ ~Connected(e)
  /\ Goto(e, "attach")
  /\ UNCHANGED <<procVars, entries, engineVars, termVars, up>>

\* attach() found a registered process that poll() reports as running.
AttachHit(e) ==
  LET k == make_key(e) IN
  /\ At(e, "attach")
  /\ enabled(e) /\ Present(k) /\ Running(entries[k].proc)
  /\ entries' = Acquire(k)
  /\ url' = [url EXCEPT ![e] = entries[k].proc]
  /\ shared_key' = [shared_key EXCEPT ![e] = k]
  /\ Goto(e, "idle")
  /\ UNCHANGED <<procVars, process, termVars, up>>

\* (Slip: the reference is counted before the process is looked at.)
CountBeforeLooking(e) ==
  LET k == make_key(e) IN
  /\ At(e, "attach")
  /\ enabled(e) /\ Present(k) /\ ~Running(entries[k].proc)
  /\ entries' = Acquire(k)
  /\ Goto(e, "ensure")
  /\ UNCHANGED <<procVars, engineVars, termVars, up>>

\* attach() found a process that "died behind our back".
AttachStale(e) ==
  LET k == make_key(e) IN
  /\ At(e, "attach")
  /\ enabled(e) /\ Present(k) /\ ~Running(entries[k].proc)
  /\ entries' = [entries EXCEPT ![k] = NoEntry]
  /\ Goto(e, "ensure")
  /\ UNCHANGED <<procVars, engineVars, termVars, up>>

\* Sharing is off, or nothing is registered under the key.
AttachMiss(e) ==
  /\ At(e, "attach")
  /\ enabled(e) => ~Present(make_key(e))
  /\ Goto(e, "ensure")
  /\ UNCHANGED <<procVars, entries, engineVars, termVars, up>>

\* _ensure_file: the binary is found, or BinaryNotFoundError leaves connect()
\* before anything was changed.
EnsureFile(e) ==
  /\ At(e, "ensure")
  /\ \/ Goto(e, "spawn")
     \/ Goto(e, "idle")
  /\ UNCHANGED <<procVars, entries, engineVars, termVars, up>>

\* _spawn_process: Popen succeeds.
Spawn(e) ==
  /\ At(e, "spawn")
  /\ \E p \in Procs :
       /\ proc[p] = "unborn"
       /\ proc' = [proc EXCEPT ![p] = "live"]
       /\ builtFor' = [builtFor EXCEPT ![p] = KeyOf[e]]
       /\ process' = [process EXCEPT ![e] = p]
       /\ url' = [url EXCEPT ![e] = p]
  /\ Goto(e, "poll")
  /\ UNCHANGED <<crashes, entries, shared_key, termVars, up>>

\* Popen raises: the URL was already assigned (nobody listens there), and the
\* close() in connect()'s handler finds no process.
SpawnFails(e) ==
  /\ At(e, "spawn")
  /\ url' = [url EXCEPT ![e] = NoProc]
  /\ Goto(e, "idle")
  /\ UNCHANGED <<procVars, entries, process, shared_key, termVars, up>>

\* GET /status was answered without errors.
PollReady(e) ==
  /\ At(e, "poll")
  /\ Running(process[e])
  /\ Goto(e, "register")
  /\ UNCHANGED <<procVars, entries, engineVars, termVars, up>>

\* Every attempt failed: EngineConnectionError, and connect()'s handler calls
\* close() with no timeout.
PollGivesUp(e) ==
  /\ At(e, "poll")
  /\ Terminate(e, process[e], FALSE)
  /\ UNCHANGED <<procVars, entries, engineVars, up>>

\* KeyboardInterrupt in time.sleep, or CancelledError at an await: not an
\* Exception, so close() is not called and the process stays with the engine.
PollCancelled(e) ==
  /\ At(e, "poll")
  /\ Goto(e, "idle")
  /\ UNCHANGED <<procVars, entries, engineVars, termVars, up>>

\* _register_shared when sharing is off.
KeepPrivate(e) ==
  /\ At(e, "register")
  /\ ~enabled(e)
  /\ Goto(e, "idle")
  /\ UNCHANGED <<procVars, entries, engineVars, termVars, up>>

\* (Slip: register() overwrites the entry of the thread that won the race.)
RegisterBlindly(e) ==
  LET k == make_key(e) IN
  /\ At(e, "register")
  /\ enabled(e)
  /\ entries' = [entries EXCEPT ![k] = [proc |-> process[e], refcount |-> 1]]
  /\ shared_key' = [shared_key EXCEPT ![e] = k]
  /\ Goto(e, "idle")
  /\ UNCHANGED <<procVars, process, url, termVars, up>>

\* register(): no entry for the key, or one whose process died.
RegisterFirst(e) ==
  LET k == make_key(e) IN
  /\ At(e, "register")
  /\ enabled(e) /\ ~(Present(k) /\ Running(entries[k].proc))
  /\ entries' = [entries EXCEPT ![k] = [proc |-> process[e], refcount |-> 1]]
  /\ shared_key' = [shared_key EXCEPT ![e] = k]
  /\ Goto(e, "idle")
  /\ UNCHANGED <<procVars, process, url, termVars, up>>

\* (Slip: the loser of the race forgets to terminate its process.)
AdoptOnly(e) ==
  LET k == make_key(e) IN
  /\ At(e, "register")
  /\ enabled(e) /\ Present(k) /\ Running(entries[k].proc)
  /\ entries' = Acquire(k)
  /\ shared_key' = [shared_key EXCEPT ![e] = k]
  /\ process' = [process EXCEPT ![e] = NoProc]
  /\ url' = [url EXCEPT ![e] = entries[k].proc]
  /\ Goto(e, "idle")
  /\ UNCHANGED <<procVars, termVars, up>>

\* register(): another thread spawned for the key first.  Adopt its process
\* and terminate our own, waiting without a timeout.
RegisterLost(e) ==
  LET k == make_key(e) IN
  /\ At(e, "register")
  /\ enabled(e) /\ Present(k) /\ Running(entries[k].proc)
  /\ entries' = Acquire(k)
  /\ shared_key' = [shared_key EXCEPT ![e] = k]
  /\ process' = [process EXCEPT ![e] = NoProc]
  /\ url' = [url EXCEPT ![e] = entries[k].proc]
  /\ Terminate(e, process[e], FALSE)
  /\ UNCHANGED <<procVars, up>>

-----------------------------------------------------------------------------
(* close(timeout), from disconnect(), __del__ or the engine's atexit hook. *)

\* _kill_process of a shared engine forgets key and process first ...
CloseShared(e) ==
  /\ At(e, "idle") /\ shared_key[e] # NoKey
  /\ shared_key' = [shared_key EXCEPT ![e] = NoKey]
  /\ process' = [process EXCEPT ![e] = NoProc]
  /\ \E timed \in BOOLEAN : deadline' = [deadline EXCEPT ![e] = timed]
  /\ Goto(e, "release")
  /\ UNCHANGED <<procVars, entries, url, doomed, up>>

\* (Slip: the entry is kept whatever the count.)
ReleaseNeverEnds(e) ==
  LET k == make_key(e) IN
  /\ At(e, "release")
  /\ entries' = IF Present(k) THEN CountDown(k) ELSE entries
  /\ deadline' = [deadline EXCEPT ![e] = FALSE]
  /\ Goto(e, "idle")
  /\ UNCHANGED <<procVars, engineVars, doomed, up>>

\* ... then release() drops the reference it had: not the last one, or the
\* entry is gone.
ReleaseKeeps(e) ==
  LET k == make_key(e) IN
  /\ At(e, "release")
  /\ ~Present(k) \/ entries[k].refcount > 1
  /\ entries' = IF Present(k) THEN CountDown(k) ELSE entries
  /\ deadline' = [deadline EXCEPT ![e] = FALSE]
  /\ Goto(e, "idle")
  /\ UNCHANGED <<procVars, engineVars, doomed, up>>

\* (Slips: the count is not looked at; the entry is left for later.)
ReleaseAlways(e) ==
  LET k == make_key(e) IN
  /\ At(e, "release") /\ Present(k)
  /\ entries' = [entries EXCEPT ![k] = NoEntry]
  /\ Terminate(e, entries[k].proc, deadline[e])
  /\ UNCHANGED <<procVars, engineVars, up>>

KillBeforeDelete(e) ==
  LET k == make_key(e) IN
  /\ At(e, "release") /\ Present(k) /\ entries[k].refcount =< 1
  /\ Terminate(e, entries[k].proc, deadline[e])
  /\ UNCHANGED <<procVars, entries, engineVars, up>>

\* release() of the last reference: the entry goes under the lock, the process
\* is terminated after the lock was given back.
ReleaseLast(e) ==
  LET k == make_key(e) IN
  /\ At(e, "release")
  /\ Present(k) /\ entries[k].refcount =< 1
  /\ entries' = [entries EXCEPT ![k] = NoEntry]
  /\ Terminate(e, entries[k].proc, deadline[e])
  /\ UNCHANGED <<procVars, engineVars, up>>

\* _kill_process of an engine with a process of its own.
ClosePrivate(e) ==
  /\ At(e, "idle") /\ shared_key[e] = NoKey /\ process[e] # NoProc
  /\ \E timed \in BOOLEAN : Terminate(e, process[e], timed)
  /\ UNCHANGED <<procVars, entries, engineVars, up>>

-----------------------------------------------------------------------------
(* _terminate_popen (the POSIX branch).                                    *)

\* (Slip: the wait without the signal.)
NoSignal(e) ==
  /\ At(e, "kill")
  /\ Goto(e, "wait")
  /\ UNCHANGED <<procVars, entries, engineVars, termVars, up>>

\* send_signal(SIGINT) polls first and does nothing to a process that exited.
Interrupt(e) ==
  /\ At(e, "kill")
  /\ proc' = [proc EXCEPT ![doomed[e]] = IF @ = "live" THEN "stopping" ELSE @]
  /\ Goto(e, "wait")
  /\ UNCHANGED <<builtFor, crashes, entries, engineVars, termVars, up>>

\* The call returns; close() of a private engine then forgets its process.
Finish(e) ==
  /\ process' = IF process[e] = doomed[e]
                THEN [process EXCEPT ![e] = NoProc] ELSE process
  /\ doomed' = [doomed EXCEPT ![e] = NoProc]
  /\ deadline' = [deadline EXCEPT ![e] = FALSE]
  /\ Goto(e, "idle")
  /\ UNCHANGED <<builtFor, crashes, entries, url, shared_key, up>>

\* process.wait() returns.
Reap(e) ==
  /\ At(e, "wait") /\ ~Running(doomed[e])
  /\ Finish(e)
  /\ UNCHANGED proc

\* TimeoutExpired: SIGKILL, and no second wait.
WaitExpires(e) ==
  /\ At(e, "wait") /\ deadline[e] /\ Running(doomed[e])
  /\ proc' = [proc EXCEPT ![doomed[e]] = "dead"]
  /\ Finish(e)

-----------------------------------------------------------------------------
(* The environment.                                                        *)

\* The query engine exits because of a SIGINT.
Exit(p) ==
  /\ proc[p] = "stopping"
  /\ proc' = [proc EXCEPT ![p] = "dead"]
  /\ UNCHANGED <<builtFor, crashes, entries, engineVars, pc, termVars, up>>

\* The query engine dies on its own, or something outside kills it.
Crash(p) ==
  /\ proc[p] = "live" /\ crashes < MaxCrashes
  /\ proc' = [proc EXCEPT ![p] = "dead"]
  /\ crashes' = crashes + 1
  /\ UNCHANGED <<builtFor, entries, engineVars, pc, termVars, up>>

\* Interpreter exit.  The threads were joined, and every engine's atexit hook
\* (registered after the registry's, so run before it) has closed the engine;
\* _sweep then kills whatever is still registered.
Sweep ==
  /\ up
  /\ \A e \in Engines : At(e, "idle") /\ ~Connected(e)
  /\ proc' = [p \in Procs |->
                IF \E k \in Keys : entries[k].proc = p /\ Running(p)
                THEN "dead" ELSE proc[p]]
  /\ entries' = [k \in Keys |-> NoEntry]
  /\ up' = FALSE
  /\ UNCHANGED <<builtFor, crashes, engineVars, pc, termVars>>

\* After the sweep nothing is left to do.
Exited == ~up /\ UNCHANGED vars

-----------------------------------------------------------------------------

ConnectStep(e) ==
  \/ Connect(e)   \/ AttachHit(e)     \/ AttachStale(e)   \/ AttachMiss(e)
  \/ EnsureFile(e) \/ Spawn(e)        \/ SpawnFails(e)
  \/ PollReady(e) \/ PollGivesUp(e)   \/ PollCancelled(e)
  \/ KeepPrivate(e) \/ RegisterFirst(e) \/ RegisterLost(e)

CloseStep(e) ==
  \/ CloseShared(e) \/ ReleaseKeeps(e) \/ ReleaseLast(e) \/ ClosePrivate(e)
  \/ Interrupt(e)   \/ Reap(e)         \/ WaitExpires(e)

Next ==
  \/ \E e \in Engines : ConnectStep(e) \/ CloseStep(e)
  \/ \E p \in Procs : Exit(p) \/ Crash(p)
  \/ Sweep
  \/ Exited

Spec == Init /\ [][Next]_vars

\* A thread inside a call is scheduled until the call returns: the loops are
\* bounded, and no wait depends on another engine's thread.  A query engine
\* that got SIGINT exits.  Nobody has to connect, close or cancel.
FairSpec ==
  /\ Spec
  /\ \A e \in Engines :
       /\ WF_vars(AttachHit(e) \/ AttachStale(e) \/ AttachMiss(e))
       /\ WF_vars(EnsureFile(e))
       /\ WF_vars(Spawn(e) \/ SpawnFails(e))
       /\ WF_vars(PollReady(e) \/ PollGivesUp(e))
       /\ WF_vars(KeepPrivate(e) \/ RegisterFirst(e) \/ RegisterLost(e))
       /\ WF_vars(ReleaseKeeps(e) \/ ReleaseLast(e))
       /\ WF_vars(Interrupt(e))
       /\ WF_vars(Reap(e) \/ WaitExpires(e))
  /\ \A p \in Procs : WF_vars(Exit(p))

-----------------------------------------------------------------------------
(* Properties.                                                             *)

\* The engines that own a reference under k: the connected ones and those
\* between clearing their key and reaching release().
Holders(k) ==
  {e \in Engines : shared_key[e] = k \/ (At(e, "release") /\ KeyOf[e] = k)}

AllClosed == \A e \in Engines : At(e, "idle") /\ ~Connected(e)

\* An entry's refcount is the number of engines holding a reference, and every
\* holder's entry is there and is the process the holder talks to.
RefcountExact ==
  \A k \in Keys :
    /\ Present(k) <=> Holders(k) # {}
    /\ Present(k) => entries[k].refcount = Cardinality(Holders(k))
    /\ \A e \in Engines : shared_key[e] = k => url[e] = entries[k].proc

\* Whatever dies and is replaced, a registered process has at least one and at
\* most as many references as engines that can still release it.  References to
\* a dead process are released against its successor (release() knows the key
\* only), which may end the successor early, but an entry is never stranded
\* with a reference nobody will drop.
RefcountBounded ==
  \A k \in Keys :
    Present(k) => entries[k].refcount \in 1 .. Cardinality(Holders(k))

\* "killed when the last user disconnects": a process that is being terminated
\* is not the one a connected engine is attached to.
KilledAfterLastUser ==
  \A e, f \in Engines :
    (doomed[f] # NoProc /\ shared_key[e] # NoKey) => url[e] # doomed[f]

\* Both hold for as long as no query engine has died on its own.  (After that,
\* a reference to a dead process is released against its successor's entry.)
RefcountExactUntilCrash == crashes = 0 => RefcountExact
KilledAfterLastUserUntilCrash == crashes = 0 => KilledAfterLastUser

\* Every running process is somebody's to terminate: an engine's own, a
\* registered one, or one being terminated.  A lost spawn race, a failed or a
\* cancelled connect must not drop the last reference to a process.
NoOrphan ==
  \A p \in Procs :
    Running(p) => \/ \E e \in Engines : process[e] = p \/ doomed[e] = p
                  \/ \E k \in Keys : entries[k].proc = p

\* "both clients must resolve the same datasource (the key guarantees this)".
SameDatasource ==
  \A e \in Engines :
    shared_key[e] # NoKey => builtFor[url[e]] = KeyOf[e]

\* When every engine is closed and no call is in progress, no process runs and
\* nothing is registered: the exit sweep is only a backstop.
NothingAtRest ==
  AllClosed => /\ \A p \in Procs : ~Running(p)
               /\ \A k \in Keys : ~Present(k)

\* An engine that does not share talks to a process of its own, which nobody
\* else attaches to or terminates, even if others share the same datasource.
PrivateIsPrivate ==
  \A e, f \in Engines :
    (e \notin Sharing /\ e # f /\ Connected(e)) =>
      /\ process[e] # NoProc /\ url[e] = process[e]
      /\ process[e] \notin {process[f], url[f], doomed[f]}

\* What each point of a call knows about its own engine.
Labels ==
  \A e \in Engines :
    /\ pc[e] \in {"attach", "ensure", "spawn", "release"} => ~Connected(e)
    /\ pc[e] \in {"poll", "register"} =>
         process[e] # NoProc /\ shared_key[e] = NoKey /\ url[e] = process[e]
    /\ doomed[e] # NoProc <=> pc[e] \in {"kill", "wait"}
    /\ shared_key[e] # NoKey => shared_key[e] = KeyOf[e] /\ url[e] # NoProc

\* A process has one owner: the engine that spawned it until that engine
\* registers it, the registry while it is registered, and then the one engine
\* that terminates it.  Whatever dies, no two of them ever claim it together.
Ownership ==
  /\ \A e, f \in Engines :
       process[e] # NoProc /\ e # f =>
         /\ process[e] # process[f]
         /\ shared_key[e] = NoKey => doomed[f] # process[e]
  /\ \A k \in Keys : Present(k) =>
       /\ \A j \in Keys : entries[j].proc = entries[k].proc => j = k
       /\ \A e \in Engines :
            /\ process[e] = entries[k].proc => shared_key[e] # NoKey
            /\ doomed[e] # entries[k].proc
  /\ \A p \in Procs :
       /\ proc[p] = "stopping" =>
            \E e \in Engines : doomed[e] = p /\ At(e, "wait")
       /\ proc[p] = "unborn" =>
            /\ \A e \in Engines : p \notin {process[e], doomed[e]}
            /\ \A k \in Keys : entries[k].proc # p

\* A registered engine's own process is still registered, or on its way out.
SharedIsRegistered ==
  \A e \in Engines :
    (shared_key[e] # NoKey /\ process[e] # NoProc /\ Running(process[e])) =>
      \/ \E k \in Keys : entries[k].proc = process[e]
      \/ \E f \in Engines : doomed[f] = process[e]

\* Every call returns: connect and close never wait for another engine.
CallsReturn == \A e \in Engines : ~At(e, "idle") ~> At(e, "idle")

\* What the registry promises to its users: EnginePool.
Pool == INSTANCE EnginePool WITH
          running <- {p \in Procs : proc[p] = "live"},
          engine  <- [k \in Keys |-> entries[k].proc],
          users   <- [k \in Keys |-> {e \in Engines : shared_key[e] = k}]

PoolSpec == Pool!Spec

=============================================================================
