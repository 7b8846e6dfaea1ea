------------------------------- MODULE LazyBuild -------------------------------
(***************************************************************************)
(* _recursive.py: with recursiveValidationModels a model is compiled when  *)
(* it is used first, by a thread of its own with a large stack, under a    *)
(* raised recursion limit.  Both are settings of the whole process, and    *)
(* threads of the program use models at any time.  The generator has       *)
(* measured the schema before (RelationDepth).                             *)
(***************************************************************************)
EXTENDS RelationDepth

CONSTANTS
  Threads,         \* threads of the program
  Main,            \* the one that a KeyboardInterrupt is raised in
  Workers,         \* threads that may be started to compile a model
  FramesPerLevel,  \* _FRAMES_PER_LEVEL
  Headroom,        \* _RECURSION_HEADROOM
  Base,            \* frames of a build beside those of its levels
  BytesPerLevel,   \* _STACK_BYTES_PER_LEVEL
  MinStack, MaxStack, Unit,  \* 8 MB, _MAX_STACK_BYTES, _MB
  DefaultLimit,    \* the recursion limit of Python
  Limits,          \* what the program raises it to
  Sizes,           \* stack sizes that the program sets
  MaxFaults,       \* bound: interrupts and threads that cannot be started
  None

ASSUME SizesAssumption ==
  /\ {FramesPerLevel, Headroom, Base, BytesPerLevel, MinStack, MaxStack, DefaultLimit} \subseteq Nat
  /\ Unit \in Nat \ {0}
  /\ Limits \subseteq Nat /\ Sizes \subseteq Nat
ASSUME ThreadsAssumption ==
  Main \in Threads /\ None \notin Threads \cup Models \cup Workers
ASSUME HeadroomAssumption == Base <= Headroom

VARIABLES
  limit,      \* sys.getrecursionlimit()
  stackSize,  \* threading.stack_size()
  lock,       \* _build_lock: who holds it
  complete,   \* the models with __pydantic_complete__
  pc,         \* where a thread is in ensure_built()
  uses,       \* the model it uses
  previous,   \* its previous_stack
  mine,       \* the worker it started
  worker,     \* [state, model, stack] of each worker
  outcome,    \* how the last use of a thread ended
  chosen,     \* ghost: the stack size that the program wants for its threads
  faults      \* bounded by MaxFaults

settings == <<limit, stackSize, chosen>>
calls    == <<lock, pc, uses, previous, mine, outcome>>
builds   == <<complete, worker>>
vars     == <<measure, settings, calls, builds, faults>>

Larger(a, b)  == IF a > b THEN a ELSE b
Smaller(a, b) == IF a < b THEN a ELSE b

RequiredRecursionLimit(d) == FramesPerLevel * Larger(1, d) + Headroom
StackBytes(frames) ==
  LET raw == Smaller(Larger(MinStack, frames * BytesPerLevel), MaxStack)
  IN ((raw + Unit - 1) \div Unit) * Unit

\* pydantic: how deep a build recurses, at the end of a chain of k models.
Frames(k) == FramesPerLevel * k + Base

\* The largest stack is large enough for this schema.
ASSUME StackAssumption == RequiredRecursionLimit(N) * BytesPerLevel <= MaxStack

NoWorker == [state |-> "new", model |-> None, stack |-> 0]

Init ==
  /\ MeasureInit
  /\ limit = DefaultLimit
  /\ stackSize = 0         \* what the platform has
  /\ chosen = 0
  /\ lock = None
  /\ complete = {}
  /\ pc = [t \in Threads |-> "idle"]
  /\ uses = [t \in Threads |-> None]
  /\ previous = [t \in Threads |-> 0]
  /\ mine = [t \in Threads |-> None]
  /\ worker = [w \in Workers |-> NoWorker]
  /\ outcome = [t \in Threads |-> None]
  /\ faults = 0

-----------------------------------------------------------------------------
(* ensure_built() and run_with_recursion_headroom(), up to each access to  *)
(* what threads share.                                                     *)

At(t, from, to) == pc[t] = from /\ pc' = [pc EXCEPT ![t] = to]

\* A record is made: the model is looked at without the lock.
Use(t, m) ==
  /\ depth # 0
  /\ m \notin complete
  /\ At(t, "idle", "lock")
  /\ uses' = [uses EXCEPT ![t] = m]
  /\ UNCHANGED <<measure, settings, lock, previous, mine, outcome, builds, faults>>

Acquire(t) ==
  /\ lock = None
  /\ At(t, "lock", "limit")
  /\ lock' = t
  /\ UNCHANGED <<measure, settings, uses, previous, mine, outcome, builds, faults>>

Enough(t) ==
  /\ limit >= RequiredRecursionLimit(depth)
  /\ At(t, "limit", "stack")
  /\ UNCHANGED <<measure, settings, lock, uses, previous, mine, outcome, builds, faults>>
TooLow(t) ==
  /\ limit < RequiredRecursionLimit(depth)
  /\ At(t, "limit", "raise")
  /\ UNCHANGED <<measure, settings, lock, uses, previous, mine, outcome, builds, faults>>
Raise(t) ==
  /\ At(t, "raise", "stack")
  /\ limit' = RequiredRecursionLimit(depth)
  /\ UNCHANGED <<measure, stackSize, chosen, lock, uses, previous, mine, outcome, builds, faults>>

\* threading.stack_size() answers with the size it replaces.
Enlarge(t) ==
  /\ At(t, "stack", "start")
  /\ previous' = [previous EXCEPT ![t] = stackSize]
  /\ stackSize' = StackBytes(RequiredRecursionLimit(depth))
  /\ UNCHANGED <<measure, limit, chosen, lock, uses, mine, outcome, builds, faults>>

\* thread.start(): a thread has the stack size of the moment.
Free(w) == worker[w].state \notin {"started", "building"} /\ \A t \in Threads : pc[t] = "join" => mine[t] # w
StartWorker(t, w) ==
  /\ At(t, "start", "join")
  /\ Free(w) /\ w = CHOOSE v \in Workers : Free(v)
  /\ worker' = [worker EXCEPT ![w] = [state |-> "started", model |-> uses[t], stack |-> stackSize]]
  /\ mine' = [mine EXCEPT ![t] = w]
  /\ UNCHANGED <<measure, settings, lock, uses, previous, outcome, complete, faults>>
CannotStart(t) ==
  /\ faults < MaxFaults
  /\ At(t, "start", "restore")
  /\ outcome' = [outcome EXCEPT ![t] = "failed"]
  /\ faults' = faults + 1
  /\ UNCHANGED <<measure, settings, lock, uses, previous, mine, builds>>

Join(t) ==
  /\ At(t, "join", "restore")
  /\ worker[mine[t]].state \in {"built", "recursion"}
  /\ outcome' = [outcome EXCEPT ![t] = worker[mine[t]].state]
  /\ worker' = [worker EXCEPT ![mine[t]] = NoWorker]
  /\ UNCHANGED <<measure, settings, lock, uses, previous, mine, complete, faults>>
\* Ctrl-C while the main thread waits: the worker goes on.
Interrupt ==
  /\ faults < MaxFaults
  /\ At(Main, "join", "restore")
  /\ outcome' = [outcome EXCEPT ![Main] = "failed"]
  /\ faults' = faults + 1
  /\ UNCHANGED <<measure, settings, lock, uses, previous, mine, builds>>

\* finally.  (Slip: 0, the size of the platform, is taken for no size.)
RestoreNonzero(t) ==
  /\ At(t, "restore", "release")
  /\ stackSize' = IF previous[t] = 0 THEN stackSize ELSE previous[t]
  /\ UNCHANGED <<measure, limit, chosen, lock, uses, previous, mine, outcome, builds, faults>>
Restore(t) ==
  /\ At(t, "restore", "release")
  /\ stackSize' = previous[t]
  /\ UNCHANGED <<measure, limit, chosen, lock, uses, previous, mine, outcome, builds, faults>>

Forget(t) ==
  /\ uses' = [uses EXCEPT ![t] = None]
  /\ previous' = [previous EXCEPT ![t] = 0]
  /\ mine' = [mine EXCEPT ![t] = None]
  /\ outcome' = [outcome EXCEPT ![t] = None]

\* (Slip: acquire() and release() instead of `with`.)
ReleaseUnlessFailed(t) ==
  /\ At(t, "release", "idle")
  /\ lock' = IF outcome[t] = "failed" THEN lock ELSE None
  /\ Forget(t)
  /\ UNCHANGED <<measure, settings, builds, faults>>
Release(t) ==
  /\ At(t, "release", "idle")
  /\ lock' = None
  /\ Forget(t)
  /\ UNCHANGED <<measure, settings, builds, faults>>

-----------------------------------------------------------------------------
(* The workers: model_rebuild() does nothing for a model that is complete. *)

Becomes(w, state) ==
  /\ worker' = [worker EXCEPT ![w].state = state]
  /\ UNCHANGED <<measure, settings, calls, faults>>

AlreadyBuilt(w) ==
  /\ worker[w].state = "started" /\ worker[w].model \in complete
  /\ Becomes(w, "built") /\ UNCHANGED complete
Build(w) ==
  /\ worker[w].state = "started" /\ worker[w].model \notin complete
  /\ Becomes(w, "building") /\ UNCHANGED complete

\* A build follows the relations to models it has not come through.
FramesNeeded(m) == {Frames(Len(p)) : p \in ChainsFrom(m)}
Finish(w) ==
  LET fits == \A n \in FramesNeeded(worker[w].model) : n <= limit
  IN /\ worker[w].state = "building"
     /\ Becomes(w, IF fits THEN "built" ELSE "recursion")
     /\ complete' = IF fits THEN complete \cup {worker[w].model} ELSE complete

-----------------------------------------------------------------------------
(* The rest of the program.                                                *)

ProgramRaisesLimit ==
  /\ \E l \in Limits : l > limit /\ limit' = l
  /\ UNCHANGED <<measure, stackSize, chosen, calls, builds, faults>>
\* It sets the size of its stacks while nothing is built.
ProgramSetsStack ==
  /\ lock = None
  /\ stackSize' \in Sizes /\ chosen' = stackSize'
  /\ UNCHANGED <<measure, limit, calls, builds, faults>>

Step(t) ==
  \/ Acquire(t) \/ Enough(t) \/ TooLow(t) \/ Raise(t) \/ Enlarge(t)
  \/ \E w \in Workers : StartWorker(t, w)
  \/ Join(t) \/ Restore(t) \/ Release(t)
Work(w) == AlreadyBuilt(w) \/ Build(w) \/ Finish(w)

Next ==
  \/ Measure /\ UNCHANGED <<settings, calls, builds, faults>>
  \/ \E t \in Threads : (\E m \in Models : Use(t, m)) \/ Step(t) \/ CannotStart(t)
  \/ \E w \in Workers : Work(w)
  \/ Interrupt \/ ProgramRaisesLimit \/ ProgramSetsStack

\* Threads that can run do; the lock is free again after every build, and
\* there are only so many builds.
Fairness ==
  /\ \A t \in Threads : WF_vars(Step(t))
  /\ \A w \in Workers : WF_vars(Work(w))
Spec == Init /\ [][Next]_vars /\ Fairness

-----------------------------------------------------------------------------
(* Properties.                                                             *)

TypeOK ==
  /\ limit \in Nat /\ stackSize \in Nat /\ chosen \in Nat
  /\ lock \in Threads \cup {None}
  /\ complete \subseteq Models
  /\ pc \in [Threads -> {"idle", "lock", "limit", "raise", "stack", "start", "join", "restore", "release"}]
  /\ uses \in [Threads -> Models \cup {None}]
  /\ previous \in [Threads -> Nat]
  /\ mine \in [Threads -> Workers \cup {None}]
  /\ worker \in [Workers -> [state : {"new", "started", "building", "built", "recursion"},
                               model : Models \cup {None}, stack : Nat]]
  /\ outcome \in [Threads -> {None, "built", "recursion", "failed"}]
  /\ faults \in Nat

\* A worker that builds has frames and stack for the longest chain of relations
\* from its model.
HaveRoom ==
  \A w \in Workers : worker[w].state = "building" =>
    \A n \in FramesNeeded(worker[w].model) :
      n <= limit /\ n * BytesPerLevel <= worker[w].stack

\* A use never ends in the RecursionError of ensure_built(): the model is there,
\* unless the use was interrupted or no thread could be started for it.
EndBuilt ==
  \A t \in Threads : pc[t] \in {"restore", "release"} =>
    outcome[t] = "failed" \/ (outcome[t] = "built" /\ uses[t] \in complete)

\* "the build is done off the default (small) stack -> no segfault": however
\* models are related, in whatever order threads first use them, and whatever
\* the program sets or interrupts, builds have the room they need, and succeed.
BuildsFit == HaveRoom /\ EndBuilt

\* "two concurrent builds must not race on it": while no build is prepared, new
\* threads of the program get the stack size that the program chose, also after
\* builds that failed or were interrupted.
StackSizeRestored == lock = None => stackSize = chosen

\* Making a record always comes back, with or without the model: the lock is
\* never left behind, and nobody waits for a worker that does not run.
UsesReturn == \A t \in Threads : pc[t] # "idle" ~> pc[t] = "idle"
=============================================================================
