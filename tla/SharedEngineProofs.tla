------------------------- MODULE SharedEngineProofs -------------------------
(***************************************************************************)
(* Theorems about SharedEngine, for every set of engines, keys and         *)
(* processes.  The proofs follow the usual shape: an inductive invariant,  *)
(* one step per action, and what the theorem states as a consequence.      *)
(***************************************************************************)
EXTENDS SharedEngine, FiniteSetTheorems, TLAPS

(* The variables keep their types: in particular a reference count is      *)
(* never negative, and the crash budget is respected.                      *)
THEOREM TypeCorrect == Spec => []TypeOK
<1> USE SharedEngineAssumption
<1>1. Init => TypeOK
  BY DEF Init, TypeOK, ProcState, Label, Entry, NoEntry
<1>2. TypeOK /\ [Next]_vars => TypeOK'
  <2> SUFFICES ASSUME TypeOK, [Next]_vars PROVE TypeOK'
    OBVIOUS
  <2> USE DEF TypeOK, procVars, engineVars, termVars
  <2>1. ASSUME NEW e \in Engines, ConnectStep(e) PROVE TypeOK'
    <3>1. CASE Connect(e)
      BY <3>1 DEF Connect, Goto, Label
    <3>2. CASE AttachHit(e)
      BY <3>2 DEF AttachHit, Goto, Label, Entry, Present, Acquire, make_key
    <3>3. CASE AttachStale(e)
      BY <3>3 DEF AttachStale, Goto, Label, Entry, NoEntry, make_key
    <3>4. CASE AttachMiss(e) \/ EnsureFile(e) \/ PollReady(e)
               \/ PollCancelled(e) \/ KeepPrivate(e)
      BY <3>4 DEF AttachMiss, EnsureFile, PollReady, PollCancelled,
                  KeepPrivate, Goto, Label, make_key
    <3>5. CASE Spawn(e)
      BY <3>5 DEF Spawn, Goto, Label, ProcState
    <3>6. CASE SpawnFails(e)
      BY <3>6 DEF SpawnFails, Goto, Label
    <3>7. CASE PollGivesUp(e)
      BY <3>7 DEF PollGivesUp, Terminate, Goto, Label
    <3>8. CASE RegisterFirst(e)
      BY <3>8 DEF RegisterFirst, Goto, Label, Entry, make_key
    <3>9. CASE RegisterLost(e)
      BY <3>9
         DEF RegisterLost, Terminate, Goto, Label, Entry, Present,
             Acquire, make_key
    <3> QED
      BY <2>1, <3>1, <3>2, <3>3, <3>4, <3>5, <3>6, <3>7, <3>8, <3>9
         DEF ConnectStep
  <2>2. ASSUME NEW e \in Engines, CloseStep(e) PROVE TypeOK'
    <3>1. CASE CloseShared(e)
      BY <3>1 DEF CloseShared, Goto, Label
    <3>2. CASE ReleaseKeeps(e)
      BY <3>2
         DEF ReleaseKeeps, Goto, Label, Entry, Present, CountDown,
             make_key
    <3>3. CASE ReleaseLast(e)
      BY <3>3
         DEF ReleaseLast, Terminate, Goto, Label, Entry, NoEntry,
             Present, make_key
    <3>4. CASE ClosePrivate(e)
      BY <3>4 DEF ClosePrivate, Terminate, Goto, Label
    <3>5. CASE Interrupt(e)
      BY <3>5 DEF Interrupt, Goto, Label, ProcState
    <3>6. CASE Reap(e)
      BY <3>6 DEF Reap, Finish, Goto, Label
    <3>7. CASE WaitExpires(e)
      BY <3>7 DEF WaitExpires, Finish, Goto, Label, ProcState
    <3> QED
      BY <2>2, <3>1, <3>2, <3>3, <3>4, <3>5, <3>6, <3>7 DEF CloseStep
  <2>3. ASSUME NEW p \in Procs, Exit(p) \/ Crash(p) PROVE TypeOK'
    BY <2>3 DEF Exit, Crash, ProcState
  <2>4. CASE Sweep
    BY <2>4 DEF Sweep, ProcState, Entry, NoEntry
  <2>5. CASE UNCHANGED vars
    BY <2>5 DEF vars
  <2> QED
    BY <2>1, <2>2, <2>3, <2>4, <2>5 DEF Next, Exited
<1> QED
  BY <1>1, <1>2, PTL DEF Spec

-----------------------------------------------------------------------------
(* The structure every behaviour keeps, whatever dies.                     *)

(* What each point of a call knows about its engine is kept by every step. *)
LEMMA LabelsStep ==
  ASSUME TypeOK, Labels, [Next]_vars
  PROVE  Labels'
<1> USE SharedEngineAssumption DEF TypeOK, procVars, engineVars, termVars,
             At, Goto, Labels, Connected
<1>1. ASSUME NEW e \in Engines, ConnectStep(e) PROVE Labels'
  <2>1. CASE Connect(e)
    BY <2>1 DEF Connect
  <2>2. CASE AttachHit(e)
    BY <2>2 DEF AttachHit, Present, Running, Acquire, make_key
  <2>3. CASE AttachStale(e)
    BY <2>3 DEF AttachStale, NoEntry, Present, Running, make_key
  <2>4. CASE AttachMiss(e)
    BY <2>4 DEF AttachMiss, Present, make_key
  <2>5. CASE EnsureFile(e)
    BY <2>5 DEF EnsureFile
  <2>6. CASE Spawn(e)
    BY <2>6 DEF Spawn
  <2>7. CASE SpawnFails(e)
    BY <2>7 DEF SpawnFails
  <2>8. CASE PollReady(e)
    BY <2>8 DEF PollReady, Running
  <2>9. CASE PollGivesUp(e)
    BY <2>9 DEF PollGivesUp, Terminate
  <2>10. CASE PollCancelled(e)
    BY <2>10 DEF PollCancelled
  <2>11. CASE KeepPrivate(e)
    BY <2>11 DEF KeepPrivate
  <2>12. CASE RegisterFirst(e)
    BY <2>12 DEF RegisterFirst, Present, Running, make_key
  <2>13. CASE RegisterLost(e)
    BY <2>13 DEF RegisterLost, Terminate, Present, Running, Acquire, make_key
  <2> QED
    BY <1>1, <2>1, <2>2, <2>3, <2>4, <2>5, <2>6, <2>7, <2>8, <2>9, <2>10,
       <2>11, <2>12, <2>13
       DEF ConnectStep
<1>2. ASSUME NEW e \in Engines, CloseStep(e) PROVE Labels'
  <2>1. CASE CloseShared(e)
    BY <2>1 DEF CloseShared
  <2>2. CASE ReleaseKeeps(e)
    BY <2>2 DEF ReleaseKeeps, Present, CountDown, make_key
  <2>3. CASE ReleaseLast(e)
    BY <2>3 DEF ReleaseLast, Terminate, NoEntry, Present, make_key
  <2>4. CASE ClosePrivate(e)
    BY <2>4 DEF ClosePrivate, Terminate
  <2>5. CASE Interrupt(e)
    BY <2>5 DEF Interrupt
  <2>6. CASE Reap(e)
    BY <2>6 DEF Reap, Finish, Running
  <2>7. CASE WaitExpires(e)
    BY <2>7 DEF WaitExpires, Finish, Running
  <2> QED
    BY <1>2, <2>1, <2>2, <2>3, <2>4, <2>5, <2>6, <2>7 DEF CloseStep
<1>3. ASSUME NEW p \in Procs, Exit(p) \/ Crash(p) PROVE Labels'
  BY <1>3 DEF Exit, Crash
<1>4. CASE Sweep
  BY <1>4 DEF Sweep, NoEntry
<1>5. CASE UNCHANGED vars
  BY <1>5 DEF vars
<1> QED
  BY <1>1, <1>2, <1>3, <1>4, <1>5 DEF Next, Exited

(* A process keeps having a single owner. *)
LEMMA OwnershipStep ==
  ASSUME TypeOK, Labels, Ownership, [Next]_vars
  PROVE  Ownership'
<1> USE SharedEngineAssumption DEF TypeOK, procVars, engineVars, termVars,
             At, Goto, Labels, Connected, Ownership, Present, Running
<1>1. ASSUME NEW e \in Engines, ConnectStep(e) PROVE Ownership'
  <2>1. CASE Connect(e)
    BY <2>1 DEF Connect
  <2>2. CASE AttachHit(e)
    BY <2>2 DEF AttachHit, Present, Running, Acquire, make_key
  <2>3. CASE AttachStale(e)
    BY <2>3 DEF AttachStale, NoEntry, Present, Running, make_key
  <2>4. CASE AttachMiss(e)
    BY <2>4 DEF AttachMiss, Present, make_key
  <2>5. CASE EnsureFile(e)
    BY <2>5 DEF EnsureFile
  <2>6. CASE Spawn(e)
    BY <2>6 DEF Spawn
  <2>7. CASE SpawnFails(e)
    BY <2>7 DEF SpawnFails
  <2>8. CASE PollReady(e)
    BY <2>8 DEF PollReady, Running
  <2>9. CASE PollGivesUp(e)
    BY <2>9 DEF PollGivesUp, Terminate
  <2>10. CASE PollCancelled(e)
    BY <2>10 DEF PollCancelled
  <2>11. CASE KeepPrivate(e)
    BY <2>11 DEF KeepPrivate
  <2>12. CASE RegisterFirst(e)
    BY <2>12 DEF RegisterFirst, Present, Running, make_key
  <2>13. CASE RegisterLost(e)
    BY <2>13 DEF RegisterLost, Terminate, Present, Running, Acquire, make_key
  <2> QED
    BY <1>1, <2>1, <2>2, <2>3, <2>4, <2>5, <2>6, <2>7, <2>8, <2>9, <2>10,
       <2>11, <2>12, <2>13
       DEF ConnectStep
<1>2. ASSUME NEW e \in Engines, CloseStep(e) PROVE Ownership'
  <2>1. CASE CloseShared(e)
    BY <2>1 DEF CloseShared
  <2>2. CASE ReleaseKeeps(e)
    BY <2>2 DEF ReleaseKeeps, Present, CountDown, make_key
  <2>3. CASE ReleaseLast(e)
    BY <2>3 DEF ReleaseLast, Terminate, NoEntry, Present, make_key
  <2>4. CASE ClosePrivate(e)
    BY <2>4 DEF ClosePrivate, Terminate
  <2>5. CASE Interrupt(e)
    BY <2>5 DEF Interrupt
  <2>6. CASE Reap(e)
    BY <2>6 DEF Reap, Finish, Running
  <2>7. CASE WaitExpires(e)
    BY <2>7 DEF WaitExpires, Finish, Running
  <2> QED
    BY <1>2, <2>1, <2>2, <2>3, <2>4, <2>5, <2>6, <2>7 DEF CloseStep
<1>3. ASSUME NEW p \in Procs, Exit(p) \/ Crash(p) PROVE Ownership'
  BY <1>3 DEF Exit, Crash
<1>4. CASE Sweep
  BY <1>4 DEF Sweep, NoEntry
<1>5. CASE UNCHANGED vars
  BY <1>5 DEF vars
<1> QED
  BY <1>1, <1>2, <1>3, <1>4, <1>5 DEF Next, Exited

(* A registered process leaves the registry only towards its termination. *)
LEMMA SharedIsRegisteredStep ==
  ASSUME TypeOK, Labels, Ownership, SharedIsRegistered, [Next]_vars
  PROVE  SharedIsRegistered'
<1> USE SharedEngineAssumption DEF TypeOK, procVars, engineVars, termVars,
             At, Goto, Labels, Connected, SharedIsRegistered, Present, Running
<1>1. ASSUME NEW e \in Engines, ConnectStep(e) PROVE SharedIsRegistered'
  <2>1. CASE Connect(e)
    BY <2>1 DEF Connect
  <2>2. CASE AttachHit(e)
    BY <2>2 DEF AttachHit, Present, Running, Acquire, make_key
  <2>3. CASE AttachStale(e)
    BY <2>3 DEF AttachStale, NoEntry, Present, Running, make_key
  <2>4. CASE AttachMiss(e)
    BY <2>4 DEF AttachMiss, Present, make_key
  <2>5. CASE EnsureFile(e)
    BY <2>5 DEF EnsureFile
  <2>6. CASE Spawn(e)
    BY <2>6 DEF Spawn, Ownership
  <2>7. CASE SpawnFails(e)
    BY <2>7 DEF SpawnFails
  <2>8. CASE PollReady(e)
    BY <2>8 DEF PollReady, Running
  <2>9. CASE PollGivesUp(e)
    BY <2>9 DEF PollGivesUp, Terminate
  <2>10. CASE PollCancelled(e)
    BY <2>10 DEF PollCancelled
  <2>11. CASE KeepPrivate(e)
    BY <2>11 DEF KeepPrivate
  <2>12. CASE RegisterFirst(e)
    BY <2>12 DEF RegisterFirst, Present, Running, make_key
  <2>13. CASE RegisterLost(e)
    BY <2>13 DEF RegisterLost, Terminate, Present, Running, Acquire, make_key
  <2> QED
    BY <1>1, <2>1, <2>2, <2>3, <2>4, <2>5, <2>6, <2>7, <2>8, <2>9, <2>10,
       <2>11, <2>12, <2>13
       DEF ConnectStep
<1>2. ASSUME NEW e \in Engines, CloseStep(e) PROVE SharedIsRegistered'
  <2>1. CASE CloseShared(e)
    BY <2>1 DEF CloseShared
  <2>2. CASE ReleaseKeeps(e)
    BY <2>2 DEF ReleaseKeeps, Present, CountDown, make_key
  <2>3. CASE ReleaseLast(e)
    BY <2>3 DEF ReleaseLast, Terminate, NoEntry, Present, make_key
  <2>4. CASE ClosePrivate(e)
    BY <2>4 DEF ClosePrivate, Terminate
  <2>5. CASE Interrupt(e)
    BY <2>5 DEF Interrupt
  <2>6. CASE Reap(e)
    BY <2>6 DEF Reap, Finish, Running
  <2>7. CASE WaitExpires(e)
    BY <2>7 DEF WaitExpires, Finish, Running
  <2> QED
    BY <1>2, <2>1, <2>2, <2>3, <2>4, <2>5, <2>6, <2>7 DEF CloseStep
<1>3. ASSUME NEW p \in Procs, Exit(p) \/ Crash(p) PROVE SharedIsRegistered'
  BY <1>3 DEF Exit, Crash
<1>4. CASE Sweep
  BY <1>4 DEF Sweep, NoEntry
<1>5. CASE UNCHANGED vars
  BY <1>5 DEF vars
<1> QED
  BY <1>1, <1>2, <1>3, <1>4, <1>5 DEF Next, Exited

(* No step drops the last reference to a running process. *)
LEMMA NoOrphanStep ==
  ASSUME TypeOK, Labels, Ownership, SharedIsRegistered, NoOrphan, [Next]_vars
  PROVE  NoOrphan'
<1> USE SharedEngineAssumption DEF TypeOK, procVars, engineVars, termVars,
             At, Goto, Labels, Connected, SharedIsRegistered, NoOrphan,
             Present, Running
<1>1. ASSUME NEW e \in Engines, ConnectStep(e) PROVE NoOrphan'
  <2>1. CASE Connect(e)
    BY <2>1 DEF Connect
  <2>2. CASE AttachHit(e)
    BY <2>2 DEF AttachHit, Present, Running, Acquire, make_key
  <2>3. CASE AttachStale(e)
    BY <2>3 DEF AttachStale, NoEntry, Present, Running, make_key
  <2>4. CASE AttachMiss(e)
    BY <2>4 DEF AttachMiss, Present, make_key
  <2>5. CASE EnsureFile(e)
    BY <2>5 DEF EnsureFile
  <2>6. CASE Spawn(e)
    BY <2>6 DEF Spawn
  <2>7. CASE SpawnFails(e)
    BY <2>7 DEF SpawnFails
  <2>8. CASE PollReady(e)
    BY <2>8 DEF PollReady, Running
  <2>9. CASE PollGivesUp(e)
    BY <2>9 DEF PollGivesUp, Terminate
  <2>10. CASE PollCancelled(e)
    BY <2>10 DEF PollCancelled
  <2>11. CASE KeepPrivate(e)
    BY <2>11 DEF KeepPrivate
  <2>12. CASE RegisterFirst(e)
    BY <2>12 DEF RegisterFirst, Present, Running, make_key
  <2>13. CASE RegisterLost(e)
    BY <2>13 DEF RegisterLost, Terminate, Present, Running, Acquire, make_key
  <2> QED
    BY <1>1, <2>1, <2>2, <2>3, <2>4, <2>5, <2>6, <2>7, <2>8, <2>9, <2>10,
       <2>11, <2>12, <2>13
       DEF ConnectStep
<1>2. ASSUME NEW e \in Engines, CloseStep(e) PROVE NoOrphan'
  <2>1. CASE CloseShared(e)
    BY <2>1 DEF CloseShared
  <2>2. CASE ReleaseKeeps(e)
    BY <2>2 DEF ReleaseKeeps, Present, CountDown, make_key
  <2>3. CASE ReleaseLast(e)
    BY <2>3 DEF ReleaseLast, Terminate, NoEntry, Present, make_key
  <2>4. CASE ClosePrivate(e)
    BY <2>4 DEF ClosePrivate, Terminate
  <2>5. CASE Interrupt(e)
    BY <2>5 DEF Interrupt
  <2>6. CASE Reap(e)
    BY <2>6 DEF Reap, Finish, Running
  <2>7. CASE WaitExpires(e)
    BY <2>7 DEF WaitExpires, Finish, Running
  <2> QED
    BY <1>2, <2>1, <2>2, <2>3, <2>4, <2>5, <2>6, <2>7 DEF CloseStep
<1>3. ASSUME NEW p \in Procs, Exit(p) \/ Crash(p) PROVE NoOrphan'
  BY <1>3 DEF Exit, Crash
<1>4. CASE Sweep
  BY <1>4 DEF Sweep, NoEntry
<1>5. CASE UNCHANGED vars
  BY <1>5 DEF vars
<1> QED
  BY <1>1, <1>2, <1>3, <1>4, <1>5 DEF Next, Exited

-----------------------------------------------------------------------------
(* The reference count.                                                    *)

\* Steps of an engine that do not enter the registry.
Quiet(e) ==
  \/ Connect(e) \/ AttachMiss(e) \/ EnsureFile(e) \/ Spawn(e) \/ SpawnFails(e)
  \/ PollReady(e) \/ PollGivesUp(e) \/ PollCancelled(e) \/ KeepPrivate(e)
  \/ CloseShared(e) \/ ClosePrivate(e) \/ Interrupt(e) \/ Reap(e)
  \/ WaitExpires(e)

(* Engine e starts, or stops, holding a reference under its key.           *)
Gains(e) ==
  \A k \in Keys :
    /\ e \notin Holders(k)
    /\ Holders(k)' = IF k = KeyOf[e] THEN Holders(k) \cup {e} ELSE Holders(k)

Drops(e) ==
  \A k \in Keys :
    /\ k = KeyOf[e] => e \in Holders(k)
    /\ Holders(k)' = IF k = KeyOf[e] THEN Holders(k) \ {e} ELSE Holders(k)

(* The holders of a key are finitely many, and counted by a number.        *)
LEMMA HoldersFinite ==
  ASSUME NEW k \in Keys
  PROVE  /\ IsFiniteSet(Holders(k))
         /\ Cardinality(Holders(k)) \in Nat
         /\ Cardinality(Holders(k)) = 0 <=> Holders(k) = {}
<1>1. Holders(k) \in SUBSET Engines
  BY DEF Holders
<1>2. IsFiniteSet(Holders(k))
  BY <1>1, FS_Subset, SharedEngineAssumption
<1> QED
  BY <1>2, FS_CardinalityType, FS_EmptySet

(* A step outside the registry leaves the holders of every key alone: an   *)
(* engine that forgets its key still holds its reference until release().  *)
LEMMA QuietHolders ==
  ASSUME TypeOK, Labels, NEW e \in Engines, Quiet(e)
  PROVE  /\ entries' = entries
         /\ \A k \in Keys : Holders(k)' = Holders(k)
<1> USE SharedEngineAssumption
    DEF TypeOK, Labels, Connected, procVars, engineVars, termVars, At, Goto,
        Holders
<1>1. CASE Connect(e) \/ AttachMiss(e) \/ EnsureFile(e) \/ SpawnFails(e)
  BY <1>1 DEF Connect, AttachMiss, EnsureFile, SpawnFails, make_key
<1>2. CASE Spawn(e) \/ PollReady(e) \/ PollCancelled(e) \/ KeepPrivate(e)
  BY <1>2 DEF Spawn, PollReady, PollCancelled, KeepPrivate
<1>3. CASE PollGivesUp(e) \/ ClosePrivate(e)
  BY <1>3 DEF PollGivesUp, ClosePrivate, Terminate
<1>4. CASE CloseShared(e)
  BY <1>4 DEF CloseShared
<1>5. CASE Interrupt(e) \/ Reap(e) \/ WaitExpires(e)
  BY <1>5 DEF Interrupt, Reap, WaitExpires, Finish
<1> QED
  BY <1>1, <1>2, <1>3, <1>4, <1>5 DEF Quiet

(* AttachStale enters the registry but changes no holder.                  *)
LEMMA StaleHolders ==
  ASSUME TypeOK, Labels, NEW e \in Engines, AttachStale(e)
  PROVE  \A k \in Keys : Holders(k)' = Holders(k)
BY SharedEngineAssumption
   DEF TypeOK, Labels, Connected, engineVars, At, Goto, Holders, AttachStale,
       make_key

(* attach() and register() give the engine one reference it did not have.  *)
LEMMA ConnectGains ==
  ASSUME TypeOK, Labels, NEW e \in Engines,
         AttachHit(e) \/ RegisterFirst(e) \/ RegisterLost(e)
  PROVE  Gains(e)
BY SharedEngineAssumption
   DEF TypeOK, Labels, Connected, At, Goto, Holders, Gains, Terminate,
       AttachHit, RegisterFirst, RegisterLost, Acquire, make_key

(* release() takes one away, even if the entry is gone.                    *)
LEMMA ReleaseDrops ==
  ASSUME TypeOK, Labels, NEW e \in Engines, ReleaseKeeps(e) \/ ReleaseLast(e)
  PROVE  Drops(e)
BY SharedEngineAssumption
   DEF TypeOK, Labels, Connected, engineVars, At, Goto, Holders, Drops,
       Terminate, ReleaseKeeps, ReleaseLast, CountDown, make_key

(* What gaining and dropping do to the number of holders.                  *)
LEMMA GainsCount ==
  ASSUME NEW e \in Engines, Gains(e), NEW k \in Keys
  PROVE  Cardinality(Holders(k)') =
           IF k = KeyOf[e] THEN Cardinality(Holders(k)) + 1
                           ELSE Cardinality(Holders(k))
BY HoldersFinite, FS_AddElement DEF Gains

LEMMA DropsCount ==
  ASSUME NEW e \in Engines, Drops(e), NEW k \in Keys
  PROVE  Cardinality(Holders(k)') =
           IF k = KeyOf[e] THEN Cardinality(Holders(k)) - 1
                           ELSE Cardinality(Holders(k))
BY HoldersFinite, FS_RemoveElement DEF Drops

(* A count stays between one and the number of holders.                    *)
LEMMA RefcountBoundedStep ==
  ASSUME TypeOK, Labels, RefcountBounded, [Next]_vars
  PROVE  RefcountBounded'
<1> USE SharedEngineAssumption DEF RefcountBounded, Present, Entry
<1> DEFINE Count(k) == Cardinality(Holders(k))
<1>0. \A k \in Keys : Count(k) \in Nat /\ entries[k].refcount \in Nat
  BY HoldersFinite DEF TypeOK
<1>1. ASSUME NEW e \in Engines, Quiet(e) PROVE RefcountBounded'
  BY <1>1, QuietHolders
<1>2. ASSUME NEW e \in Engines, AttachStale(e) PROVE RefcountBounded'
  BY <1>2, StaleHolders DEF AttachStale, NoEntry, TypeOK, make_key
<1>3. ASSUME NEW e \in Engines,
             AttachHit(e) \/ RegisterFirst(e) \/ RegisterLost(e)
      PROVE  RefcountBounded'
  <2>1. \A k \in Keys :
          Count(k)' = IF k = KeyOf[e] THEN Count(k) + 1 ELSE Count(k)
    BY <1>3, ConnectGains, GainsCount
  <2>2. CASE AttachHit(e)
    BY <1>0, <2>1, <2>2 DEF AttachHit, TypeOK, Acquire, make_key
  <2>3. CASE RegisterFirst(e)
    BY <1>0, <2>1, <2>3 DEF RegisterFirst, TypeOK, make_key
  <2>4. CASE RegisterLost(e)
    BY <1>0, <2>1, <2>4 DEF RegisterLost, TypeOK, Acquire, make_key
  <2> QED
    BY <1>3, <2>2, <2>3, <2>4
<1>4. ASSUME NEW e \in Engines, ReleaseKeeps(e) \/ ReleaseLast(e)
      PROVE  RefcountBounded'
  <2>1. \A k \in Keys :
          Count(k)' = IF k = KeyOf[e] THEN Count(k) - 1 ELSE Count(k)
    BY <1>4, ReleaseDrops, DropsCount
  <2> QED
    BY <1>0, <1>4, <2>1
       DEF ReleaseKeeps, ReleaseLast, NoEntry, TypeOK, CountDown,
           make_key
<1>5. ASSUME NEW p \in Procs, Exit(p) \/ Crash(p) PROVE RefcountBounded'
  <2>1. entries' = entries /\ \A k \in Keys : Holders(k)' = Holders(k)
    BY <1>5 DEF Exit, Crash, Holders, engineVars, At
  <2> QED
    BY <2>1
<1>6. CASE Sweep
  BY <1>6 DEF Sweep, NoEntry
<1>7. CASE UNCHANGED vars
  <2>1. entries' = entries /\ \A k \in Keys : Holders(k)' = Holders(k)
    BY <1>7 DEF vars, Holders, At
  <2> QED
    BY <2>1
<1> QED
  BY <1>1, <1>2, <1>3, <1>4, <1>5, <1>6, <1>7
     DEF Next, Exited, ConnectStep, CloseStep, Quiet

-----------------------------------------------------------------------------
(* What holds however many processes die.                                  *)

Structure ==
  TypeOK /\ Labels /\ Ownership /\ SharedIsRegistered /\ NoOrphan
    /\ RefcountBounded

(* The structure is inductive.                                             *)
THEOREM StructureCorrect == Spec => []Structure
<1>1. Init => Labels /\ Ownership /\ SharedIsRegistered /\ NoOrphan
                /\ RefcountBounded
  BY SharedEngineAssumption
     DEF Init, Labels, Ownership, SharedIsRegistered, NoOrphan,
         RefcountBounded, Connected, Present, Running, NoEntry
<1>2. TypeOK /\ Labels /\ Ownership /\ SharedIsRegistered /\ NoOrphan
        /\ RefcountBounded /\ [Next]_vars
      => Labels' /\ Ownership' /\ SharedIsRegistered' /\ NoOrphan'
           /\ RefcountBounded'
  BY LabelsStep, OwnershipStep, SharedIsRegisteredStep, NoOrphanStep,
     RefcountBoundedStep
<1> QED
  BY <1>1, <1>2, TypeCorrect, PTL DEF Spec, Structure

(* A process has one owner at a time, whatever dies: two threads never     *)
(* terminate, or register, one process.                                    *)
THEOREM OwnershipCorrect == Spec => []Ownership
BY StructureCorrect, PTL DEF Structure

(* No running process is ever lost: a lost spawn race, a failed connect, a *)
(* cancelled connect and a crashed engine all leave somebody to kill it.   *)
THEOREM NoOrphanCorrect == Spec => []NoOrphan
BY StructureCorrect, PTL DEF Structure

(* An entry is never stranded with a reference nobody will drop.           *)
THEOREM RefcountBoundedCorrect == Spec => []RefcountBounded
BY StructureCorrect, PTL DEF Structure

(* Once every engine is closed no process runs and the registry is empty.  *)
THEOREM NothingAtRestCorrect == Spec => []NothingAtRest
<1>1. Structure => NothingAtRest
  <2> SUFFICES ASSUME Structure, AllClosed
               PROVE  /\ \A k \in Keys : ~Present(k)
                      /\ \A p \in Procs : ~Running(p)
    BY DEF NothingAtRest
  <2>1. ASSUME NEW k \in Keys PROVE ~Present(k)
    <3>1. Holders(k) = {}
      BY SharedEngineAssumption DEF AllClosed, Holders, Connected, At
    <3>2. Cardinality(Holders(k)) = 0
      BY <3>1, FS_EmptySet
    <3> QED
      BY <3>2 DEF Structure, RefcountBounded
  <2>2. \A e \in Engines : process[e] = NoProc /\ doomed[e] = NoProc
    BY DEF AllClosed, Connected, At, Structure, Labels
  <2> QED
    BY <2>1, <2>2, SharedEngineAssumption DEF Structure, NoOrphan, Present
<1> QED
  BY <1>1, StructureCorrect, PTL

-----------------------------------------------------------------------------
(* What holds while no query engine dies on its own.  (With MaxCrashes > 0 *)
(* TLC refutes both: a reference to a dead process is released against the *)
(* entry of its successor.)                                                *)

(* A registered process runs, and so does one between spawn and register.  *)
Healthy ==
  /\ \A k \in Keys : Present(k) => proc[entries[k].proc] = "live"
  /\ \A e \in Engines :
       pc[e] \in {"poll", "register"} => proc[process[e]] = "live"

(* Nothing that is registered, or about to be, stops running. *)
LEMMA HealthyStep ==
  ASSUME crashes' = 0, TypeOK, Labels, Ownership, Healthy, [Next]_vars
  PROVE  Healthy'
<1> USE SharedEngineAssumption DEF TypeOK, procVars, engineVars, termVars,
             At, Goto, Labels, Connected, Ownership, Healthy, Present, Running
<1>1. ASSUME NEW e \in Engines, ConnectStep(e) PROVE Healthy'
  <2>1. CASE Connect(e)
    BY <2>1 DEF Connect
  <2>2. CASE AttachHit(e)
    BY <2>2 DEF AttachHit, Present, Running, Acquire, make_key
  <2>3. CASE AttachStale(e)
    BY <2>3 DEF AttachStale, NoEntry, Present, Running, make_key
  <2>4. CASE AttachMiss(e)
    BY <2>4 DEF AttachMiss, Present, make_key
  <2>5. CASE EnsureFile(e)
    BY <2>5 DEF EnsureFile
  <2>6. CASE Spawn(e)
    BY <2>6 DEF Spawn
  <2>7. CASE SpawnFails(e)
    BY <2>7 DEF SpawnFails
  <2>8. CASE PollReady(e)
    BY <2>8 DEF PollReady, Running
  <2>9. CASE PollGivesUp(e)
    BY <2>9 DEF PollGivesUp, Terminate
  <2>10. CASE PollCancelled(e)
    BY <2>10 DEF PollCancelled
  <2>11. CASE KeepPrivate(e)
    BY <2>11 DEF KeepPrivate
  <2>12. CASE RegisterFirst(e)
    BY <2>12 DEF RegisterFirst, Present, Running, make_key
  <2>13. CASE RegisterLost(e)
    BY <2>13 DEF RegisterLost, Terminate, Present, Running, Acquire, make_key
  <2> QED
    BY <1>1, <2>1, <2>2, <2>3, <2>4, <2>5, <2>6, <2>7, <2>8, <2>9, <2>10,
       <2>11, <2>12, <2>13
       DEF ConnectStep
<1>2. ASSUME NEW e \in Engines, CloseStep(e) PROVE Healthy'
  <2>1. CASE CloseShared(e)
    BY <2>1 DEF CloseShared
  <2>2. CASE ReleaseKeeps(e)
    BY <2>2 DEF ReleaseKeeps, Present, CountDown, make_key
  <2>3. CASE ReleaseLast(e)
    BY <2>3 DEF ReleaseLast, Terminate, NoEntry, Present, make_key
  <2>4. CASE ClosePrivate(e)
    BY <2>4 DEF ClosePrivate, Terminate
  <2>5. CASE Interrupt(e)
    BY <2>5 DEF Interrupt
  <2>6. CASE Reap(e)
    BY <2>6 DEF Reap, Finish, Running
  <2>7. CASE WaitExpires(e)
    BY <2>7 DEF WaitExpires, Finish, Running
  <2> QED
    BY <1>2, <2>1, <2>2, <2>3, <2>4, <2>5, <2>6, <2>7 DEF CloseStep
<1>3. ASSUME NEW p \in Procs, Exit(p) \/ Crash(p) PROVE Healthy'
  BY <1>3 DEF Exit, Crash, Entry
<1>4. CASE Sweep
  BY <1>4 DEF Sweep, NoEntry
<1>5. CASE UNCHANGED vars
  BY <1>5 DEF vars
<1> QED
  BY <1>1, <1>2, <1>3, <1>4, <1>5 DEF Next, Exited

(* The reference count stays exact: one step per way the registry changes. *)
LEMMA RefcountExactStep ==
  ASSUME TypeOK, Labels, Ownership, Healthy, RefcountExact, [Next]_vars
  PROVE  RefcountExact'
<1> USE SharedEngineAssumption DEF TypeOK, Entry, Present
<1> DEFINE Count(k) == Cardinality(Holders(k))
<1>0. \A k \in Keys :
        /\ Count(k) \in Nat /\ entries[k].refcount \in Nat
        /\ Count(k) = 0 <=> Holders(k) = {}
        /\ Present(k) => Running(entries[k].proc)
  BY HoldersFinite DEF Healthy, Running
<1>1. ASSUME NEW e \in Engines, Quiet(e) PROVE RefcountExact'
  <2>1. entries' = entries /\ \A k \in Keys : Holders(k)' = Holders(k)
    BY <1>1, QuietHolders
  <2>2. \A f \in Engines :
          shared_key'[f] # NoKey =>
            shared_key'[f] = shared_key[f] /\ url'[f] = url[f]
    BY <1>1
       DEF Quiet, Connect, AttachMiss, EnsureFile, Spawn, SpawnFails,
           PollReady, PollGivesUp, PollCancelled, KeepPrivate, CloseShared,
           ClosePrivate, Interrupt, Reap, WaitExpires, Finish, engineVars,
           At, Labels, Connected, make_key
  <2> QED
    BY <2>1, <2>2 DEF RefcountExact
<1>2. ASSUME NEW e \in Engines, AttachStale(e) PROVE FALSE
  BY <1>0, <1>2 DEF AttachStale, make_key
<1>3. ASSUME NEW e \in Engines,
             AttachHit(e) \/ RegisterFirst(e) \/ RegisterLost(e)
      PROVE  RefcountExact'
  <2>1. \A k \in Keys :
          Count(k)' = IF k = KeyOf[e] THEN Count(k) + 1 ELSE Count(k)
    BY <1>3, ConnectGains, GainsCount
  <2>2. Gains(e)
    BY <1>3, ConnectGains
  <2>3. \A f \in Engines : f # e =>
          shared_key'[f] = shared_key[f] /\ url'[f] = url[f]
    BY <1>3 DEF AttachHit, RegisterFirst, RegisterLost, Acquire, make_key
  <2>4. CASE AttachHit(e)
    BY <1>0, <2>1, <2>2, <2>3, <2>4
       DEF AttachHit, Gains, RefcountExact, Acquire, make_key
  <2>5. CASE RegisterFirst(e)
    <3>1. ~Present(KeyOf[e]) /\ Count(KeyOf[e]) = 0
      BY <1>0, <2>5 DEF RegisterFirst, RefcountExact, make_key
    <3>2. process[e] # NoProc /\ url[e] = process[e]
      BY <2>5 DEF RegisterFirst, At, Labels, make_key
    <3>3. \A f \in Engines : shared_key[f] # KeyOf[e]
      BY <3>1, <1>0 DEF Holders
    <3> QED
      BY <1>0, <2>1, <2>2, <2>3, <2>5, <3>1, <3>2, <3>3
         DEF RegisterFirst, Gains, RefcountExact, make_key
  <2>6. CASE RegisterLost(e)
    BY <1>0, <2>1, <2>2, <2>3, <2>6
       DEF RegisterLost, Gains, RefcountExact, Acquire, make_key
  <2> QED
    BY <1>3, <2>4, <2>5, <2>6
<1>4. ASSUME NEW e \in Engines, ReleaseKeeps(e) \/ ReleaseLast(e)
      PROVE  RefcountExact'
  <2>1. \A k \in Keys :
          Count(k)' = IF k = KeyOf[e] THEN Count(k) - 1 ELSE Count(k)
    BY <1>4, ReleaseDrops, DropsCount
  <2>2. Drops(e)
    BY <1>4, ReleaseDrops
  <2>3. url' = url /\ shared_key' = shared_key
    BY <1>4 DEF ReleaseKeeps, ReleaseLast, engineVars, CountDown, make_key
  <2>4. ASSUME NEW k \in Keys
        PROVE  Holders(k)' = {} <=> Cardinality(Holders(k)') = 0
    <3>1. IsFiniteSet(Holders(k)) /\ IsFiniteSet(Holders(k) \ {e})
      BY HoldersFinite, FS_RemoveElement
    <3>2. IsFiniteSet(Holders(k)')
      BY <2>2, <3>1 DEF Drops
    <3> QED
      BY <3>2, FS_EmptySet
  <2>5. /\ KeyOf[e] \in Keys /\ e \in Holders(KeyOf[e])
        /\ Present(KeyOf[e]) /\ entries[KeyOf[e]].refcount = Count(KeyOf[e])
    BY <2>2 DEF Drops, RefcountExact
  <2>6. CASE ReleaseKeeps(e)
    <3>1. entries[KeyOf[e]].refcount > 1 /\ Holders(KeyOf[e])' # {}
      BY <1>0, <2>1, <2>4, <2>5, <2>6 DEF ReleaseKeeps, CountDown, make_key
    <3> QED
      BY <1>0, <2>1, <2>2, <2>3, <2>5, <2>6, <3>1
         DEF ReleaseKeeps, Drops, RefcountExact, CountDown, make_key
  <2>7. CASE ReleaseLast(e)
    <3>3. entries[KeyOf[e]].refcount =< 1
      BY <2>7 DEF ReleaseLast, make_key
    <3>4. Count(KeyOf[e]) = 1
      <4>1. Count(KeyOf[e]) \in Nat /\ Count(KeyOf[e]) # 0
        BY <1>0, <2>5
      <4>2. Count(KeyOf[e]) =< 1
        BY <2>5, <3>3
      <4>3. \A n \in Nat : n # 0 /\ n =< 1 => n = 1
        OBVIOUS
      <4> QED
        BY <4>1, <4>2, <4>3
    <3>5. Cardinality(Holders(KeyOf[e])') = 0
      BY <2>1, <2>5, <3>4
    <3>1. Holders(KeyOf[e])' = {}
      BY <2>4, <2>5, <3>5
    <3>2. \A f \in Engines : shared_key'[f] # KeyOf[e]
      BY <3>1 DEF Holders
    <3> QED
      BY <1>0, <2>1, <2>2, <2>3, <2>4, <2>7, <3>1, <3>2
         DEF ReleaseLast, NoEntry, Drops, RefcountExact, make_key
  <2> QED
    BY <1>4, <2>6, <2>7
<1>5. ASSUME NEW p \in Procs, Exit(p) \/ Crash(p) PROVE RefcountExact'
  <2>1. entries' = entries /\ url' = url /\ shared_key' = shared_key
          /\ \A k \in Keys : Holders(k)' = Holders(k)
    BY <1>5 DEF Exit, Crash, Holders, engineVars, At
  <2> QED
    BY <2>1 DEF RefcountExact
<1>6. CASE Sweep
  <2>1. \A k \in Keys : Holders(k)' = {}
    BY <1>6 DEF Sweep, Holders, Connected, At, engineVars
  <2>2. \A f \in Engines : shared_key'[f] = NoKey
    BY <1>6 DEF Sweep, Connected, engineVars
  <2> QED
    BY <1>6, <2>1, <2>2 DEF Sweep, NoEntry, RefcountExact
<1>7. CASE UNCHANGED vars
  <2>1. entries' = entries /\ url' = url /\ shared_key' = shared_key
          /\ \A k \in Keys : Holders(k)' = Holders(k)
    BY <1>7 DEF vars, Holders, At
  <2> QED
    BY <2>1 DEF RefcountExact
<1> QED
  BY <1>1, <1>2, <1>3, <1>4, <1>5, <1>6, <1>7
     DEF Next, Exited, ConnectStep, CloseStep, Quiet

(* Crashes are counted, and the count never goes down.                     *)
LEMMA CrashesGrow ==
  ASSUME TypeOK, [Next]_vars
  PROVE  /\ crashes \in Nat /\ crashes' \in Nat
         /\ crashes' = 0 => crashes = 0
<1> USE SharedEngineAssumption
    DEF TypeOK, procVars, engineVars, termVars
<1>1. crashes \in Nat
  OBVIOUS
<1>2. ASSUME NEW e \in Engines, ConnectStep(e) PROVE crashes' = crashes
  BY <1>2
     DEF ConnectStep, Connect, AttachHit, AttachStale, AttachMiss, EnsureFile,
         Spawn, SpawnFails, PollReady, PollGivesUp, PollCancelled, KeepPrivate,
         RegisterFirst, RegisterLost
<1>3. ASSUME NEW e \in Engines, CloseStep(e) PROVE crashes' = crashes
  BY <1>3
     DEF CloseStep, CloseShared, ReleaseKeeps, ReleaseLast, ClosePrivate,
         Interrupt, Reap, WaitExpires, Finish
<1>4. ASSUME NEW p \in Procs, Exit(p) PROVE crashes' = crashes
  BY <1>4 DEF Exit
<1>5. ASSUME NEW p \in Procs, Crash(p) PROVE crashes' = crashes + 1
  BY <1>5 DEF Crash
<1>6. CASE Sweep \/ UNCHANGED vars
  BY <1>6 DEF Sweep, vars
<1> QED
  BY <1>1, <1>2, <1>3, <1>4, <1>5, <1>6 DEF Next, Exited

(* What holds until a query engine dies on its own: counts are exact, and  *)
(* what is registered, or about to be, runs.                               *)
UntilCrash == crashes = 0 => Healthy /\ RefcountExact

LEMMA UntilCrashCorrect == Spec => []UntilCrash
<1>1. Init => UntilCrash
  <2> SUFFICES ASSUME Init PROVE Healthy /\ RefcountExact
    BY DEF UntilCrash
  <2>1. \A k \in Keys : Holders(k) = {} /\ ~Present(k)
    BY SharedEngineAssumption DEF Init, Holders, At, Present, NoEntry
  <2>2. Healthy
    BY <2>1, SharedEngineAssumption DEF Init, Healthy
  <2>3. RefcountExact
    BY <2>1, SharedEngineAssumption DEF Init, RefcountExact
  <2> QED
    BY <2>2, <2>3
<1>2. Structure /\ UntilCrash /\ [Next]_vars => UntilCrash'
  <2> SUFFICES ASSUME Structure, UntilCrash, [Next]_vars, crashes' = 0
               PROVE  Healthy' /\ RefcountExact'
    BY DEF UntilCrash
  <2>1. Healthy /\ RefcountExact
    BY CrashesGrow DEF Structure, UntilCrash
  <2> QED
    BY <2>1, HealthyStep, RefcountExactStep DEF Structure
<1> QED
  BY <1>1, <1>2, StructureCorrect, PTL DEF Spec

(* An entry's refcount is the number of engines that hold a reference, and *)
(* its process the one they all talk to, until a process dies on its own.  *)
THEOREM RefcountExactCorrect == Spec => []RefcountExactUntilCrash
<1>1. UntilCrash => RefcountExactUntilCrash
  BY DEF UntilCrash, RefcountExactUntilCrash
<1> QED
  BY <1>1, UntilCrashCorrect, PTL

(* "killed when the last user disconnects": until a process dies on its    *)
(* own, nobody terminates the one a connected engine is attached to.       *)
THEOREM KilledAfterLastUserCorrect == Spec => []KilledAfterLastUserUntilCrash
<1>1. Structure /\ UntilCrash => KilledAfterLastUserUntilCrash
  <2> SUFFICES ASSUME Structure, RefcountExact,
                      NEW e \in Engines, NEW f \in Engines,
                      doomed[f] # NoProc, shared_key[e] # NoKey
               PROVE  url[e] # doomed[f]
    BY DEF KilledAfterLastUserUntilCrash, KilledAfterLastUser, UntilCrash
  <2>1. shared_key[e] = KeyOf[e] /\ KeyOf[e] \in Keys /\ e \in Holders(KeyOf[e])
    BY SharedEngineAssumption DEF Structure, Labels, Holders
  <2>2. Present(KeyOf[e]) /\ url[e] = entries[KeyOf[e]].proc
    BY <2>1 DEF RefcountExact
  <2> QED
    BY <2>1, <2>2 DEF Structure, Ownership
<1> QED
  BY <1>1, UntilCrashCorrect, StructureCorrect, PTL

-----------------------------------------------------------------------------
(* Sharing is only between users of one datasource.                        *)

(* Processes serve the key they were spawned with.                         *)
BuiltForKey ==
  /\ \A e \in Engines :
       /\ process[e] # NoProc => builtFor[process[e]] = KeyOf[e]
       /\ url[e] # NoProc => proc[url[e]] # "unborn"
  /\ \A k \in Keys : Present(k) => builtFor[entries[k].proc] = k
  /\ SameDatasource

(* Every step keeps processes with the key they were spawned for. *)
LEMMA BuiltForKeyStep ==
  ASSUME TypeOK, Labels, Ownership, BuiltForKey, [Next]_vars
  PROVE  BuiltForKey'
<1> USE SharedEngineAssumption DEF TypeOK, procVars, engineVars, termVars,
             At, Goto, Entry, Labels, Connected, BuiltForKey, SameDatasource,
             Ownership, Present, Running
<1>1. ASSUME NEW e \in Engines, ConnectStep(e) PROVE BuiltForKey'
  <2>1. CASE Connect(e)
    BY <2>1 DEF Connect
  <2>2. CASE AttachHit(e)
    BY <2>2 DEF AttachHit, Present, Running, Acquire, make_key
  <2>3. CASE AttachStale(e)
    BY <2>3 DEF AttachStale, NoEntry, Present, Running, make_key
  <2>4. CASE AttachMiss(e)
    BY <2>4 DEF AttachMiss, Present, make_key
  <2>5. CASE EnsureFile(e)
    BY <2>5 DEF EnsureFile
  <2>6. CASE Spawn(e)
    BY <2>6 DEF Spawn
  <2>7. CASE SpawnFails(e)
    BY <2>7 DEF SpawnFails
  <2>8. CASE PollReady(e)
    BY <2>8 DEF PollReady, Running
  <2>9. CASE PollGivesUp(e)
    BY <2>9 DEF PollGivesUp, Terminate
  <2>10. CASE PollCancelled(e)
    BY <2>10 DEF PollCancelled
  <2>11. CASE KeepPrivate(e)
    BY <2>11 DEF KeepPrivate
  <2>12. CASE RegisterFirst(e)
    BY <2>12 DEF RegisterFirst, Present, Running, make_key
  <2>13. CASE RegisterLost(e)
    BY <2>13 DEF RegisterLost, Terminate, Present, Running, Acquire, make_key
  <2> QED
    BY <1>1, <2>1, <2>2, <2>3, <2>4, <2>5, <2>6, <2>7, <2>8, <2>9, <2>10,
       <2>11, <2>12, <2>13
       DEF ConnectStep
<1>2. ASSUME NEW e \in Engines, CloseStep(e) PROVE BuiltForKey'
  <2>1. CASE CloseShared(e)
    BY <2>1 DEF CloseShared
  <2>2. CASE ReleaseKeeps(e)
    BY <2>2 DEF ReleaseKeeps, Present, CountDown, make_key
  <2>3. CASE ReleaseLast(e)
    BY <2>3 DEF ReleaseLast, Terminate, NoEntry, Present, make_key
  <2>4. CASE ClosePrivate(e)
    BY <2>4 DEF ClosePrivate, Terminate
  <2>5. CASE Interrupt(e)
    BY <2>5 DEF Interrupt
  <2>6. CASE Reap(e)
    BY <2>6 DEF Reap, Finish, Running
  <2>7. CASE WaitExpires(e)
    BY <2>7 DEF WaitExpires, Finish, Running
  <2> QED
    BY <1>2, <2>1, <2>2, <2>3, <2>4, <2>5, <2>6, <2>7 DEF CloseStep
<1>3. ASSUME NEW p \in Procs, Exit(p) \/ Crash(p) PROVE BuiltForKey'
  BY <1>3 DEF Exit, Crash
<1>4. CASE Sweep
  BY <1>4 DEF Sweep, NoEntry
<1>5. CASE UNCHANGED vars
  BY <1>5 DEF vars
<1> QED
  BY <1>1, <1>2, <1>3, <1>4, <1>5 DEF Next, Exited

(* "both clients must resolve the same datasource (the key guarantees      *)
(* this)": a connected engine talks to a process spawned with its own      *)
(* schema and datasources, whatever was attached, lost or respawned.       *)
THEOREM SameDatasourceCorrect == Spec => []SameDatasource
<1>1. Init => BuiltForKey
  BY SharedEngineAssumption
     DEF Init, BuiltForKey, SameDatasource, Present, NoEntry
<1>2. Structure /\ BuiltForKey /\ [Next]_vars => BuiltForKey'
  BY BuiltForKeyStep DEF Structure
<1>3. BuiltForKey => SameDatasource
  BY DEF BuiltForKey
<1> QED
  BY <1>1, <1>2, <1>3, StructureCorrect, PTL DEF Spec

-----------------------------------------------------------------------------
(* Engines that do not share.                                              *)

(* An engine that does not share never holds a key; its URL is its own     *)
(* process, and no other engine's.                                         *)
Apart ==
  /\ \A e \in Engines \ Sharing :
       /\ shared_key[e] = NoKey
       /\ process[e] # NoProc =>
            /\ url[e] = process[e]
            /\ \A f \in Engines : f # e => url[f] # process[e]
  /\ \A e \in Engines : url[e] # NoProc => proc[url[e]] # "unborn"

(* Every step keeps them apart. *)
LEMMA ApartStep ==
  ASSUME TypeOK, Labels, Ownership, Apart, [Next]_vars
  PROVE  Apart'
<1> USE SharedEngineAssumption DEF TypeOK, procVars, engineVars, termVars,
             At, Goto, Entry, Labels, Connected, Apart, Ownership, Present,
             Running
<1>1. ASSUME NEW e \in Engines, ConnectStep(e) PROVE Apart'
  <2>1. CASE Connect(e)
    BY <2>1 DEF Connect
  <2>2. CASE AttachHit(e)
    BY <2>2 DEF AttachHit, enabled, Present, Running, Acquire, make_key
  <2>3. CASE AttachStale(e)
    BY <2>3 DEF AttachStale, enabled, NoEntry, Present, Running, make_key
  <2>4. CASE AttachMiss(e)
    BY <2>4 DEF AttachMiss, enabled, Present, make_key
  <2>5. CASE EnsureFile(e)
    BY <2>5 DEF EnsureFile
  <2>6. CASE Spawn(e)
    BY <2>6 DEF Spawn
  <2>7. CASE SpawnFails(e)
    BY <2>7 DEF SpawnFails
  <2>8. CASE PollReady(e)
    BY <2>8 DEF PollReady, Running
  <2>9. CASE PollGivesUp(e)
    BY <2>9 DEF PollGivesUp, Terminate
  <2>10. CASE PollCancelled(e)
    BY <2>10 DEF PollCancelled
  <2>11. CASE KeepPrivate(e)
    BY <2>11 DEF KeepPrivate, enabled
  <2>12. CASE RegisterFirst(e)
    BY <2>12 DEF RegisterFirst, enabled, Present, Running, make_key
  <2>13. CASE RegisterLost(e)
    BY <2>13
       DEF RegisterLost, enabled, Terminate, Present, Running, Acquire,
           make_key
  <2> QED
    BY <1>1, <2>1, <2>2, <2>3, <2>4, <2>5, <2>6, <2>7, <2>8, <2>9, <2>10,
       <2>11, <2>12, <2>13
       DEF ConnectStep
<1>2. ASSUME NEW e \in Engines, CloseStep(e) PROVE Apart'
  <2>1. CASE CloseShared(e)
    BY <2>1 DEF CloseShared
  <2>2. CASE ReleaseKeeps(e)
    BY <2>2 DEF ReleaseKeeps, Present, CountDown, make_key
  <2>3. CASE ReleaseLast(e)
    BY <2>3 DEF ReleaseLast, Terminate, NoEntry, Present, make_key
  <2>4. CASE ClosePrivate(e)
    BY <2>4 DEF ClosePrivate, Terminate
  <2>5. CASE Interrupt(e)
    BY <2>5 DEF Interrupt
  <2>6. CASE Reap(e)
    BY <2>6 DEF Reap, Finish, Running
  <2>7. CASE WaitExpires(e)
    BY <2>7 DEF WaitExpires, Finish, Running
  <2> QED
    BY <1>2, <2>1, <2>2, <2>3, <2>4, <2>5, <2>6, <2>7 DEF CloseStep
<1>3. ASSUME NEW p \in Procs, Exit(p) \/ Crash(p) PROVE Apart'
  BY <1>3 DEF Exit, Crash
<1>4. CASE Sweep
  BY <1>4 DEF Sweep, NoEntry
<1>5. CASE UNCHANGED vars
  BY <1>5 DEF vars
<1> QED
  BY <1>1, <1>2, <1>3, <1>4, <1>5 DEF Next, Exited

(* An engine that does not share talks to a process of its own, which      *)
(* nobody else attaches to or terminates, whatever the sharing engines do.  *)
THEOREM PrivateIsPrivateCorrect == Spec => []PrivateIsPrivate
<1>1. Init => Apart
  BY DEF Init, Apart
<1>2. Structure /\ Apart /\ [Next]_vars => Apart'
  BY ApartStep DEF Structure
<1>3. Structure /\ Apart => PrivateIsPrivate
  BY SharedEngineAssumption
     DEF Structure, TypeOK, Ownership, Apart, PrivateIsPrivate, Connected
<1> QED
  BY <1>1, <1>2, <1>3, StructureCorrect, PTL DEF Spec

-----------------------------------------------------------------------------
(* The registry implements EnginePool.                                     *)

(* The refinement mapping. *)
Live  == {p \in Procs : proc[p] = "live"}
Of    == [k \in Keys |-> entries[k].proc]
Users == [k \in Keys |-> {e \in Engines : shared_key[e] = k}]

(* A step that changes none of them is a stutter of the pool. *)
LEMMA PoolStutter ==
  ASSUME Live' = Live, Of' = Of, Users' = Users
  PROVE  [Pool!Next]_(Pool!poolVars)
BY DEF Live, Of, Users, Pool!poolVars

(* Setting an engine's key adds it to the users of that key ...            *)
LEMMA UsersJoin ==
  ASSUME TypeOK, NEW e \in Engines, NEW k \in Keys, shared_key[e] = NoKey,
         shared_key' = [shared_key EXCEPT ![e] = k]
  PROVE  Users' = [Users EXCEPT ![k] = Users[k] \cup {e}]
<1> DEFINE S(j) == {f \in Engines : shared_key[f] = j}
           T(j) == {f \in Engines : shared_key'[f] = j}
<1>1. ASSUME NEW j \in Keys
      PROVE  T(j) = IF j = k THEN S(j) \cup {e} ELSE S(j)
  BY SharedEngineAssumption DEF TypeOK
<1>2. Users = [j \in Keys |-> S(j)] /\ Users' = [j \in Keys |-> T(j)]
  BY DEF Users
<1> HIDE DEF S, T
<1> QED
  BY <1>1, <1>2

(* ... and clearing it removes it.                                         *)
LEMMA UsersLeave ==
  ASSUME TypeOK, NEW e \in Engines, NEW k \in Keys, shared_key[e] = k,
         shared_key' = [shared_key EXCEPT ![e] = NoKey]
  PROVE  Users' = [Users EXCEPT ![k] = Users[k] \ {e}]
<1> DEFINE S(j) == {f \in Engines : shared_key[f] = j}
           T(j) == {f \in Engines : shared_key'[f] = j}
<1>1. ASSUME NEW j \in Keys
      PROVE  T(j) = IF j = k THEN S(j) \ {e} ELSE S(j)
  BY SharedEngineAssumption DEF TypeOK
<1>2. Users = [j \in Keys |-> S(j)] /\ Users' = [j \in Keys |-> T(j)]
  BY DEF Users
<1> HIDE DEF S, T
<1> QED
  BY <1>1, <1>2

(* attach() of a live process, or a lost spawn race: a user joins.         *)
LEMMA PoolJoin ==
  ASSUME TypeOK, Labels, Healthy, NEW e \in Engines,
         AttachHit(e) \/ RegisterLost(e)
  PROVE  Pool!Next
<1> USE SharedEngineAssumption DEF Entry, Present, procVars
<1> DEFINE k == KeyOf[e]
<1>1. k \in Keys /\ Of[k] \in Live
  BY DEF AttachHit, RegisterLost, Of, Live, Healthy, TypeOK, Acquire, make_key
<1>2. Live' = Live /\ Of' = Of
  <2>1. CASE AttachHit(e)
    BY <1>1, <2>1 DEF AttachHit, Of, Live, Acquire, make_key
  <2>2. CASE RegisterLost(e)
    BY <1>1, <2>2 DEF RegisterLost, Of, Live, Acquire, make_key
  <2> QED
    BY <2>1, <2>2
<1>3. e \notin Users[k]
  BY <1>1
     DEF AttachHit, RegisterLost, Labels, Connected, At, Users, Acquire,
         make_key
<1>4. Users' = [Users EXCEPT ![k] = @ \cup {e}]
  <2>1. shared_key' = [shared_key EXCEPT ![e] = k]
    BY DEF AttachHit, RegisterLost, Acquire, make_key
  <2>2. shared_key[e] = NoKey
    BY DEF AttachHit, RegisterLost, Labels, Connected, At, Acquire, make_key
  <2> QED
    BY <1>1, <2>1, <2>2, UsersJoin
<1>5. Pool!Join(e, k)
  BY <1>1, <1>2, <1>3, <1>4 DEF Pool!Join, Live, Of, Users
<1> QED
  BY <1>1, <1>5 DEF Pool!Next

(* The winner of the race opens the pool of its key.                       *)
LEMMA PoolOpen ==
  ASSUME TypeOK, Labels, Ownership, Healthy, RefcountExact, NEW e \in Engines,
         RegisterFirst(e)
  PROVE  Pool!Next
<1> USE SharedEngineAssumption DEF Entry, Present, procVars
<1> DEFINE k == KeyOf[e]
<1>1. k \in Keys /\ Of[k] = NoProc
  BY DEF RegisterFirst, Of, Healthy, Running, make_key
<1>2. Users[k] = {}
  BY <1>1 DEF Of, Users, RefcountExact, Holders
<1>3. process[e] \in Live /\ \A j \in Keys : Of[j] # process[e]
  BY
     DEF RegisterFirst, At, Live, Of, Healthy, Labels, Ownership, TypeOK,
         make_key
<1>4. Live' = Live /\ Of' = [Of EXCEPT ![k] = process[e]]
  BY DEF RegisterFirst, Live, Of, TypeOK, make_key
<1>5. Users' = [Users EXCEPT ![k] = {e}]
  <2>1. shared_key[e] = NoKey /\ shared_key' = [shared_key EXCEPT ![e] = k]
    BY DEF RegisterFirst, Labels, At, make_key
  <2>2. Users' = [Users EXCEPT ![k] = Users[k] \cup {e}]
    BY <1>1, <2>1, UsersJoin
  <2> QED
    BY <1>2, <2>2
<1>6. Pool!Open(e, k)
  BY <1>1, <1>2, <1>3, <1>4, <1>5 DEF Pool!Open, Live, Of, Users
<1> QED
  BY <1>1, <1>6 DEF Pool!Next

(* Forgetting the key leaves the pool; the process keeps running.          *)
LEMMA PoolLeave ==
  ASSUME TypeOK, Labels, NEW e \in Engines, CloseShared(e)
  PROVE  Pool!Next
<1> USE SharedEngineAssumption DEF procVars
<1> DEFINE k == KeyOf[e]
<1>1. k \in Keys /\ e \in Users[k]
  BY DEF CloseShared, Users, Labels
<1>2. Live' = Live /\ Of' = Of
  BY DEF CloseShared, Of, Live
<1>3. Users' = [Users EXCEPT ![k] = @ \ {e}]
  <2>1. shared_key[e] = k /\ shared_key' = [shared_key EXCEPT ![e] = NoKey]
    BY DEF CloseShared, Labels
  <2> QED
    BY <1>1, <2>1, UsersLeave
<1>4. Pool!Leave(e, k)
  BY <1>1, <1>2, <1>3 DEF Pool!Leave, Live, Of, Users
<1> QED
  BY <1>1, <1>4 DEF Pool!Next

(* Releasing the last reference retires the key's process.                 *)
LEMMA PoolRetire ==
  ASSUME TypeOK, Labels, RefcountExact, NEW e \in Engines, ReleaseLast(e)
  PROVE  Pool!Next
<1> USE SharedEngineAssumption DEF TypeOK, Entry, Present, procVars, engineVars
<1> DEFINE k == KeyOf[e]
<1>1. k \in Keys /\ Of[k] # NoProc
  BY DEF ReleaseLast, Of, make_key
<1>2. Users[k] = {}
  <2>1. e \in Holders(k) /\ shared_key[e] # k
    BY DEF ReleaseLast, Holders, At, Labels, Connected, make_key
  <2>2. Cardinality(Holders(k)) = 1
    <3>1. Cardinality(Holders(k)) \in Nat /\ Cardinality(Holders(k)) # 0
      BY <1>1, <2>1, HoldersFinite
    <3>2. entries[k].refcount = Cardinality(Holders(k))
      BY <1>1, <2>1 DEF RefcountExact
    <3>3. entries[k].refcount \in Nat /\ entries[k].refcount =< 1
      BY <1>1 DEF ReleaseLast, TypeOK, make_key
    <3>4. \A n \in Nat : n # 0 /\ n =< 1 => n = 1
      OBVIOUS
    <3> QED
      BY <3>1, <3>2, <3>3, <3>4
  <2>3. Holders(k) = {e}
    BY <2>1, <2>2, HoldersFinite, FS_Singleton
  <2> QED
    BY <2>1, <2>3 DEF Users, Holders
<1>3. Live' = Live /\ Users' = Users
  BY DEF ReleaseLast, Users, Live, make_key
<1>4. Of' = [Of EXCEPT ![k] = NoProc]
  BY DEF ReleaseLast, Of, NoEntry, make_key
<1>5. Pool!Retire(k)
  BY <1>1, <1>2, <1>3, <1>4 DEF Pool!Retire, Live, Of, Users
<1> QED
  BY <1>1, <1>5 DEF Pool!Next

(* A process that starts is one more, not yet anybody's.                   *)
LEMMA PoolLaunch ==
  ASSUME TypeOK, Labels, NEW e \in Engines, Spawn(e)
  PROVE  Pool!Next
<1> USE DEF TypeOK
<1>1. PICK p \in Procs : proc[p] = "unborn" /\ proc' = [proc EXCEPT ![p] = "live"]
  BY DEF Spawn
<1>2. p \in Procs \ Live /\ Live' = Live \cup {p}
  BY <1>1 DEF Live
<1>3. Of' = Of /\ Users' = Users
  BY DEF Spawn, Of, Users
<1>4. Pool!Launch
  BY <1>2, <1>3 DEF Pool!Launch, Live, Of, Users
<1> QED
  BY <1>4 DEF Pool!Next

(* SIGINT reaches a process that serves no key, or one already stopping.   *)
LEMMA PoolHalt ==
  ASSUME TypeOK, Labels, Ownership, NEW e \in Engines,
         Interrupt(e) \/ WaitExpires(e)
  PROVE  [Pool!Next]_(Pool!poolVars)
<1> USE DEF TypeOK, Entry, Present
<1> DEFINE p == doomed[e]
<1>1. p \in Procs /\ \A k \in Keys : Of[k] # p
  BY DEF Interrupt, WaitExpires, At, Labels, Of, Ownership
<1>2. Of' = Of /\ Users' = Users
  BY DEF Interrupt, WaitExpires, Finish, Of, Users, engineVars
<1>3. Live' = Live \ {p}
  BY <1>1 DEF Interrupt, WaitExpires, Live
<1>4. CASE p \in Live
  <2>1. Pool!Halt
    BY <1>1, <1>2, <1>3, <1>4 DEF Pool!Halt, Live, Of, Users
  <2> QED
    BY <2>1 DEF Pool!Next
<1>5. CASE p \notin Live
  BY <1>2, <1>3, <1>5, PoolStutter
<1> QED
  BY <1>4, <1>5

(* Every step of the registry and its engines is a step of the pool or     *)
(* changes nothing the pool can see.                                       *)
LEMMA PoolStep ==
  ASSUME MaxCrashes = 0, Structure, Healthy, RefcountExact, [Next]_vars
  PROVE  [Pool!Next]_(Pool!poolVars)
<1> USE SharedEngineAssumption
    DEF Structure, TypeOK, Entry, procVars, engineVars
<1>1. ASSUME NEW e \in Engines, AttachHit(e) \/ RegisterLost(e)
      PROVE  Pool!Next
  BY <1>1, PoolJoin
<1>2. ASSUME NEW e \in Engines, RegisterFirst(e) PROVE Pool!Next
  BY <1>2, PoolOpen
<1>3. ASSUME NEW e \in Engines, CloseShared(e) PROVE Pool!Next
  BY <1>3, PoolLeave
<1>4. ASSUME NEW e \in Engines, ReleaseLast(e) PROVE Pool!Next
  BY <1>4, PoolRetire
<1>5. ASSUME NEW e \in Engines, Spawn(e) PROVE Pool!Next
  BY <1>5, PoolLaunch
<1>6. ASSUME NEW e \in Engines, Interrupt(e) \/ WaitExpires(e)
      PROVE  [Pool!Next]_(Pool!poolVars)
  BY <1>6, PoolHalt
<1>7. ASSUME NEW e \in Engines,
             \/ Connect(e) \/ AttachMiss(e) \/ EnsureFile(e) \/ SpawnFails(e)
             \/ PollReady(e) \/ PollGivesUp(e) \/ PollCancelled(e)
             \/ KeepPrivate(e) \/ ClosePrivate(e) \/ Reap(e)
      PROVE  [Pool!Next]_(Pool!poolVars)
  <2>1. proc' = proc /\ entries' = entries /\ shared_key' = shared_key
    BY <1>7 DEF Connect, AttachMiss, EnsureFile, SpawnFails, PollReady,
                PollGivesUp, PollCancelled, KeepPrivate, ClosePrivate, Reap,
                Finish, make_key
  <2> QED
    BY <2>1, PoolStutter DEF Live, Of, Users
<1>8. ASSUME NEW e \in Engines, AttachStale(e) PROVE FALSE
  BY <1>8 DEF AttachStale, Healthy, Present, Running, make_key
<1>9. ASSUME NEW e \in Engines, ReleaseKeeps(e)
      PROVE  [Pool!Next]_(Pool!poolVars)
  <2>1. Live' = Live /\ Of' = Of /\ Users' = Users
    BY <1>9 DEF ReleaseKeeps, Live, Of, Users, CountDown, make_key
  <2> QED
    BY <2>1, PoolStutter
<1>10. ASSUME NEW p \in Procs, Exit(p) \/ Crash(p)
       PROVE  [Pool!Next]_(Pool!poolVars)
  <2>1. Live' = Live /\ Of' = Of /\ Users' = Users
    BY <1>10 DEF Exit, Crash, Live, Of, Users
  <2> QED
    BY <2>1, PoolStutter
<1>11. CASE Sweep
  <2>1. AllClosed
    BY <1>11 DEF Sweep, AllClosed
  <2>2. \A k \in Keys : Holders(k) = {} /\ entries[k].proc = NoProc
    <3>1. \A k \in Keys : Holders(k) = {}
      BY <2>1, SharedEngineAssumption DEF AllClosed, Holders, Connected, At
    <3>2. \A k \in Keys : Present(k) <=> Holders(k) # {}
      BY DEF RefcountExact
    <3> QED
      BY <3>1, <3>2 DEF Present
  <2>3. Live' = Live /\ Of' = Of /\ Users' = Users
    BY <1>11, <2>2 DEF Sweep, Live, Of, Users, NoEntry
  <2> QED
    BY <2>3, PoolStutter
<1>12. CASE UNCHANGED vars
  <2>1. Live' = Live /\ Of' = Of /\ Users' = Users
    BY <1>12 DEF vars, Live, Of, Users
  <2> QED
    BY <2>1, PoolStutter
<1> QED
  BY <1>1, <1>2, <1>3, <1>4, <1>5, <1>6, <1>7, <1>8, <1>9, <1>10, <1>11, <1>12
     DEF Next, Exited, ConnectStep, CloseStep

(* Sharing engines is indistinguishable from a pool that starts a process  *)
(* before the first user of a datasource and stops it after the last one.  *)
THEOREM ImplementsPool ==
  ASSUME MaxCrashes = 0
  PROVE  Spec => PoolSpec
<1>1. Init => Pool!Init
  BY SharedEngineAssumption DEF Init, Pool!Init, NoEntry
<1>2. Structure /\ UntilCrash /\ [Next]_vars => [Pool!Next]_(Pool!poolVars)
  <2>1. Structure => crashes = 0
    BY DEF Structure, TypeOK
  <2> QED
    BY <2>1, PoolStep DEF UntilCrash
<1> QED
  BY <1>1, <1>2, StructureCorrect, UntilCrashCorrect, PTL
     DEF Spec, PoolSpec, Pool!Spec

=============================================================================
