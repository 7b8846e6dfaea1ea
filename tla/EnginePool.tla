----------------------------- MODULE EnginePool -----------------------------
(***************************************************************************)
(* What sharing query engines promises (engine/_shared.py, docstring): a   *)
(* set of users per key, one running engine process behind all of them,    *)
(* started before the first user and stopped only after the last one left. *)
(* There are no reference counts, locks, races or threads here.            *)
(***************************************************************************)
CONSTANTS Engines, Keys, Procs, NoProc

VARIABLES
  running,   \* processes that answer requests
  engine,    \* engine[k]: the process that serves the users of k, or NoProc
  users      \* users[k]: the engine objects connected under k

poolVars == <<running, engine, users>>

Init ==
  /\ running = {}
  /\ engine = [k \in Keys |-> NoProc]
  /\ users = [k \in Keys |-> {}]

\* A process starts; it serves nobody yet.
Launch ==
  /\ \E p \in Procs \ running : running' = running \cup {p}
  /\ UNCHANGED <<engine, users>>

\* A running process becomes the engine of a key that has no users.
Open(e, k) ==
  /\ engine[k] = NoProc /\ users[k] = {}
  /\ \E p \in running :
       /\ \A j \in Keys : engine[j] # p
       /\ engine' = [engine EXCEPT ![k] = p]
  /\ users' = [users EXCEPT ![k] = {e}]
  /\ UNCHANGED running

\* A user joins the others, on the same process.
Join(e, k) ==
  /\ engine[k] \in running
  /\ e \notin users[k]
  /\ users' = [users EXCEPT ![k] = @ \cup {e}]
  /\ UNCHANGED <<running, engine>>

Leave(e, k) ==
  /\ e \in users[k]
  /\ users' = [users EXCEPT ![k] = @ \ {e}]
  /\ UNCHANGED <<running, engine>>

\* A key gives its process up once it has no users ...
Retire(k) ==
  /\ engine[k] # NoProc /\ users[k] = {}
  /\ engine' = [engine EXCEPT ![k] = NoProc]
  /\ UNCHANGED <<running, users>>

\* ... and only a process that serves no key is stopped.
Halt ==
  /\ \E p \in running :
       /\ \A k \in Keys : engine[k] # p
       /\ running' = running \ {p}
  /\ UNCHANGED <<engine, users>>

Next ==
  \/ Launch \/ Halt
  \/ \E k \in Keys :
       \/ Retire(k)
       \/ \E e \in Engines : Open(e, k) \/ Join(e, k) \/ Leave(e, k)

Spec == Init /\ [][Next]_poolVars

=============================================================================
