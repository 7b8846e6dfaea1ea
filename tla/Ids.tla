-------------------------------- MODULE Ids --------------------------------
(***************************************************************************)
(* The id generators of sa/_values.py: uuid(7) and cuid(), called by the   *)
(* threads of several processes that share the host's clock.  A process    *)
(* may be a fork of another one, which copies the generators' state.       *)
(*                                                                         *)
(* The random part of an id is left out: what is modelled is the part that *)
(* is there to order the ids or to keep them apart without luck.           *)
(***************************************************************************)
EXTENDS Integers, FiniteSets

CONSTANTS
  Workers,       \* threads, of whatever process
  Pids,          \* process ids: naturals
  MaxClock,      \* bound: the clock shows 0 .. MaxClock milliseconds
  MaxAhead,      \* bound: a generator stops this far past MaxClock
  MaxCuids,      \* bound: how many cuids are generated
  MaxSequence,   \* 0xFFF: the largest value of the 12-bit counter of a uuid
  Width,         \* 2^48: what the timestamp of a uuid is cut to
  Discrete,      \* 36^4: the values of the counter block of a cuid
  HostPids,      \* 36^2: the values of the process block of a fingerprint
  MayFork,       \* whether processes fork
  NoPid, NoPrint \* Python's None

ASSUME IdsAssumption ==
  /\ Pids \subseteq Nat
  /\ MaxClock \in Nat /\ MaxAhead \in Nat /\ MaxCuids \in Nat
  /\ MaxSequence \in Nat
  /\ Width \in Nat \ {0} /\ Discrete \in Nat \ {0} /\ HostPids \in Nat \ {0}
  /\ MayFork \in BOOLEAN
  /\ NoPid \notin Pids /\ NoPrint \notin Nat

VARIABLES
  clock,          \* the host's clock, in milliseconds
  home,           \* home[w]: the process thread w belongs to, or NoPid
  now,            \* now[w]: the clock as _uuid7 read it; -1 outside the call
  millisecond,    \* millisecond[p]: _uuid7_millisecond
  sequence,       \* sequence[p]: _uuid7_sequence
  uuid,           \* uuid[p]: the last uuid issued in p, <<time, counter>>
  counter,        \* counter[p]: the next value of _counter
  fingerprint,    \* fingerprint[p]: _fingerprint
  calls,          \* history: calls[p] is how often p called cuid()
  first,          \* history: first[p] is the process whose first call fixed
                  \* the fingerprint p uses: p, an ancestor, or NoPid
  cuids           \* history: every cuid generated

uuidVars == <<millisecond, sequence, uuid>>
cuidVars == <<counter, fingerprint, calls, first, cuids>>
vars == <<clock, home, now, millisecond, sequence, uuid, counter, fingerprint,
          calls, first, cuids>>

\* A cuid is time, count and print (and luck).  The other fields say whose call
\* it was: the process, the number of the call there, and first[pid].
Cuid == [pid : Pids, call : Nat, first : Pids,
         time : Nat, count : Nat, print : Nat]

TypeOK ==
  /\ clock \in 0 .. MaxClock
  /\ home \in [Workers -> Pids \cup {NoPid}]
  /\ now \in [Workers -> -1 .. MaxClock]
  /\ millisecond \in [Pids -> Nat \cup {-1}]
  /\ sequence \in [Pids -> 0 .. MaxSequence]
  /\ uuid \in [Pids -> (Nat \cup {-1}) \X (0 .. MaxSequence)]
  /\ counter \in [Pids -> Nat]
  /\ fingerprint \in [Pids -> Nat \cup {NoPrint}]
  /\ calls \in [Pids -> Nat]
  /\ first \in [Pids -> Pids \cup {NoPid}]
  /\ cuids \in SUBSET Cuid

Born(p) == \E w \in Workers : home[w] = p

\* The module's globals as a fresh interpreter has them.
Init ==
  /\ clock \in 0 .. MaxClock
  /\ home = [w \in Workers |-> NoPid]
  /\ now = [w \in Workers |-> -1]
  /\ millisecond = [p \in Pids |-> -1]
  /\ sequence = [p \in Pids |-> 0]
  /\ uuid = [p \in Pids |-> <<-1, 0>>]
  /\ counter = [p \in Pids |-> 0]
  /\ fingerprint = [p \in Pids |-> NoPrint]
  /\ calls = [p \in Pids |-> 0]
  /\ first = [p \in Pids |-> NoPid]
  /\ cuids = {}

-----------------------------------------------------------------------------
(* The host.                                                               *)

\* The clock advances, or is set back.
Tick ==
  /\ clock' \in 0 .. MaxClock
  /\ UNCHANGED <<home, now, uuidVars, cuidVars>>

\* A thread starts, in a new process or in one that runs already.
Boot(w, p) ==
  /\ home[w] = NoPid
  /\ home' = [home EXCEPT ![w] = p]
  /\ UNCHANGED <<clock, now, uuidVars, cuidVars>>

\* os.fork(): the child starts with the generators its parent had.
Fork(w, p, child) ==
  /\ MayFork
  /\ Born(p) /\ ~Born(child)
  /\ home[w] = NoPid
  /\ home' = [home EXCEPT ![w] = child]
  /\ millisecond' = [millisecond EXCEPT ![child] = millisecond[p]]
  /\ sequence' = [sequence EXCEPT ![child] = sequence[p]]
  /\ uuid' = [uuid EXCEPT ![child] = uuid[p]]
  /\ counter' = [counter EXCEPT ![child] = counter[p]]
  /\ fingerprint' = [fingerprint EXCEPT ![child] = fingerprint[p]]
  /\ first' = [first EXCEPT ![child] = first[p]]
  /\ UNCHANGED <<clock, now, calls, cuids>>

-----------------------------------------------------------------------------
(* _uuid7().                                                               *)

\* The clock is read before the lock is taken: by the time the lock is held
\* other threads may have issued uuids for later milliseconds.
ReadClock(w) ==
  /\ home[w] # NoPid /\ now[w] = -1
  /\ millisecond[home[w]] =< MaxClock + MaxAhead
  /\ now' = [now EXCEPT ![w] = clock]
  /\ UNCHANGED <<clock, home, uuidVars, cuidVars>>

Later(w) == now[w] > millisecond[home[w]]

\* What the critical section computes.
\* (Slip: only an equal millisecond counts up; an earlier one is taken over.)
NextTickNaive(w) ==
  LET p == home[w] IN
  IF now[w] # millisecond[p]             THEN <<now[w], 0>>
  ELSE IF sequence[p] + 1 > MaxSequence  THEN <<millisecond[p] + 1, 0>>
  ELSE <<millisecond[p], sequence[p] + 1>>
NextTick(w) ==
  LET p == home[w] IN
  IF Later(w)                            THEN <<now[w], 0>>
  ELSE IF sequence[p] + 1 > MaxSequence  THEN <<millisecond[p] + 1, 0>>
  ELSE <<millisecond[p], sequence[p] + 1>>

\* The section under _uuid7_lock, and the uuid assembled from its result.
Issue(w) ==
  LET p == home[w]
      t == NextTick(w)
  IN
  /\ now[w] # -1
  /\ millisecond' = [millisecond EXCEPT ![p] = t[1]]
  /\ sequence' = [sequence EXCEPT ![p] = t[2]]
  /\ uuid' = [uuid EXCEPT ![p] = <<t[1] % Width, t[2]>>]
  /\ now' = [now EXCEPT ![w] = -1]
  /\ UNCHANGED <<clock, home, cuidVars>>

-----------------------------------------------------------------------------
(* cuid().                                                                 *)

\* _process_fingerprint(): computed on the first call, then cached.  The two
\* characters of the host name are the same in every process of the host.
Mark(p) == IF fingerprint[p] = NoPrint THEN p % HostPids ELSE fingerprint[p]

\* next(_counter), cut to four base-36 digits.
\* (Slip: the counter starts again with every millisecond.)
CountPerMillisecond(p) ==
  IF \E c \in cuids : c.pid = p /\ c.call + 1 = calls[p] /\ c.time = clock
  THEN counter[p] % Discrete ELSE 0
Count(p) == counter[p] % Discrete

Generate(w) ==
  LET p == home[w]
      root == IF first[p] = NoPid THEN p ELSE first[p]
  IN
  /\ p # NoPid /\ Cardinality(cuids) < MaxCuids
  /\ cuids' = cuids \cup {[pid |-> p, call |-> calls[p], first |-> root,
                           time |-> clock, count |-> Count(p),
                           print |-> Mark(p)]}
  /\ counter' = [counter EXCEPT ![p] = @ + 1]
  /\ fingerprint' = [fingerprint EXCEPT ![p] = Mark(p)]
  /\ calls' = [calls EXCEPT ![p] = @ + 1]
  /\ first' = [first EXCEPT ![p] = root]
  /\ UNCHANGED <<clock, home, now, uuidVars>>

Next ==
  \/ Tick
  \/ \E w \in Workers :
       \/ ReadClock(w) \/ Issue(w) \/ Generate(w)
       \/ \E p \in Pids : Boot(w, p)
       \/ \E p, child \in Pids : Fork(w, p, child)

Spec == Init /\ [][Next]_vars

-----------------------------------------------------------------------------
(* Properties.                                                             *)

Less(u, v) == u[1] < v[1] \/ (u[1] = v[1] /\ u[2] < v[2])

\* "The point of a v7 is that it sorts by creation time": each uuid a process
\* issues sorts after all it issued before, whatever the clock did and however
\* long a thread stood between reading it and taking the lock, and none
\* carries a time before its call began.  (As long as 48 bits hold the time.)
UuidSorts ==
  [][\A w \in Workers :
       now[w] # -1 /\ now'[w] = -1 =>
         LET p == home[w] IN
         millisecond'[p] < Width =>
           Less(uuid[p], uuid'[p]) /\ now[w] =< uuid'[p][1]]_vars

\* The calls of one process with fewer than 36^4 calls between them.
Near(c, d) == c.call - d.call \in (1 - Discrete) .. (Discrete - 1)

\* Processes whose first calls fell on ids that agree in their last two digits,
\* or that share a first call: one was forked after it from the other, or both
\* from a third one.
Akin(c, d) == c.first % HostPids = d.first % HostPids

\* The timestamp, "the counter [...] what keeps two ids generated in the same
\* millisecond apart" and "four characters that separate two processes" are all
\* that holds without luck.  Two calls, of whatever threads and processes of a
\* host whose clock is set back and whose processes fork, agree in all three
\* only in two cases: 36^4 calls of a process lie between them, or they are
\* calls of different processes that are akin.
CuidsApart ==
  \A c, d \in cuids :
    /\ c # d
    /\ c.time = d.time /\ c.count = d.count /\ c.print = d.print
    => IF c.pid = d.pid THEN ~Near(c, d) ELSE Akin(c, d)

-----------------------------------------------------------------------------
(* What a document promises and the code does not keep: no run checks it,  *)
(* and TLC refutes it when one does (see README.md, "Disagreements").      *)

\* "Four characters that separate two processes generating ids at once".
FingerprintsSeparate ==
  \A c, d \in cuids : c.pid # d.pid => c.print # d.print

=============================================================================
