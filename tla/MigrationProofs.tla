--------------------------- MODULE MigrationProofs ---------------------------
(***************************************************************************)
(* Proofs about two parts of the SQLAlchemy side: Ids, for every number of *)
(* threads and processes, every clock and every width of the counters, and *)
(* Report, for every file.                                                 *)
(***************************************************************************)
EXTENDS Ids, Report, FiniteSetTheorems, SequenceTheorems, TLAPS

Whole == INSTANCE Diagnosis

-----------------------------------------------------------------------------
(* Ids: arithmetic.                                                        *)

\* A number below the modulus is its own remainder.
LEMMA SmallRemainder ==
  ASSUME NEW n \in Nat, NEW k \in Nat \ {0}, n < k
  PROVE  n % k = n
  BY SMT

\* Numbers closer than the modulus have different remainders.
LEMMA Division ==
  ASSUME NEW k \in Nat \ {0}, NEW i \in Nat
  PROVE  \E q \in Int : i = k * q + (i % k)
<1>1. i \div k \in Int /\ i % k \in Int
  BY SMT
<1>2. i = k * (i \div k) + (i % k)
  BY SMT
<1> QED BY <1>1, <1>2

\* Numbers less than the modulus apart are told apart by their remainders.
LEMMA CloseRemainders ==
  ASSUME NEW k \in Nat \ {0}, NEW i \in Nat, NEW j \in Nat,
         i < j, j < i + k
  PROVE  i % k # j % k
<1>1. PICK q \in Int : i = k * q + (i % k)
  BY Division
<1>2. PICK r \in Int : j = k * r + (j % k)
  BY Division
<1>3. SUFFICES ASSUME i % k = j % k PROVE FALSE
  OBVIOUS
<1>4. j - i = k * (r - q)
  BY <1>1, <1>2, <1>3, SMT
<1>5. r - q \in Int /\ 0 < k * (r - q) /\ k * (r - q) < k
  BY <1>4, SMT
<1>6. CASE r - q =< 0
  BY <1>5, <1>6, SMT
<1>7. CASE r - q >= 1
  BY <1>5, <1>7, SMT
<1> QED BY <1>5, <1>6, <1>7, SMT

-----------------------------------------------------------------------------
(* Ids: the inductive invariant.                                           *)

\* Only a thread of a process is inside _uuid7.
Homed == \A w \in Workers : now[w] # -1 => home[w] \in Pids

\* The globals of a process are the last uuid it issued, or its parent did.
Linked ==
  \A p \in Pids : /\ uuid[p][2] = sequence[p]
                  /\ millisecond[p] < Width => uuid[p][1] = millisecond[p]

\* The counter of a process is ahead of its calls by what a fork handed down.
Ahead == \A p \in Pids : /\ calls[p] =< counter[p]
                         /\ ~Born(p) => calls[p] = 0

\* A cuid was made by a call of a process that runs, no two by one call, and
\* its counter block is what the counter was at that call.
Counted ==
  \A c \in cuids :
    /\ Born(c.pid) /\ c.call < calls[c.pid]
    /\ c.count = (counter[c.pid] - calls[c.pid] + c.call) % Discrete
    /\ \A d \in cuids : c.pid = d.pid /\ c.call = d.call => c = d

\* A fingerprint is that of the process whose first call fixed it.
Marked ==
  /\ \A p \in Pids : IF first[p] = NoPid THEN fingerprint[p] = NoPrint
                     ELSE fingerprint[p] = first[p] % HostPids
  /\ \A c \in cuids : c.print = c.first % HostPids

IInv == TypeOK /\ Homed /\ Linked /\ Ahead /\ Counted /\ Marked

\* What TypeOK says of one process and one thread, for arithmetic.
LEMMA Ranges ==
  ASSUME TypeOK, NEW p \in Pids
  PROVE  /\ p \in Nat /\ counter[p] \in Nat /\ clock \in Nat
         /\ sequence[p] \in 0 .. MaxSequence
         /\ millisecond[p] \in Int /\ millisecond[p] >= -1
         /\ \A w \in Workers : now[w] # -1 => now[w] \in Nat
<1>1. p \in Nat /\ MaxClock \in Nat
  BY IdsAssumption
<1>2. counter[p] \in Nat /\ sequence[p] \in 0 .. MaxSequence
  BY DEF TypeOK
<1>3. clock \in Nat
  BY <1>1, SMT DEF TypeOK
<1>4. millisecond[p] \in Nat \cup {-1}
  BY DEF TypeOK
<1>5. millisecond[p] \in Int /\ millisecond[p] >= -1
  BY <1>4, SMT
<1>6. ASSUME NEW w \in Workers, now[w] # -1 PROVE now[w] \in Nat
  <2>1. now[w] \in -1 .. MaxClock
    BY DEF TypeOK
  <2> QED BY <1>1, <1>6, <2>1, SMT
<1> QED BY <1>1, <1>2, <1>3, <1>5, <1>6

\* The critical section of _uuid7 moves its two globals forward, stays in
\* their ranges and never behind the caller's clock.
LEMMA TickForward ==
  ASSUME TypeOK, NEW w \in Workers, now[w] # -1, home[w] \in Pids
  PROVE  LET p == home[w]
             t == NextTick(w)
         IN  /\ t[1] \in Nat /\ t[2] \in 0 .. MaxSequence
             /\ millisecond[p] =< t[1] /\ now[w] =< t[1]
             /\ Less(<<millisecond[p], sequence[p]>>, t)
             /\ t = <<t[1], t[2]>>
<1> DEFINE p == home[w]
<1>1. /\ now[w] \in Nat /\ sequence[p] \in 0 .. MaxSequence
      /\ millisecond[p] \in Int /\ millisecond[p] >= -1 /\ MaxSequence \in Nat
  BY IdsAssumption, Ranges
<1>2. CASE now[w] > millisecond[p]
  BY <1>1, <1>2, SMT DEF NextTick, Later, Less
<1>3. CASE ~(now[w] > millisecond[p]) /\ sequence[p] + 1 > MaxSequence
  BY <1>1, <1>3, SMT DEF NextTick, Later, Less
<1>4. CASE ~(now[w] > millisecond[p]) /\ ~(sequence[p] + 1 > MaxSequence)
  BY <1>1, <1>4, SMT DEF NextTick, Later, Less
<1> QED BY <1>2, <1>3, <1>4

\* Processes start with what their globals say of no id at all.
LEMMA InitInvariant == Init => IInv
<1> SUFFICES ASSUME Init PROVE IInv
  OBVIOUS
<1>1. TypeOK
  BY IdsAssumption, SMT DEF Init, TypeOK, Cuid
<1>2. Homed /\ Linked /\ Ahead /\ Counted /\ Marked
  BY SMT DEF Init, Homed, Linked, Ahead, Counted, Marked
<1> QED BY <1>1, <1>2 DEF IInv

\* A uuid that is issued is linked to the globals that it leaves (_uuid7).
LEMMA IssueInvariant ==
  ASSUME IInv, NEW w \in Workers, Issue(w)
  PROVE  IInv'
<1> DEFINE p == home[w]  t == NextTick(w)
<1>1. TypeOK /\ now[w] # -1 /\ p \in Pids
  BY DEF IInv, Homed, Issue
<1>2. /\ t[1] \in Nat /\ t[2] \in 0 .. MaxSequence
  BY <1>1, TickForward
<1> HIDE DEF t
<1>3. /\ millisecond' = [millisecond EXCEPT ![p] = t[1]]
      /\ sequence' = [sequence EXCEPT ![p] = t[2]]
      /\ uuid' = [uuid EXCEPT ![p] = <<t[1] % Width, t[2]>>]
      /\ now' = [now EXCEPT ![w] = -1]
      /\ UNCHANGED <<clock, home, cuidVars>>
  BY DEF Issue, t
<1>4. t[1] % Width \in Nat /\ (t[1] < Width => t[1] % Width = t[1])
  BY <1>2, IdsAssumption, SmallRemainder, SMT
<1>5. TypeOK'
  <2>1. /\ millisecond' \in [Pids -> Nat \cup {-1}]
        /\ sequence' \in [Pids -> 0 .. MaxSequence]
    BY <1>1, <1>2, <1>3, SMT DEF TypeOK
  <2>2. <<t[1] % Width, t[2]>> \in (Nat \cup {-1}) \X (0 .. MaxSequence)
    BY <1>2, <1>4
  <2>3. uuid' \in [Pids -> (Nat \cup {-1}) \X (0 .. MaxSequence)]
    BY <1>1, <1>3, <2>2 DEF TypeOK
  <2>4. now' \in [Workers -> -1 .. MaxClock]
    BY <1>1, <1>3, IdsAssumption, SMT DEF TypeOK
  <2> QED BY <1>1, <1>3, <2>1, <2>3, <2>4 DEF TypeOK, cuidVars
<1>6. Homed'
  BY <1>1, <1>3 DEF IInv, Homed, TypeOK
<1>7. Linked'
  <2> SUFFICES ASSUME NEW q \in Pids
               PROVE  /\ uuid'[q][2] = sequence'[q]
                      /\ millisecond'[q] < Width => uuid'[q][1] = millisecond'[q]
    BY DEF Linked
  <2>1. CASE q = p
    BY <1>1, <1>3, <1>4, <2>1 DEF TypeOK
  <2>2. CASE q # p
    BY <1>1, <1>3, <2>2 DEF TypeOK, IInv, Linked
  <2> QED BY <2>1, <2>2
<1>8. Ahead' /\ Counted' /\ Marked'
  BY <1>3 DEF IInv, Ahead, Counted, Marked, Born, cuidVars
<1> QED BY <1>5, <1>6, <1>7, <1>8 DEF IInv

\* A call of cuid() is counted, and takes its block from the counter (cuid).
LEMMA GenerateInvariant ==
  ASSUME IInv, NEW w \in Workers, Generate(w)
  PROVE  IInv'
<1> DEFINE p == home[w]
           root == IF first[p] = NoPid THEN p ELSE first[p]
           c == [pid |-> p, call |-> calls[p], first |-> root, time |-> clock,
                 count |-> Count(p), print |-> Mark(p)]
<1>1. TypeOK /\ p \in Pids
  BY DEF IInv, TypeOK, Generate
<1>2. /\ p \in Nat /\ counter[p] \in Nat /\ clock \in Nat /\ calls[p] \in Nat
      /\ calls[p] =< counter[p]
  <2>1. p \in Nat /\ counter[p] \in Nat /\ clock \in Nat
    BY <1>1, Ranges
  <2>2. calls[p] \in Nat
    BY <1>1 DEF TypeOK
  <2>3. calls[p] =< counter[p]
    BY <1>1 DEF IInv, Ahead
  <2> QED BY <2>1, <2>2, <2>3
<1>3. /\ counter[p] % Discrete \in Nat /\ Count(p) = counter[p] % Discrete
      /\ Count(p) \in Nat
  BY <1>2, IdsAssumption, SMT DEF Count
<1>4. Mark(p) = root % HostPids /\ root \in Pids /\ Mark(p) \in Nat
  <2>1. root \in Pids /\ root \in Nat
    BY <1>1, IdsAssumption DEF TypeOK
  <2>2. root % HostPids \in Nat
    BY <2>1, IdsAssumption, SMT
  <2>3. CASE first[p] = NoPid
    BY <1>1, <2>1, <2>2, <2>3 DEF IInv, Marked, Mark
  <2>4. CASE first[p] # NoPid
    <3>1. fingerprint[p] = root % HostPids
      BY <1>1, <2>4 DEF IInv, Marked
    <3>2. fingerprint[p] # NoPrint
      BY <2>2, <3>1, IdsAssumption
    <3> QED BY <2>1, <2>2, <3>1, <3>2 DEF Mark
  <2> QED BY <2>3, <2>4
<1>5. c \in Cuid
  BY <1>1, <1>2, <1>3, <1>4 DEF Cuid
<1>6. /\ cuids' = cuids \cup {c}
      /\ counter' = [counter EXCEPT ![p] = @ + 1]
      /\ fingerprint' = [fingerprint EXCEPT ![p] = Mark(p)]
      /\ calls' = [calls EXCEPT ![p] = @ + 1]
      /\ first' = [first EXCEPT ![p] = root]
      /\ UNCHANGED <<clock, home, now, uuidVars>>
  BY DEF Generate
<1>7. /\ c.pid = p /\ c.call = calls[p] /\ c.first = root
      /\ c.count = counter[p] % Discrete /\ c.print = Mark(p)
  BY <1>3
<1> HIDE DEF c, root
<1>8. TypeOK'
  <2>1. counter' \in [Pids -> Nat] /\ calls' \in [Pids -> Nat]
    BY <1>1, <1>2, <1>6, SMT DEF TypeOK
  <2>2. /\ fingerprint' \in [Pids -> Nat \cup {NoPrint}]
        /\ first' \in [Pids -> Pids \cup {NoPid}]
    BY <1>1, <1>4, <1>6 DEF TypeOK
  <2> QED BY <1>1, <1>5, <1>6, <2>1, <2>2 DEF TypeOK, uuidVars
<1>9. Homed' /\ Linked'
  BY <1>6 DEF IInv, Homed, Linked, uuidVars
<1>10. \A q \in Pids : Born(q)' = Born(q)
  BY <1>6 DEF Born
<1>11. Born(p)
  BY DEF Born
<1>12. \A q \in Pids :
         /\ counter[q] \in Nat /\ calls[q] \in Nat
         /\ counter'[q] = IF q = p THEN counter[q] + 1 ELSE counter[q]
         /\ calls'[q] = IF q = p THEN calls[q] + 1 ELSE calls[q]
  BY <1>1, <1>6 DEF TypeOK
<1>13. Ahead'
  <2> SUFFICES ASSUME NEW q \in Pids
               PROVE  calls'[q] =< counter'[q] /\ (~Born(q) => calls'[q] = 0)
    BY <1>10 DEF Ahead
  <2>1. calls[q] =< counter[q] /\ (~Born(q) => calls[q] = 0)
    BY DEF IInv, Ahead
  <2> QED BY <1>11, <1>12, <2>1, SMT
<1>14. Counted'
  <2>1. ASSUME NEW d \in cuids
        PROVE  /\ d.pid \in Pids /\ d.call \in Nat /\ Born(d.pid)
               /\ d.call < calls[d.pid] /\ d.call < calls'[d.pid]
               /\ d.count = (counter'[d.pid] - calls'[d.pid] + d.call) % Discrete
    <3>1. d.pid \in Pids /\ d.call \in Nat
      BY <1>1 DEF TypeOK, Cuid
    <3>2. /\ Born(d.pid) /\ d.call < calls[d.pid]
          /\ d.count = (counter[d.pid] - calls[d.pid] + d.call) % Discrete
      BY DEF IInv, Counted
    <3>3. /\ counter'[d.pid] - calls'[d.pid] = counter[d.pid] - calls[d.pid]
          /\ d.call < calls'[d.pid]
      BY <1>12, <3>1, <3>2, SMT
    <3> QED BY <3>1, <3>2, <3>3
  <2>2. /\ c.call < calls'[p]
        /\ counter'[p] - calls'[p] + c.call = counter[p]
    BY <1>1, <1>7, <1>12, SMT
  <2>3. ASSUME NEW d \in cuids, d.pid = c.pid PROVE d.call # c.call
    BY <1>2, <1>7, <2>1, <2>3, SMT
  <2>4. \A d, e \in cuids : d.pid = e.pid /\ d.call = e.call => d = e
    BY DEF IInv, Counted
  <2> SUFFICES ASSUME NEW d \in cuids'
               PROVE  /\ Born(d.pid) /\ d.call < calls'[d.pid]
                      /\ d.count = (counter'[d.pid] - calls'[d.pid] + d.call)
                                     % Discrete
                      /\ \A e \in cuids' :
                           d.pid = e.pid /\ d.call = e.call => d = e
                      /\ d.pid \in Pids
    BY <1>10 DEF Counted
  <2>5. CASE d = c
    BY <1>1, <1>6, <1>7, <1>11, <2>2, <2>3, <2>5
  <2>6. CASE d \in cuids
    BY <1>6, <2>1, <2>3, <2>4, <2>6
  <2> QED BY <1>6, <2>5, <2>6
<1>15. Marked'
  <2>1. \A q \in Pids : IF first'[q] = NoPid THEN fingerprint'[q] = NoPrint
                        ELSE fingerprint'[q] = first'[q] % HostPids
    <3> SUFFICES ASSUME NEW q \in Pids
                 PROVE  IF first'[q] = NoPid THEN fingerprint'[q] = NoPrint
                        ELSE fingerprint'[q] = first'[q] % HostPids
      OBVIOUS
    <3>1. CASE q = p
      <4>1. first'[q] = root /\ fingerprint'[q] = root % HostPids
        BY <1>1, <1>4, <1>6, <3>1 DEF TypeOK
      <4> QED BY <1>4, <4>1, IdsAssumption
    <3>2. CASE q # p
      BY <1>1, <1>6, <3>2 DEF TypeOK, IInv, Marked
    <3> QED BY <3>1, <3>2
  <2>2. \A d \in cuids' : d.print = d.first % HostPids
    BY <1>4, <1>6, <1>7 DEF IInv, Marked
  <2> QED BY <2>1, <2>2 DEF Marked
<1> QED BY <1>8, <1>9, <1>13, <1>14, <1>15 DEF IInv

\* A child inherits globals that fit the last uuid of its parent, a counter
\* that is ahead of the calls it made (none), and a fingerprint with its origin.
LEMMA ForkInvariant ==
  ASSUME IInv, NEW w \in Workers, NEW p \in Pids, NEW child \in Pids,
         Fork(w, p, child)
  PROVE  IInv'
<1>1. TypeOK'
  BY DEF IInv, TypeOK, Fork
<1>2. Homed'
  BY DEF IInv, TypeOK, Homed, Fork
<1>3. Linked'
  BY DEF IInv, TypeOK, Linked, Fork
<1>4. /\ ~Born(child) /\ calls' = calls /\ cuids' = cuids
      /\ counter' = [counter EXCEPT ![child] = counter[p]]
      /\ home[w] = NoPid /\ home' = [home EXCEPT ![w] = child]
      /\ TypeOK /\ Ahead /\ Counted /\ Marked
  BY DEF Fork, IInv
<1>5. \A q \in Pids : Born(q) => Born(q)'
  BY <1>4, IdsAssumption DEF Born, TypeOK
<1>6. Ahead'
  <2> SUFFICES ASSUME NEW q \in Pids
               PROVE  calls[q] =< counter'[q] /\ (~Born(q)' => calls[q] = 0)
    BY <1>4 DEF Ahead
  <2>1. calls[q] =< counter[q] /\ (~Born(q) => calls[q] = 0)
        /\ calls[child] = 0 /\ counter[p] \in Nat
    BY <1>4 DEF Ahead, TypeOK
  <2>2. counter'[q] = IF q = child THEN counter[p] ELSE counter[q]
    BY <1>4 DEF TypeOK
  <2> QED BY <1>5, <2>1, <2>2, SMT
<1>7. Counted'
  <2>1. \A c \in cuids : c.pid \in Pids /\ c.pid # child /\ Born(c.pid)'
    BY <1>4, <1>5 DEF Counted, TypeOK, Cuid
  <2>2. \A c \in cuids : counter'[c.pid] = counter[c.pid]
    BY <1>4, <2>1 DEF TypeOK
  <2> QED BY <1>4, <2>1, <2>2 DEF Counted
<1>8. Marked'
  BY DEF IInv, TypeOK, Marked, Fork
<1> QED BY <1>1, <1>2, <1>3, <1>6, <1>7, <1>8 DEF IInv

\* A thread that starts makes its process run, and changes no generator.
LEMMA BootInvariant ==
  ASSUME IInv, NEW w \in Workers, NEW p \in Pids, Boot(w, p)
  PROVE  IInv'
<1>1. TypeOK' /\ Homed' /\ Linked' /\ Marked'
  BY DEF IInv, TypeOK, Homed, Linked, Marked, Boot, uuidVars, cuidVars
<1>2. /\ home[w] = NoPid /\ home' = [home EXCEPT ![w] = p]
      /\ calls' = calls /\ cuids' = cuids /\ counter' = counter
      /\ TypeOK /\ Ahead /\ Counted
  BY DEF Boot, cuidVars, IInv
<1>3. \A q \in Pids : Born(q) => Born(q)'
  BY <1>2, IdsAssumption DEF Born, TypeOK
<1>4. Ahead'
  BY <1>2, <1>3 DEF Ahead
<1>5. \A c \in cuids : c.pid \in Pids
  BY <1>2 DEF TypeOK, Cuid
<1>6. Counted'
  BY <1>2, <1>3, <1>5 DEF Counted
<1> QED BY <1>1, <1>4, <1>6 DEF IInv

\* Every step keeps the invariant.
LEMMA NextInvariant ==
  ASSUME IInv, [Next]_vars
  PROVE  IInv'
<1>1. CASE Tick
  BY <1>1 DEF IInv, TypeOK, Homed, Linked, Ahead, Counted, Marked, Born, Tick,
              uuidVars, cuidVars
<1>2. ASSUME NEW w \in Workers, ReadClock(w) PROVE IInv'
  <2>1. TypeOK'
    BY <1>2, IdsAssumption, SMT DEF IInv, TypeOK, ReadClock, uuidVars, cuidVars
  <2>2. Homed'
    BY <1>2 DEF IInv, TypeOK, Homed, ReadClock
  <2>3. Linked' /\ Ahead' /\ Counted' /\ Marked'
    BY <1>2 DEF IInv, Linked, Ahead, Counted, Marked, Born, ReadClock, uuidVars,
                cuidVars
  <2> QED BY <2>1, <2>2, <2>3 DEF IInv
<1>3. ASSUME NEW w \in Workers, Issue(w) PROVE IInv'
  BY <1>3, IssueInvariant
<1>4. ASSUME NEW w \in Workers, Generate(w) PROVE IInv'
  BY <1>4, GenerateInvariant
<1>5. ASSUME NEW w \in Workers, NEW p \in Pids, Boot(w, p) PROVE IInv'
  BY <1>5, BootInvariant
<1>6. ASSUME NEW w \in Workers, NEW p \in Pids, NEW child \in Pids,
             Fork(w, p, child)
      PROVE  IInv'
  BY <1>6, ForkInvariant
<1>7. CASE UNCHANGED vars
  BY <1>7 DEF IInv, TypeOK, Homed, Linked, Ahead, Counted, Marked, Born, vars
<1> QED BY <1>1, <1>2, <1>3, <1>4, <1>5, <1>6, <1>7 DEF Next

\* The invariant holds in every state.
LEMMA Invariant == Spec => []IInv
<1>1. Init => IInv
  BY InitInvariant
<1>2. IInv /\ [Next]_vars => IInv'
  BY NextInvariant
<1> QED BY <1>1, <1>2, PTL DEF Spec

-----------------------------------------------------------------------------
(* The theorems.                                                           *)

\* Every value stays in its range; the 12-bit counter of _uuid7 never
\* overflows into the version bits.
THEOREM TypeCorrect == Spec => []TypeOK
<1>1. IInv => TypeOK
  BY DEF IInv
<1> QED BY <1>1, Invariant, PTL

\* Two cuids agree in all that does not depend on luck only across 36^4 calls
\* of one process, or between processes that are akin.
THEOREM CuidsStayApart == Spec => []CuidsApart
<1>1. IInv => CuidsApart
  <2> SUFFICES ASSUME IInv, NEW c \in cuids, NEW d \in cuids, c # d,
                      c.count = d.count, c.print = d.print
               PROVE  IF c.pid = d.pid THEN ~Near(c, d) ELSE Akin(c, d)
    BY DEF CuidsApart
  <2>1. CASE c.pid # d.pid
    BY <2>1 DEF IInv, Marked, Akin
  <2>2. CASE c.pid = d.pid
    <3> DEFINE q == c.pid  k == counter[q] - calls[q]
    <3>1. /\ c.call \in Nat /\ d.call \in Nat /\ k \in Nat
          /\ Discrete \in Nat \ {0}
      <4>1. q \in Pids /\ c.call \in Nat /\ d.call \in Nat
        BY DEF IInv, TypeOK, Cuid
      <4>2. counter[q] \in Nat /\ calls[q] \in Nat /\ calls[q] =< counter[q]
        BY <4>1 DEF IInv, TypeOK, Ahead
      <4> QED BY <4>1, <4>2, IdsAssumption, SMT
    <3>2. /\ (k + c.call) % Discrete = (k + d.call) % Discrete
          /\ c.call # d.call
      BY <2>2 DEF IInv, Counted
    <3> HIDE DEF k
    <3>3. CASE c.call < d.call /\ d.call < c.call + Discrete
      <4>1. /\ k + c.call \in Nat /\ k + d.call \in Nat
            /\ k + c.call < k + d.call /\ k + d.call < (k + c.call) + Discrete
        BY <3>1, <3>3, SMT
      <4> QED BY <3>1, <3>2, <4>1, CloseRemainders
    <3>4. CASE d.call < c.call /\ c.call < d.call + Discrete
      <4>1. /\ k + c.call \in Nat /\ k + d.call \in Nat
            /\ k + d.call < k + c.call /\ k + c.call < (k + d.call) + Discrete
        BY <3>1, <3>4, SMT
      <4> QED BY <3>1, <3>2, <4>1, CloseRemainders
    <3>5. ASSUME Near(c, d)
          PROVE  \/ c.call < d.call /\ d.call < c.call + Discrete
                 \/ d.call < c.call /\ c.call < d.call + Discrete
      BY <3>1, <3>2, <3>5, SMT DEF Near
    <3> QED BY <2>2, <3>3, <3>4, <3>5
  <2> QED BY <2>1, <2>2
<1> QED BY <1>1, Invariant, PTL

\* The uuids of a process sort by creation, under every clock and every
\* schedule of its threads.
THEOREM UuidsSort == Spec => UuidSorts
<1>1. ASSUME IInv, [Next]_vars, NEW w \in Workers, now[w] # -1, now'[w] = -1,
             millisecond'[home[w]] < Width
      PROVE  /\ Less(uuid[home[w]], uuid'[home[w]])
             /\ now[w] =< uuid'[home[w]][1]
  <2> DEFINE p == home[w]  t == NextTick(w)
  <2>1. Issue(w)
    <3>1. \A v \in Workers : ReadClock(v) => now'[w] # -1
      BY <1>1, IdsAssumption, SMT DEF IInv, TypeOK, ReadClock
    <3>2. \A v \in Workers : Issue(v) => v = w
      BY <1>1 DEF IInv, TypeOK, Issue
    <3> QED BY <1>1, <3>1, <3>2
            DEF Next, Tick, Generate, Boot, Fork, vars
  <2>2. TypeOK /\ p \in Pids
    BY <1>1 DEF IInv, Homed
  <2>3. /\ t[1] \in Nat /\ t[2] \in 0 .. MaxSequence
        /\ millisecond[p] =< t[1] /\ now[w] =< t[1]
        /\ Less(<<millisecond[p], sequence[p]>>, t)
    BY <1>1, <2>2, TickForward
  <2> HIDE DEF t
  <2>4. millisecond'[p] = t[1] /\ uuid'[p] = <<t[1] % Width, t[2]>>
    BY <2>1, <2>2 DEF Issue, t, TypeOK
  <2>5. t[1] < Width /\ t[1] % Width = t[1]
    BY <1>1, <2>3, <2>4, IdsAssumption, SmallRemainder
  <2>6. millisecond[p] \in Int /\ Width \in Nat /\ millisecond[p] < Width
    <3>1. millisecond[p] \in Int /\ Width \in Nat
      BY <2>2, Ranges, IdsAssumption
    <3> QED BY <2>3, <2>5, <3>1, SMT
  <2>7. uuid[p][1] = millisecond[p] /\ uuid[p][2] = sequence[p]
    BY <1>1, <2>2, <2>6 DEF IInv, Linked
  <2>8. Less(uuid[p], uuid'[p])
    BY <2>3, <2>4, <2>5, <2>7 DEF Less
  <2> QED BY <2>3, <2>4, <2>5, <2>8
<1>2. IInv /\ [Next]_vars =>
        [\A w \in Workers :
           now[w] # -1 /\ now'[w] = -1 =>
             LET p == home[w] IN
             millisecond'[p] < Width =>
               Less(uuid[p], uuid'[p]) /\ now[w] =< uuid'[p][1]]_vars
  BY <1>1
<1> QED BY <1>2, Invariant, PTL DEF Spec, UuidSorts

-----------------------------------------------------------------------------
(* Report: the inductive invariant.                                        *)

\* What is found of a call, and a block while it is open.
FoundSites ==
  [call : {Scanned(c) : c \in Calls \cup Probes},
   status : {"verified", "stop", "unknown"},
   block : Nat, runs_in : Nat, transaction : Nat]
OpenBlocks == [id : Nat, target : Names, seen : BOOLEAN, transaction : Nat]

ReportTypeOK ==
  /\ opened \in Nat
  /\ blocks \in Seq(OpenBlocks)
  /\ sites \in Seq(FoundSites)

\* A status is what its call was classified as.
Classified == \A i \in DOMAIN sites : sites[i].status = Classify(sites[i].call)

\* No two open blocks have one handle, or one id.
Nested ==
  /\ \A i \in DOMAIN blocks : blocks[i].id \in 1 .. opened
  /\ \A i, j \in DOMAIN blocks :
       blocks[i].id = blocks[j].id \/ blocks[i].target = blocks[j].target => i = j

\* What belongs to a block runs in it, and the calls that run in one block
\* belong to it all or none, also those that are still to come.
Placed ==
  /\ \A i \in DOMAIN sites :
       sites[i].runs_in <= opened /\ sites[i].block \in {0, sites[i].runs_in}
  /\ \A i, j \in DOMAIN sites :
       sites[i].runs_in = sites[j].runs_in => sites[i].block = sites[j].block
  /\ \A i \in DOMAIN sites, n \in DOMAIN blocks :
       sites[i].runs_in = blocks[n].id =>
         sites[i].block = IF blocks[n].seen THEN blocks[n].id ELSE 0

ReportInv == ReportTypeOK /\ Classified /\ Nested /\ Placed

\* A sequence with one more element.
LEMMA AppendAt ==
  ASSUME NEW S, NEW s \in Seq(S), NEW e \in S
  PROVE  /\ Append(s, e) \in Seq(S)
         /\ DOMAIN Append(s, e) = DOMAIN s \cup {Len(s) + 1}
         /\ Append(s, e)[Len(s) + 1] = e
         /\ \A i \in DOMAIN s : i # Len(s) + 1 /\ Append(s, e)[i] = s[i]
  OBVIOUS

\* The status of a call is one of three.
LEMMA StatusType ==
  ASSUME NEW s
  PROVE  Classify(s) \in {"verified", "stop", "unknown"}
  BY DEF Classify

\* What is found of a call depends on the bindings of its file only.
LEMMA SitesAreStable ==
  ASSUME stmts' = stmts
  PROVE  /\ \A c : Scanned(c)' = Scanned(c)
         /\ FoundSites' = FoundSites
<1>1. ASSUME NEW c PROVE Scanned(c)' = Scanned(c)
  BY DEF Scanned, Resolution, Resolve
<1> QED BY <1>1 DEF FoundSites

\* The fields of what is found and of what is open.
LEMMA FieldTypes ==
  ASSUME ReportTypeOK
  PROVE  /\ \A i \in DOMAIN sites :
              /\ \E c \in Calls \cup Probes : sites[i].call = Scanned(c)
              /\ sites[i].status \in {"verified", "stop", "unknown"}
              /\ sites[i].block \in Nat /\ sites[i].runs_in \in Nat
         /\ \A n \in DOMAIN blocks :
              /\ n \in Nat /\ blocks[n].id \in Nat
              /\ blocks[n].transaction \in Nat /\ blocks[n].seen \in BOOLEAN
         /\ \E n \in Nat : DOMAIN sites = 1 .. n
<1>1. \A i \in DOMAIN sites : sites[i] \in FoundSites
  BY DEF ReportTypeOK
<1>2. \A n \in DOMAIN blocks : n \in Nat /\ blocks[n] \in OpenBlocks
  BY DEF ReportTypeOK
<1>3. \A x \in FoundSites :
        /\ x.call \in {Scanned(c) : c \in Calls \cup Probes}
        /\ x.status \in {"verified", "stop", "unknown"}
        /\ x.block \in Nat /\ x.runs_in \in Nat
  BY DEF FoundSites
<1>4. \A x \in OpenBlocks : x.id \in Nat /\ x.transaction \in Nat /\ x.seen \in BOOLEAN
  BY DEF OpenBlocks
<1>5. \E n \in Nat : DOMAIN sites = 1 .. n
  BY DEF ReportTypeOK
<1> QED BY <1>1, <1>2, <1>3, <1>4, <1>5

\* The innermost block with a handle is the only one.
LEMMA TheOnlyBlock ==
  ASSUME ReportTypeOK, Nested, NEW name, NEW n \in DOMAIN blocks, blocks[n].target = name
  PROVE  /\ Innermost(Handles(name)) = blocks[n]
         /\ Block(name) = IF blocks[n].seen THEN blocks[n].id ELSE 0
<1>1. Handles(name) = {n}
  BY DEF Handles, Nested
<1>2. n \in Nat
  BY DEF ReportTypeOK
<1>3. (CHOOSE i \in {n} : \A j \in {n} : j <= i) = n
  BY <1>2
<1>4. {i \in Handles(name) : blocks[i].seen} = IF blocks[n].seen THEN {n} ELSE {}
  BY <1>1
<1>5. Innermost({n}) = blocks[n] /\ Innermost({}) = NoBlock
  BY <1>3 DEF Innermost
<1> QED BY <1>1, <1>4, <1>5 DEF Block, NoBlock

\* A call through any other name runs in no block.
LEMMA NoSuchBlock ==
  ASSUME NEW name, \A n \in DOMAIN blocks : blocks[n].target # name
  PROVE  Innermost(Handles(name)) = NoBlock /\ Block(name) = 0
<1>1. Handles(name) = {} /\ {i \in Handles(name) : blocks[i].seen} = {}
  BY DEF Handles
<1> QED BY <1>1 DEF Innermost, Block, NoBlock

\* Nothing is found or open at the beginning of a file.
LEMMA ReportStarts == ASSUME ScanInit PROVE ReportInv
<1>1. DOMAIN blocks = {} /\ DOMAIN sites = {}
  BY DEF ScanInit
<1>2. ReportTypeOK
  BY DEF ScanInit, ReportTypeOK
<1> QED BY <1>1, <1>2 DEF ReportInv, Classified, Nested, Placed

\* A call that is found keeps the invariant, if it is placed like the others.
LEMMA FoundStep ==
  ASSUME ReportInv, stmts' = stmts, NEW c \in Calls \cup Probes,
         NEW block \in Nat, NEW own, own.id \in Nat, own.transaction \in Nat,
         sites' = Append(sites, Site(c, block, own))
  PROVE  /\ sites' \in Seq(FoundSites) /\ Classified'
         /\ DOMAIN sites' = DOMAIN sites \cup {Len(sites) + 1}
         /\ sites'[Len(sites) + 1].block = block
         /\ sites'[Len(sites) + 1].runs_in = own.id
         /\ \A i \in DOMAIN sites : sites'[i] = sites[i]
<1> DEFINE new == Site(c, block, own)
<1>1. /\ new \in FoundSites /\ new.call = Scanned(c) /\ new.status = Classify(Scanned(c))
      /\ new.block = block /\ new.runs_in = own.id
  BY StatusType DEF Site, FoundSites
<1> HIDE DEF new
<1>2. sites \in Seq(FoundSites) /\ sites' = Append(sites, new)
  BY DEF ReportInv, ReportTypeOK, new
<1>3. /\ sites' \in Seq(FoundSites)
      /\ DOMAIN sites' = DOMAIN sites \cup {Len(sites) + 1}
      /\ sites'[Len(sites) + 1] = new
      /\ \A i \in DOMAIN sites : i # Len(sites) + 1 /\ sites'[i] = sites[i]
  BY <1>1, <1>2, AppendAt
<1>4. \A s : Classify(s)' = Classify(s)
  BY DEF Classify, Verdicts
<1>5. Classified'
  BY <1>1, <1>3, <1>4 DEF Classified, ReportInv
<1> QED BY <1>1, <1>3, <1>5

\* A call that is found is placed like the others of its block (visit_Call).
LEMMA CallStep ==
  ASSUME ReportInv, NEW c \in Calls, Call(c)
  PROVE  ReportInv'
<1> DEFINE own == Innermost(Handles(c.name))
           last == Len(sites) + 1
<1> USE DEF Call
<1>1. CASE \A n \in DOMAIN blocks : blocks[n].target # c.name
  <2>1. own = NoBlock /\ Block(c.name) = 0
    BY <1>1, NoSuchBlock
  <2>2. own.id = 0 /\ own.transaction = 0
    BY <2>1 DEF NoBlock
  <2> HIDE DEF own
  <2>3. /\ sites' \in Seq(FoundSites) /\ Classified'
        /\ DOMAIN sites' = DOMAIN sites \cup {last}
        /\ sites'[last].block = 0 /\ sites'[last].runs_in = 0
        /\ \A i \in DOMAIN sites : sites'[i] = sites[i]
    BY <2>1, <2>2, FoundStep DEF own
  <2>4. Placed'
    <3>1. /\ \A i \in DOMAIN sites : sites[i].runs_in \in Nat /\ sites[i].block \in Nat
          /\ \A n \in DOMAIN blocks : blocks[n].id \in Nat \ {0}
          /\ opened \in Nat
      BY FieldTypes DEF ReportInv, ReportTypeOK, Nested
    <3> QED BY <2>3, <3>1 DEF Placed, ReportInv
  <2> QED
    BY <2>3, <2>4, SitesAreStable DEF ReportInv, ReportTypeOK, Nested
<1>2. ASSUME NEW n \in DOMAIN blocks, blocks[n].target = c.name
      PROVE  ReportInv'
  <2>1. own = blocks[n] /\ Block(c.name) = IF blocks[n].seen THEN blocks[n].id ELSE 0
    BY <1>2, TheOnlyBlock DEF ReportInv
  <2>2. own.id \in Nat /\ own.transaction \in Nat /\ Block(c.name) \in Nat
    BY <2>1, FieldTypes DEF ReportInv
  <2> HIDE DEF own
  <2>3. /\ sites' \in Seq(FoundSites) /\ Classified'
        /\ DOMAIN sites' = DOMAIN sites \cup {last}
        /\ sites'[last].block = Block(c.name) /\ sites'[last].runs_in = blocks[n].id
        /\ \A i \in DOMAIN sites : sites'[i] = sites[i]
    BY <2>1, <2>2, FoundStep DEF own
  <2>4. Placed'
    <3>1. \A m \in DOMAIN blocks : blocks[m].id = blocks[n].id => m = n
      BY DEF ReportInv, Nested
    <3>2. \A i \in DOMAIN sites : sites[i].runs_in = blocks[n].id => sites[i].block = Block(c.name)
      BY <2>1 DEF ReportInv, Placed
    <3>3. blocks[n].id \in 1 .. opened /\ Block(c.name) \in {0, blocks[n].id}
      BY <2>1 DEF ReportInv, Nested
    <3>4. \A i \in DOMAIN sites' :
            sites'[i].runs_in <= opened' /\ sites'[i].block \in {0, sites'[i].runs_in}
      BY <2>3, <3>3 DEF ReportInv, Placed, ReportTypeOK
    <3>5. \A i, j \in DOMAIN sites' :
            sites'[i].runs_in = sites'[j].runs_in => sites'[i].block = sites'[j].block
      BY <2>3, <3>2 DEF ReportInv, Placed
    <3>6. \A i \in DOMAIN sites', m \in DOMAIN blocks' :
            sites'[i].runs_in = blocks'[m].id =>
              sites'[i].block = IF blocks'[m].seen THEN blocks'[m].id ELSE 0
      BY <2>1, <2>3, <3>1 DEF ReportInv, Placed
    <3> QED BY <3>4, <3>5, <3>6 DEF Placed
  <2> QED
    BY <2>3, <2>4, SitesAreStable DEF ReportInv, ReportTypeOK, Nested
<1> QED BY <1>1, <1>2

\* The call that opens a block is the first of it (_visit_with).
LEMMA OpenStep ==
  ASSUME ReportInv, NEW c \in Calls, NEW target \in Names, Open(c, target)
  PROVE  ReportInv'
<1> DEFINE id == opened + 1
           in == Innermost(Handles(c.name)).transaction
           b  == [id |-> id, target |-> target, seen |-> Entry(c) # "none",
                  transaction |-> IF c.action = "batch_" /\ in # 0 THEN in ELSE id]
           last == Len(sites) + 1
<1>1. in \in Nat
  <2>1. CASE \A n \in DOMAIN blocks : blocks[n].target # c.name
    BY <2>1, NoSuchBlock DEF NoBlock
  <2>2. ASSUME NEW n \in DOMAIN blocks, blocks[n].target = c.name
        PROVE  in \in Nat
    BY <2>2, TheOnlyBlock, FieldTypes DEF ReportInv
  <2> QED BY <2>1, <2>2
<1>2. /\ b \in OpenBlocks /\ b.id = id /\ b.target = target /\ b.transaction \in Nat
      /\ b.seen \in BOOLEAN
  <2> HIDE DEF in
  <2> QED BY <1>1 DEF OpenBlocks, ReportInv, ReportTypeOK
<1>3. /\ opened' = id /\ blocks' = Append(blocks, b) /\ stmts' = stmts
      /\ sites' = IF b.seen THEN Append(sites, Site(c, id, b)) ELSE sites
      /\ \A i \in DOMAIN blocks : blocks[i].target # target
  BY DEF Open
<1> HIDE DEF b
<1>4. /\ opened \in Nat /\ blocks \in Seq(OpenBlocks) /\ sites \in Seq(FoundSites)
      /\ opened' \in Nat
  BY <1>3 DEF ReportInv, ReportTypeOK
<1>5. /\ blocks' \in Seq(OpenBlocks)
      /\ DOMAIN blocks' = DOMAIN blocks \cup {Len(blocks) + 1}
      /\ blocks'[Len(blocks) + 1] = b
      /\ \A i \in DOMAIN blocks : i # Len(blocks) + 1 /\ blocks'[i] = blocks[i]
  BY <1>2, <1>3, <1>4, AppendAt
<1>6. Nested'
  BY <1>2, <1>3, <1>4, <1>5 DEF ReportInv, Nested
<1>7. \A i \in DOMAIN sites : sites[i].runs_in \in Nat /\ sites[i].runs_in < id
  BY <1>4, FieldTypes DEF ReportInv, Placed
<1>8. CASE b.seen
  <2>1. /\ sites' \in Seq(FoundSites) /\ Classified'
        /\ DOMAIN sites' = DOMAIN sites \cup {last}
        /\ sites'[last].block = id /\ sites'[last].runs_in = id
        /\ \A i \in DOMAIN sites : sites'[i] = sites[i]
    BY <1>2, <1>3, <1>4, <1>8, FoundStep
  <2>2. Placed'
    <3>1. \A i \in DOMAIN sites' :
            sites'[i].runs_in <= opened' /\ sites'[i].block \in {0, sites'[i].runs_in}
      BY <1>3, <1>4, <1>7, <2>1 DEF ReportInv, Placed
    <3>2. \A i, j \in DOMAIN sites' :
            sites'[i].runs_in = sites'[j].runs_in => sites'[i].block = sites'[j].block
      BY <1>7, <2>1 DEF ReportInv, Placed
    <3>3. \A i \in DOMAIN sites', m \in DOMAIN blocks' :
            sites'[i].runs_in = blocks'[m].id =>
              sites'[i].block = IF blocks'[m].seen THEN blocks'[m].id ELSE 0
      <4>1. \A m \in DOMAIN blocks : blocks[m].id # id
        BY <1>4 DEF ReportInv, Nested
      <4> QED BY <1>2, <1>5, <1>7, <1>8, <2>1, <4>1 DEF ReportInv, Placed
    <3> QED BY <3>1, <3>2, <3>3 DEF Placed
  <2> QED
    BY <1>3, <1>4, <1>5, <1>6, <2>1, <2>2, SitesAreStable DEF ReportInv, ReportTypeOK
<1>9. CASE ~b.seen
  <2>1. sites' = sites
    BY <1>2, <1>3, <1>9
  <2>2. Placed'
    BY <1>2, <1>3, <1>4, <1>5, <1>7, <2>1 DEF ReportInv, Placed
  <2>3. Classified'
    BY <2>1 DEF ReportInv, Classified, Classify, Verdicts
  <2> QED
    BY <1>3, <1>4, <1>5, <1>6, <2>1, <2>2, <2>3, SitesAreStable DEF ReportInv, ReportTypeOK
<1> QED BY <1>8, <1>9

\* The end of a block changes nothing that was found.
LEMMA CloseStep ==
  ASSUME ReportInv, Close
  PROVE  ReportInv'
<1>1. /\ blocks \in Seq(OpenBlocks) /\ blocks # <<>> /\ blocks' = Front(blocks)
      /\ opened' = opened /\ sites' = sites /\ stmts' = stmts
  BY DEF Close, ReportInv, ReportTypeOK
<1>2. /\ blocks' \in Seq(OpenBlocks) /\ DOMAIN blocks' \subseteq DOMAIN blocks
      /\ \A i \in DOMAIN blocks' : blocks'[i] = blocks[i]
  BY <1>1 DEF Front
<1>3. ReportTypeOK'
  BY <1>1, <1>2, SitesAreStable DEF ReportInv, ReportTypeOK
<1>4. Nested' /\ Placed'
  BY <1>1, <1>2 DEF ReportInv, Nested, Placed
<1>5. Classified'
  BY <1>1 DEF ReportInv, Classified, Classify, Verdicts
<1> QED BY <1>3, <1>4, <1>5 DEF ReportInv

\* A call alone in its file is in no block.
LEMMA ProbeStep ==
  ASSUME ReportInv, NEW c \in Probes, opened = 0, sites = <<>>, Probe(c)
  PROVE  ReportInv'
<1>1. NoBlock.id = 0 /\ NoBlock.transaction = 0
  BY DEF NoBlock
<1>2. /\ sites' = Append(sites, Site(c, 0, NoBlock)) /\ stmts' = stmts
      /\ blocks' = blocks /\ opened' = opened
  BY DEF Probe
<1>3. DOMAIN blocks = {} /\ DOMAIN sites = {} /\ opened \in Nat
  BY DEF ReportInv, ReportTypeOK, Nested
<1>4. /\ sites' \in Seq(FoundSites) /\ Classified'
      /\ DOMAIN sites' = {1} /\ sites'[1].block = 0 /\ sites'[1].runs_in = 0
  BY <1>1, <1>2, <1>3, FoundStep
<1>5. Nested' /\ Placed'
  BY <1>2, <1>3, <1>4 DEF Nested, Placed, ReportInv
<1> QED
  BY <1>2, <1>4, <1>5, SitesAreStable DEF ReportInv, ReportTypeOK

\* The invariant holds wherever the scanner is in a file.
THEOREM ReportInvariant == ScanSpec => []ReportInv
<1>1. ScanInit => ReportInv
  BY ReportStarts
<1>2. ReportInv /\ [ScanNext]_reportVars => ReportInv'
  <2> SUFFICES ASSUME ReportInv, [ScanNext]_reportVars PROVE ReportInv'
    OBVIOUS
  <2>1. CASE UNCHANGED reportVars
    BY <2>1, SitesAreStable DEF reportVars, ReportInv, ReportTypeOK, Nested, Placed,
          Classified, Classify, Verdicts
  <2>2. CASE ScanNext
    BY <2>2, CallStep, OpenStep, CloseStep, ProbeStep DEF ScanNext
  <2> QED BY <2>1, <2>2
<1> QED BY <1>1, <1>2, PTL DEF ScanSpec

-----------------------------------------------------------------------------
(* Report: what follows from it.                                           *)

\* The elements of a sequence are what stands at its places.
LEMMA Elements ==
  ASSUME NEW s
  PROVE  ToSet(s) = {s[i] : i \in DOMAIN s}
  BY DEF ToSet

\* Calls that run in one block belong to it together, so that a STOP in one of
\* them is a STOP of the block (_block_transactions).
LEMMA BlocksAreWhole ==
  ASSUME ReportInv
  PROVE  BlocksMigrateWhole
<1> SUFFICES ASSUME NEW i \in DOMAIN sites, sites[i].status = "verified"
             PROVE  Status(sites[i]) = "stop" <=>
                      \E o \in ToSet(sites) : /\ o.runs_in = sites[i].runs_in
                                              /\ sites[i].block # 0 /\ o.status = "stop"
  BY Elements DEF BlocksMigrateWhole
<1>1. Status(sites[i]) = "stop" <=> sites[i].block # 0 /\ Blocked(sites[i].block)
  BY DEF Status
<1>2. ASSUME sites[i].block # 0, NEW j \in DOMAIN sites
      PROVE  sites[j].block = sites[i].block <=> sites[j].runs_in = sites[i].runs_in
  BY <1>2 DEF ReportInv, Placed
<1> QED BY <1>1, <1>2, Elements DEF Blocked

\* How many calls a phase counts.
LEMMA TallyCounts ==
  ASSUME ReportInv, NEW status
  PROVE  /\ Tally(status) \in Nat
         /\ Tally(status) = 0 <=> \A i \in DOMAIN sites : Status(sites[i]) # status
         /\ Tally(status) = 1 => \E i \in DOMAIN sites :
              \A j \in DOMAIN sites : Status(sites[j]) = status <=> j = i
<1> DEFINE C == {i \in DOMAIN sites : Status(sites[i]) = status}
<1>1. IsFiniteSet(DOMAIN sites)
  <2>1. DOMAIN sites = 1 .. Len(sites) /\ Len(sites) \in Int
    BY DEF ReportInv, ReportTypeOK
  <2> QED BY <2>1, FS_Interval
<1>2. IsFiniteSet(C)
  BY <1>1, FS_Subset
<1>3. Tally(status) = Cardinality(C)
  BY DEF Tally
<1> HIDE DEF C
<1>4. /\ Cardinality(C) \in Nat
      /\ Cardinality(C) = 0 <=> C = {}
      /\ Cardinality(C) = 1 <=> \E x : C = {x}
  <2>1. Cardinality(C) \in Nat
    BY <1>2, FS_CardinalityType
  <2>2. Cardinality(C) = 0 <=> C = {}
    BY <1>2, FS_EmptySet
  <2>3. Cardinality(C) = 1 <=> \E x : C = {x}
    BY <1>2, FS_Singleton
  <2> QED BY <2>1, <2>2, <2>3
<1> QED BY <1>3, <1>4 DEF C

\* What is counted is the status after blocking: a single STOP has blocked
\* nothing (_group, _phase).
LEMMA PhasesAreRight ==
  ASSUME ReportInv
  PROVE  PhasesCostRight
<1> DEFINE own(i) == sites[i].status
<1>1. \A i \in DOMAIN sites : own(i) \in {"verified", "stop", "unknown"}
  BY FieldTypes DEF ReportInv
<1>2. \A i \in DOMAIN sites :
        /\ Status(sites[i]) \in {"verified", "stop", "unknown"}
        /\ Status(sites[i]) = "verified" => own(i) = "verified"
        /\ own(i) # "verified" => Status(sites[i]) = own(i)
  BY <1>1 DEF Status
<1>3. Tally("verified") \in Nat /\ Tally("stop") \in Nat /\ Tally("unknown") \in Nat
  BY TallyCounts
<1>4. Phase = "migratable-now" => \A i \in DOMAIN sites : own(i) = "verified"
  <2>1. Phase = "migratable-now" => Tally("stop") = 0 /\ Tally("unknown") = 0
    BY <1>3 DEF Phase
  <2> QED BY <1>2, <2>1, TallyCounts
<1>5. ASSUME Phase = "one-blocker"
      PROVE  \E i \in DOMAIN sites :
               /\ own(i) = "stop"
               /\ \A j \in DOMAIN sites \ {i} :
                    /\ own(j) = "verified"
                    /\ sites[j].block # sites[i].block \/ sites[j].block = 0
  <2>1. Tally("stop") = 1 /\ Tally("unknown") = 0
    BY <1>3, <1>5 DEF Phase
  <2>2. PICK i \in DOMAIN sites :
          \A j \in DOMAIN sites : Status(sites[j]) = "stop" <=> j = i
    BY <2>1, TallyCounts
  <2>3. \A j \in DOMAIN sites \ {i} : Status(sites[j]) = "verified"
    BY <1>2, <2>1, <2>2, TallyCounts
  <2>4. own(i) = "stop"
    <3>1. CASE own(i) = "verified"
      <4>1. PICK k \in DOMAIN sites : own(k) = "stop"
        BY <2>2, <3>1 DEF Status, Blocked
      <4> QED BY <1>2, <2>2, <3>1, <4>1
    <3> QED BY <1>2, <2>2, <3>1
  <2>5. \A j \in DOMAIN sites \ {i} : sites[j].block # sites[i].block \/ sites[j].block = 0
    BY <2>3, <2>4, <1>2 DEF Status, Blocked
  <2> QED BY <1>2, <2>3, <2>4, <2>5
<1> QED BY <1>4, <1>5 DEF PhasesCostRight

\* Whatever could not be seen of a call left a verdict (classify).
LEMMA VerifiedCallsAreVisible ==
  ASSUME ReportInv
  PROVE  VerifiedIsVisible
<1> SUFFICES ASSUME NEW i \in DOMAIN sites, Classify(sites[i].call) = "verified"
             PROVE  /\ sites[i].call.action \in VERIFIED_ACTIONS
                    /\ sites[i].call.resolution \in {"binding", "convention"}
                    /\ sites[i].call.opaque = {}
                    /\ DOMAIN sites[i].call.arguments \subseteq
                         COVERED_ARGUMENTS[sites[i].call.action]
  BY Elements DEF VerifiedIsVisible, ReportInv, Classified
<1>1. PICK c \in Calls \cup Probes : sites[i].call = Scanned(c)
  BY FieldTypes DEF ReportInv
<1> DEFINE s == sites[i].call
<1>2. s.action = c.action /\ s.resolution = Resolution(c) /\ c.action \in AllActions
  BY <1>1, ReportAssumption DEF Scanned
<1>3. Resolution(c) \in {"binding", "convention", "unresolved", "dynamic"}
  BY DEF Resolution, Resolve
<1> HIDE DEF s
<1>4. \A v \in Verdicts(s) : v.verdict # "stop" /\ v.verdict # "unknown"
  BY DEF Classify, s
<1>5. Stop("aggregate") # {} /\ \A code : Unknown(code) # {}
  BY DEF Stop, Unknown
<1>6. \A code : \A v \in Stop(code) \cup Unknown(code) : v.verdict \in {"stop", "unknown"}
  BY DEF Stop, Unknown
<1>7. \A code : Unknown(code) \subseteq Verdicts(s) => FALSE
  BY <1>4, <1>5, <1>6
<1>8. ~(Stop("aggregate") \subseteq Verdicts(s))
  BY <1>4, <1>5, <1>6
<1>9. s.resolution \notin {"dynamic", "unresolved"}
  BY <1>7 DEF Verdicts
<1>10. s.action \notin STOP_ACTIONS \cup UNKNOWN_ACTIONS
  BY <1>7, <1>8 DEF Verdicts, STOP_ACTIONS, UNKNOWN_ACTIONS, RAW_ACTIONS
<1>11. s.opaque = {} /\ DOMAIN s.arguments \subseteq COVERED_ARGUMENTS[s.action]
  BY <1>7 DEF Verdicts
<1>12. s.action \in VERIFIED_ACTIONS
  BY <1>2, <1>10 DEF AllActions, MODEL_ACTIONS, RAW_ACTIONS, TRANSACTION_ACTIONS, Reads, Bulk,
                    STOP_ACTIONS, UNKNOWN_ACTIONS, VERIFIED_ACTIONS
<1> QED BY <1>2, <1>3, <1>9, <1>11, <1>12 DEF s

\* In every file, however its blocks and calls are nested, a clean call is
\* reported as STOP exactly if it runs in a block with a STOP.
THEOREM BlocksMigrateWholeCorrect == ScanSpec => []BlocksMigrateWhole
  BY ReportInvariant, BlocksAreWhole, PTL

\* In every file, "migratable-now" is a clean file and "one-blocker" one with a
\* single STOP that shares its block with no other call.
THEOREM PhasesCostRightCorrect == ScanSpec => []PhasesCostRight
  BY ReportInvariant, PhasesAreRight, PTL

\* In every file, a verified call is on a known client and hides none of its
\* arguments, whatever is wrong with their values.
THEOREM VerifiedIsVisibleCorrect == ScanSpec => []VerifiedIsVisible
  BY ReportInvariant, VerifiedCallsAreVisible, PTL


-----------------------------------------------------------------------------
(* Diagnosis, for every number of files and calls.                         *)

\* Finite sets and their sizes are what they are anywhere else.
LEMMA SameSets ==
  \A S : (Whole!IsFiniteSet(S) <=> IsFiniteSet(S)) /\ Whole!Cardinality(S) = Cardinality(S)
  BY Zenon DEF Whole!IsFiniteSet, Whole!Cardinality, IsFiniteSet, Cardinality

LEMMA BlockedAt ==
  ASSUME NEW findings, Whole!IsReport(findings), NEW i \in DOMAIN findings
  PROVE  LET f == findings[i]
             g == Whole!BlockTransactions(findings)[i]
             b == f.block # 0 /\ f.status = "verified" /\ Whole!Blocked(findings, f.block)
         IN  /\ DOMAIN g = DOMAIN f
             /\ g.path = f.path /\ g.block = f.block /\ g.resolution = f.resolution
             /\ g.status = (IF b THEN "stop" ELSE f.status)
             /\ g.code = (IF b THEN "transaction-blocked" ELSE f.code)
  BY DEF Whole!IsReport, Whole!BlockTransactions

LEMMA StillAReport ==
  ASSUME NEW findings, Whole!IsReport(findings)
  PROVE  /\ Whole!IsReport(Whole!BlockTransactions(findings))
         /\ DOMAIN Whole!BlockTransactions(findings) = DOMAIN findings
<1> DEFINE after == Whole!BlockTransactions(findings)
<1>1. DOMAIN after = DOMAIN findings
  BY DEF Whole!BlockTransactions
<1> HIDE DEF after
<1>2. ASSUME NEW i \in DOMAIN findings
      PROVE  /\ DOMAIN after[i] = {"path", "model", "entry", "resolution", "block", "status", "code"}
             /\ after[i].status \in Whole!Statuses /\ after[i].code \notin Whole!Reserved
             /\ \E path : after[i].path = {path}
  <2>1. /\ DOMAIN after[i] = DOMAIN findings[i] /\ after[i].path = findings[i].path
        /\ after[i].status \in {"stop", findings[i].status}
        /\ after[i].code \in {"transaction-blocked", findings[i].code}
    BY BlockedAt DEF after
  <2>2. /\ DOMAIN findings[i] = {"path", "model", "entry", "resolution", "block", "status", "code"}
        /\ findings[i].status \in Whole!Statuses /\ findings[i].code \notin Whole!Reserved
        /\ \E path : findings[i].path = {path}
    BY DEF Whole!IsReport
  <2>3. after[i].status \in Whole!Statuses /\ after[i].code \notin Whole!Reserved
    BY <2>1, <2>2 DEF Whole!Statuses, Whole!Reserved
  <2> QED
    BY <2>1, <2>2, <2>3
<1> QED
  BY <1>1, <1>2 DEF Whole!IsReport, after

\* Every call of a table has one of three statuses.
LEMMA CountsAddUp ==
  ASSUME NEW findings, Whole!IsReport(findings), NEW I \in SUBSET DOMAIN findings
  PROVE  /\ \A status : Whole!Count(findings, I, status) \in Nat
         /\ Cardinality(I) = Whole!Count(findings, I, "verified") + Whole!Count(findings, I, "stop")
                               + Whole!Count(findings, I, "unknown")
<1> DEFINE C(status) == {i \in I : findings[i].status = status}
<1>1. IsFiniteSet(I)
  <2>1. IsFiniteSet(DOMAIN findings)
    BY SameSets DEF Whole!IsReport
  <2> QED
    BY <2>1, FS_Subset
<1>2. \A status : IsFiniteSet(C(status))
  BY <1>1, FS_Subset
<1>3. \A status : Cardinality(C(status)) \in Nat
  BY <1>2, FS_CardinalityType
<1>4. I = (C("verified") \cup C("stop")) \cup C("unknown")
  BY DEF Whole!IsReport, Whole!Statuses
<1>5. C("verified") \cap C("stop") = {} /\ (C("verified") \cup C("stop")) \cap C("unknown") = {}
  OBVIOUS
<1>6. \A status : Whole!Count(findings, I, status) = Cardinality(C(status))
  BY SameSets DEF Whole!Count
<1> HIDE DEF C
<1>7. ASSUME NEW A, NEW B, IsFiniteSet(A), IsFiniteSet(B), A \cap B = {}
      PROVE  IsFiniteSet(A \cup B) /\ Cardinality(A \cup B) = Cardinality(A) + Cardinality(B)
  <2>1. /\ IsFiniteSet(A \cup B)
        /\ Cardinality(A \cup B) = Cardinality(A) + Cardinality(B) - Cardinality(A \cap B)
    BY <1>7, FS_Union
  <2>2. Cardinality(A \cap B) = 0
    BY <1>7, FS_EmptySet
  <2>3. Cardinality(A) \in Nat /\ Cardinality(B) \in Nat
    BY <1>7, FS_CardinalityType
  <2> QED
    BY <2>1, <2>2, <2>3
<1>8. Cardinality(I) = (Cardinality(C("verified")) + Cardinality(C("stop"))) + Cardinality(C("unknown"))
  <2>1. /\ IsFiniteSet(C("verified") \cup C("stop"))
        /\ Cardinality(C("verified") \cup C("stop")) = Cardinality(C("verified")) + Cardinality(C("stop"))
    BY <1>2, <1>5, <1>7, Zenon
  <2>2. Cardinality((C("verified") \cup C("stop")) \cup C("unknown"))
          = Cardinality(C("verified") \cup C("stop")) + Cardinality(C("unknown"))
    BY <1>2, <1>5, <1>7, <2>1, Zenon
  <2> QED
    BY <1>4, <2>1, <2>2
<1> QED
  BY <1>3, <1>6, <1>8

(* Every phase is a heading of the report, and a module is below one.      *)
LEMMA OneHeading ==
  ASSUME NEW findings, NEW k \in Whole!Keys(findings, "path")
  PROVE  Cardinality({h \in DOMAIN Whole!Headings : k \in Whole!Listed(findings, Whole!Headings[h])}) = 1
<1> DEFINE phase == Whole!Group(findings, "path", k).phase
           below == {h \in DOMAIN Whole!Headings : k \in Whole!Listed(findings, Whole!Headings[h])}
<1>1. phase \in {"migratable-now", "one-blocker", "mixed", "blocked"}
  BY DEF Whole!Group, Whole!Phase
<1>2. below = {h \in DOMAIN Whole!Headings : Whole!Headings[h] = phase}
  BY DEF Whole!Listed
<1> HIDE DEF phase
<1>3. \E h : below = {h}
  <2>1. /\ DOMAIN Whole!Headings = 1..4
        /\ Whole!Headings[1] = "migratable-now" /\ Whole!Headings[2] = "one-blocker"
        /\ Whole!Headings[3] = "mixed" /\ Whole!Headings[4] = "blocked"
    BY DEF Whole!Headings
  <2>2. below = {1} \/ below = {2} \/ below = {3} \/ below = {4}
    BY <1>1, <1>2, <2>1
  <2> QED
    BY <2>2
<1> QED
  BY <1>3, FS_Singleton

(* The summary, the table of modules and the phases of the report count    *)
(* every call once (_group, to_json, _render_phases).                      *)
THEOREM ReportAddsUp ==
  ASSUME NEW findings, Whole!IsReport(findings)
  PROVE  Whole!TablesAddUp(findings)
<1>1. Cardinality(DOMAIN findings) =
        Whole!Count(findings, DOMAIN findings, "verified") + Whole!Count(findings, DOMAIN findings, "stop")
          + Whole!Count(findings, DOMAIN findings, "unknown")
  BY CountsAddUp
<1>2. ASSUME NEW k \in Whole!Keys(findings, "path")
      PROVE  Whole!Group(findings, "path", k).call_sites = Cardinality(Whole!Members(findings, "path", k))
  <2>1. Whole!Members(findings, "path", k) \in SUBSET DOMAIN findings
    BY DEF Whole!Members
  <2> QED
    BY <2>1, CountsAddUp DEF Whole!Group
<1>3. ASSUME NEW i \in DOMAIN findings
      PROVE  \E k \in Whole!Keys(findings, "path") : \A l \in Whole!Keys(findings, "path") :
               i \in Whole!Members(findings, "path", l) <=> l = k
  <2>1. PICK k : findings[i].path = {k}
    BY DEF Whole!IsReport
  <2>2. k \in Whole!Keys(findings, "path")
    BY <2>1 DEF Whole!Keys
  <2>3. \A l : i \in Whole!Members(findings, "path", l) <=> l = k
    BY <2>1 DEF Whole!Members
  <2> QED
    BY <2>2, <2>3
<1> QED
  <2>1. Whole!Cardinality(DOMAIN findings) = Cardinality(DOMAIN findings)
    BY SameSets
  <2>2. \A k : Whole!Cardinality(Whole!Members(findings, "path", k)) = Cardinality(Whole!Members(findings, "path", k))
    BY SameSets
  <2>3. \A k \in Whole!Keys(findings, "path") :
          Whole!Cardinality({h \in DOMAIN Whole!Headings : k \in Whole!Listed(findings, Whole!Headings[h])}) = 1
    BY OneHeading, SameSets
  <2> QED
    BY <1>1, <1>2, <1>3, <2>1, <2>2, <2>3, Zenon DEF Whole!TablesAddUp

(* "A summary that only reports what was understood reads as more complete *)
(* than the scan was": what was not understood is in its other half.       *)
THEOREM NothingIsHidden ==
  ASSUME NEW findings, Whole!IsReport(findings), NEW unparsed
  PROVE  Whole!NothingIsRoundedUp(findings, unparsed)
<1> DEFINE after == Whole!BlockTransactions(findings)
           caveats == DOMAIN Whole!Caveats(after, unparsed)
<1>1. DOMAIN after = DOMAIN findings /\ Whole!IsReport(after)
  BY StillAReport
<1>2. ASSUME NEW i \in DOMAIN findings, NEW code \in Whole!CaveatCodes(after),
             Whole!Counted(after[i], code)
      PROVE  code \in caveats
  <2>1. {j \in DOMAIN after : Whole!Counted(after[j], code)} # {}
    BY <1>1, <1>2
  <2> QED
    BY <1>2, <2>1, Zenon DEF Whole!Caveats
<1>3. unparsed # {} => "unparsed-file" \in caveats
  BY Zenon DEF Whole!Caveats
<1> HIDE DEF after, caveats
<1>4. ASSUME NEW i \in DOMAIN findings
      PROVE  /\ findings[i].status # "verified" => after[i].status = findings[i].status
             /\ after[i].status = "unknown" => after[i].code \in caveats
             /\ findings[i].resolution = "convention" => "convention-client" \in caveats
  <2>1. findings[i].status # "verified" => after[i].status = findings[i].status
    BY BlockedAt DEF after
  <2>2. after[i].resolution = findings[i].resolution
    BY BlockedAt DEF after
  <2>3. after[i].code \in Whole!CaveatCodes(after) /\ "convention-client" \in Whole!CaveatCodes(after)
    BY <1>1 DEF Whole!CaveatCodes
  <2>4. after[i].code # "convention-client" /\ after[i].code # "transaction-body-not-visible"
    BY <1>1 DEF Whole!IsReport, Whole!Reserved
  <2>5. after[i].status = "unknown" => Whole!Counted(after[i], after[i].code)
    BY <2>4, Zenon DEF Whole!Counted
  <2>6. after[i].resolution = "convention" => Whole!Counted(after[i], "convention-client")
    BY Zenon DEF Whole!Counted
  <2> QED
    BY <1>2, <2>1, <2>2, <2>3, <2>5, <2>6
<1> QED
  BY <1>3, <1>4, Zenon DEF Whole!NothingIsRoundedUp, after, caveats

(* A block of the report is blocked as a whole, or not at all.             *)
THEOREM ReportedBlocksAreWhole ==
  ASSUME NEW findings, Whole!IsReport(findings)
  PROVE  Whole!BlocksAreWhole(findings)
<1> DEFINE after == Whole!BlockTransactions(findings)
<1> SUFFICES ASSUME NEW b \in Whole!TransactionBlocks(findings), NEW i \in DOMAIN findings,
                    findings[i].block = b.block
             PROVE  IF b.blocked THEN after[i].status # "verified" ELSE after[i].status # "stop"
  BY Zenon DEF Whole!BlocksAreWhole
<1>1. b.block # 0 /\ b.blocked = Whole!Blocked(findings, b.block)
  <2>1. PICK c \in Whole!Blocks(findings) :
          b = [block |-> c, members |-> Whole!Cardinality({j \in DOMAIN findings : findings[j].block = c}),
               blocked |-> Whole!Blocked(findings, c)]
    BY Zenon DEF Whole!TransactionBlocks
  <2>2. c # 0
    BY DEF Whole!Blocks
  <2>3. b.block = c /\ b.blocked = Whole!Blocked(findings, c)
    BY <2>1
  <2> QED
    BY <2>2, <2>3
<1>2. after[i].status = IF /\ findings[i].block # 0 /\ findings[i].status = "verified"
                           /\ Whole!Blocked(findings, findings[i].block)
                        THEN "stop" ELSE findings[i].status
  BY BlockedAt
<1> HIDE DEF after
<1>3. CASE b.blocked
  BY <1>1, <1>2, <1>3
<1>4. CASE ~b.blocked
  <2>1. ~Whole!Blocked(findings, findings[i].block)
    BY <1>1, <1>4
  <2>2. findings[i].status # "stop"
    BY <2>1 DEF Whole!Blocked
  <2> QED
    BY <1>2, <1>4, <2>1, <2>2
<1> QED
  BY <1>3, <1>4

(* Names that two models share name neither (schema_facts).                *)
THEOREM ModelNamesAreRight ==
  ASSUME NEW models PROVE Whole!NamesAreRight(models)
<1> DEFINE own == {m \in models : \A n \in models : n.lower = m.lower => n = m}
<1> SUFFICES ASSUME NEW a \in {m.lower : m \in own}
             PROVE  {m \in models : m.lower = a}
                      = {m \in models : m.lower = a /\ m.name = Whole!ModelNames(models)[a]}
  BY DEF Whole!NamesAreRight, Whole!ModelNames
<1>1. PICK m \in own : m.lower = a
  OBVIOUS
<1>2. \A n \in models : n.lower = a => n = m
  BY <1>1
<1>3. (CHOOSE n \in own : n.lower = a) = m
  BY <1>1, <1>2
<1>4. Whole!ModelNames(models)[a] = m.name
  BY <1>3 DEF Whole!ModelNames
<1> QED
  BY <1>2, <1>4

(* The report of a code base says of a file what Report says of it alone.  *)
THEOREM FileAgrees ==
  ASSUME ReportInv, NEW path, NEW findings,
         Whole!IsReport(findings), DOMAIN findings = DOMAIN sites,
         \A i \in DOMAIN sites :
           /\ findings[i].path = {path} /\ findings[i].block = sites[i].block
           /\ findings[i].status = sites[i].status
  PROVE  LET after == Whole!BlockTransactions(findings)
         IN  /\ \A i \in DOMAIN sites : after[i].status = Status(sites[i])
             /\ Whole!Group(after, "path", path).phase = Phase
<1> DEFINE after == Whole!BlockTransactions(findings)
<1>1. DOMAIN after = DOMAIN sites
  BY StillAReport
<1>2. \A b : Whole!Blocked(findings, b) <=> Blocked(b)
  BY DEF Whole!Blocked, Blocked
<1>3. \A i \in DOMAIN sites : after[i].status = Status(sites[i]) /\ after[i].path = {path}
  BY <1>2, BlockedAt DEF Status
<1> HIDE DEF after
<1>4. Whole!Members(after, "path", path) = DOMAIN sites
  BY <1>1, <1>3 DEF Whole!Members
<1>5. ASSUME NEW status PROVE Whole!Count(after, DOMAIN sites, status) = Tally(status)
  <2>1. {i \in DOMAIN sites : after[i].status = status} = {i \in DOMAIN sites : Status(sites[i]) = status}
    BY <1>3
  <2> QED
    BY <2>1, SameSets DEF Whole!Count, Tally
<1>6. Whole!Group(after, "path", path).phase = Phase
  BY <1>4, <1>5 DEF Whole!Group, Whole!Phase, Phase
<1> QED
  BY <1>3, <1>6 DEF after
=============================================================================
