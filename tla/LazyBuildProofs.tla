---------------------------- MODULE LazyBuildProofs ----------------------------
(***************************************************************************)
(* Theorems about LazyBuild and RelationDepth, for every schema, every     *)
(* number of threads and every size of frames and stacks.                  *)
(***************************************************************************)
EXTENDS LazyBuild, FiniteSetTheorems, TLAPS

-----------------------------------------------------------------------------
(* The search.  A chain that is longer than the best one so far starts at  *)
(* a model that the search will still start from, or leaves the current    *)
(* chain for a neighbour that it has still to try.                         *)

Pending(p) ==
  \E k \in 1 .. Len(path) :
    /\ k < Len(p)
    /\ \A i \in 1 .. k : p[i] = path[i]
    /\ p[k + 1] \in untried[k]

MeasureTypeOK ==
  /\ relates \in [Models -> SUBSET Models]
  /\ starts \subseteq Models
  /\ path \in Seq(Models) /\ untried \in Seq(SUBSET Models)
  /\ Len(path) = Len(untried)
  /\ best \in 1 .. N
  /\ budget \in Nat
  /\ depth \in 0 .. N

Searched ==
  /\ Len(path) <= best
  /\ \A p \in Chains : p[1] \in starts \/ Len(p) <= best \/ Pending(p)

MeasureInv ==
  /\ MeasureTypeOK
  /\ depth = 0 => Searched
  /\ depth # 0 => \A p \in Chains : Len(p) <= depth

LEMMA NType == N \in Nat \ {0}
  BY ModelsAssumption, FS_CardinalityType, FS_EmptySet DEF N

LEMMA ChainType ==
  ASSUME NEW p \in Chains
  PROVE  /\ p \in Seq(Models)
         /\ Len(p) \in 1 .. N
         /\ \A i \in 1 .. Len(p) - 1 : p[i + 1] \in relates[p[i]]
         /\ \A i, j \in 1 .. Len(p) : p[i] = p[j] => i = j
<1>1. PICK k \in 1 .. N : p \in [1 .. k -> Models]
  BY DEF Chains
<1>2. p \in Seq(Models) /\ Len(p) = k
  BY <1>1, NType
<1> QED
  BY <1>1, <1>2, NType DEF Chains

LEMMA MeasureInitial == MeasureInit => MeasureInv
<1> SUFFICES ASSUME MeasureInit PROVE MeasureInv
  OBVIOUS
<1>1. MeasureTypeOK
  BY NType, SchemasAssumption, BudgetAssumption DEF MeasureInit, MeasureTypeOK
<1>2. \A p \in Chains : p[1] \in starts
  BY ChainType, NType DEF MeasureInit
<1> QED
  BY <1>1, <1>2, NType DEF MeasureInit, MeasureInv, Searched

LEMMA Overwrite ==
  ASSUME NEW S, NEW f \in Seq(SUBSET S), NEW k \in 1 .. Len(f), NEW x
  PROVE  LET g == [f EXCEPT ![k] = @ \ {x}]
         IN /\ g \in Seq(SUBSET S) /\ Len(g) = Len(f)
            /\ \A i \in 1 .. Len(f) : g[i] = IF i = k THEN f[k] \ {x} ELSE f[i]
<1> DEFINE n == Len(f)
           g == [f EXCEPT ![k] = @ \ {x}]
<1>1. n \in Nat /\ f \in [1 .. n -> SUBSET S] /\ k \in 1 .. n
  OBVIOUS
<1>2. \A i \in 1 .. n : g[i] = IF i = k THEN f[k] \ {x} ELSE f[i]
  BY <1>1
<1>3. g \in [1 .. n -> SUBSET S]
  BY <1>1
<1>4. g \in Seq(SUBSET S) /\ Len(g) = n
  <2> HIDE DEF g, n
  <2> QED
    BY <1>1, <1>3
<1> QED
  BY <1>2, <1>4

LEMMA StartStep == ASSUME MeasureInv, NEW m \in Models, Start(m) PROVE MeasureInv'
<1> USE NType DEF Start, MeasureInv, MeasureTypeOK
<1>1. MeasureTypeOK' /\ depth' = 0 /\ Len(path') <= best' /\ Len(path') = 1
  OBVIOUS
<1>2. path'[1] = m /\ untried'[1] = relates[m]
  OBVIOUS
<1>3. ASSUME NEW p \in Chains'
      PROVE  p[1] \in starts' \/ Len(p) <= best' \/ Pending(p)'
  <2>1. p \in Chains
    BY <1>3 DEF Chains
  <2>2. CASE p[1] # m
    <3>1. ~Pending(p)
      BY DEF Pending
    <3> QED
      BY <2>1, <2>2, <3>1 DEF Searched
  <2>3. CASE p[1] = m /\ Len(p) > 1
    <3>1. p[2] \in relates[m]
      BY <2>1, <2>3, ChainType
    <3> QED
      BY <2>1, <2>3, <3>1, <1>1, <1>2, ChainType DEF Pending
  <2>4. CASE Len(p) <= 1
    BY <2>4, <2>1, ChainType
  <2> QED
    BY <2>1, <2>2, <2>3, <2>4, ChainType
<1> QED
  BY <1>1, <1>3 DEF Searched

LEMMA DeeperStep == ASSUME MeasureInv, NEW m \in Models, Deeper(m) PROVE MeasureInv'
<1> DEFINE n     == Len(path)
           tried == [untried EXCEPT ![n] = @ \ {m}]
<1>0. /\ MeasureTypeOK /\ Searched /\ depth = 0
      /\ path # <<>> /\ budget > 1 /\ best < N
      /\ m \in untried[Len(untried)]
      /\ path' = Append(path, m)
      /\ untried' = Append(tried, relates[m])
      /\ best' = IF n + 1 > best THEN n + 1 ELSE best
      /\ budget' = budget - 1
      /\ UNCHANGED <<relates, starts, depth>>
  BY DEF Deeper, MeasureInv, Rest
<1>1. /\ n \in Nat \ {0} /\ n = Len(untried)
      /\ path \in [1 .. n -> Models] /\ untried \in [1 .. n -> SUBSET Models]
      /\ m \in untried[n]
  BY <1>0 DEF MeasureTypeOK
<1>2. /\ tried \in Seq(SUBSET Models) /\ Len(tried) = n
      /\ \A i \in 1 .. n - 1 : tried[i] = untried[i]
      /\ tried[n] = untried[n] \ {m}
  <2>1. /\ tried \in Seq(SUBSET Models) /\ Len(tried) = Len(untried)
        /\ \A i \in 1 .. Len(untried) :
             tried[i] = IF i = n THEN untried[n] \ {m} ELSE untried[i]
    <3>1. untried \in Seq(SUBSET Models) /\ n \in 1 .. Len(untried)
      BY <1>0, <1>1 DEF MeasureTypeOK
    <3> HIDE DEF n
    <3> QED
      BY <3>1, Overwrite
  <2>2. n \in Nat \ {0} /\ n = Len(untried)
    BY <1>1
  <2> HIDE DEF n, tried
  <2> QED
    BY <2>1, <2>2
<1> HIDE DEF tried
<1>3. /\ path' \in Seq(Models) /\ Len(path') = n + 1
      /\ \A i \in 1 .. n : path'[i] = path[i]
      /\ path'[n + 1] = m
  BY <1>0, <1>1 DEF MeasureTypeOK
<1>4. /\ untried' \in Seq(SUBSET Models) /\ Len(untried') = n + 1
      /\ \A i \in 1 .. n : untried'[i] = tried[i]
      /\ untried'[n + 1] = relates[m]
  <2>1. relates[m] \in SUBSET Models
    BY <1>0 DEF MeasureTypeOK
  <2> QED
    BY <1>0, <1>1, <1>2, <2>1
<1>5. MeasureTypeOK' /\ depth' = 0 /\ Len(path') <= best' /\ best <= best' /\ n + 1 <= best'
  BY <1>0, <1>1, <1>3, <1>4, NType DEF MeasureTypeOK, Searched
<1>6. ASSUME NEW p \in Chains'
      PROVE  p[1] \in starts' \/ Len(p) <= best' \/ Pending(p)'
  <2>1. p \in Chains
    BY <1>0, <1>6 DEF Chains
  <2>2. CASE Pending(p)
    <3>1. PICK k \in 1 .. n : /\ k < Len(p)
                              /\ \A i \in 1 .. k : p[i] = path[i]
                              /\ p[k + 1] \in untried[k]
      BY <2>2 DEF Pending
    <3>2. /\ k \in 1 .. Len(path') /\ k < Len(p)
          /\ \A i \in 1 .. k : p[i] = path'[i]
      BY <1>1, <1>3, <3>1
    <3>3. CASE k < n \/ p[k + 1] # m
      <4>1. p[k + 1] \in untried'[k]
        BY <1>1, <1>2, <1>4, <3>1, <3>3
      <4> QED
        BY <3>2, <4>1 DEF Pending
    <3>4. CASE k = n /\ p[k + 1] = m
      <4>1. CASE Len(p) = n + 1
        BY <1>5, <4>1, <2>1, ChainType
      <4>2. CASE Len(p) > n + 1
        <5>1. p[n + 2] \in relates[m]
          BY <1>1, <2>1, <3>4, <4>2, ChainType
        <5>2. \A i \in 1 .. n + 1 : p[i] = path'[i]
          BY <1>1, <1>3, <3>2, <3>4
        <5>3. n + 1 \in 1 .. Len(path') /\ (n + 1) + 1 = n + 2
          BY <1>1, <1>3
        <5> QED
          BY <1>4, <4>2, <5>1, <5>2, <5>3 DEF Pending
      <4> QED
        BY <1>1, <2>1, <3>1, <3>4, <4>1, <4>2, ChainType
    <3>5. k < n \/ k = n
      <4>1. n \in Nat /\ k \in 1 .. n
        BY <1>1, <3>1
      <4> HIDE DEF n
      <4> QED
        BY <4>1
    <3> QED
      BY <3>3, <3>4, <3>5
  <2>3. CASE p[1] \in starts
    BY <1>0, <2>3
  <2>4. CASE Len(p) <= best
    BY <1>0, <1>1, <1>5, <2>1, <2>4, NType, ChainType DEF MeasureTypeOK
  <2> QED
    BY <1>0, <2>1, <2>2, <2>3, <2>4 DEF Searched
<1> QED
  BY <1>5, <1>6 DEF Searched, MeasureInv

LEMMA BackStep == ASSUME MeasureInv, Back PROVE MeasureInv'
<1> DEFINE n == Len(path)
<1>0. /\ MeasureTypeOK /\ Searched /\ depth = 0 /\ path # <<>>
      /\ untried[Len(untried)] \subseteq OnPath
      /\ path' = SubSeq(path, 1, n - 1) /\ untried' = SubSeq(untried, 1, n - 1)
      /\ UNCHANGED <<relates, starts, best, budget, depth>>
  BY DEF Back, MeasureInv, Rest
<1>1. /\ n \in Nat \ {0} /\ n = Len(untried)
      /\ path \in [1 .. n -> Models] /\ untried \in [1 .. n -> SUBSET Models]
      /\ path \in Seq(Models) /\ untried \in Seq(SUBSET Models)
  BY <1>0 DEF MeasureTypeOK
<1>2. /\ path' \in Seq(Models) /\ Len(path') = n - 1
      /\ \A i \in 1 .. n - 1 : path'[i] = path[i]
  BY <1>0, <1>1
<1>3. /\ untried' \in Seq(SUBSET Models) /\ Len(untried') = n - 1
      /\ \A i \in 1 .. n - 1 : untried'[i] = untried[i]
  BY <1>0, <1>1
<1>4. MeasureTypeOK' /\ depth' = 0 /\ Len(path') <= best'
  BY <1>0, <1>1, <1>2, <1>3, NType DEF MeasureTypeOK, Searched
<1>5. ASSUME NEW p \in Chains'
      PROVE  p[1] \in starts' \/ Len(p) <= best' \/ Pending(p)'
  <2>1. p \in Chains
    BY <1>0, <1>5 DEF Chains
  <2>2. CASE Pending(p)
    <3>1. PICK k \in 1 .. n : /\ k < Len(p)
                              /\ \A i \in 1 .. k : p[i] = path[i]
                              /\ p[k + 1] \in untried[k]
      BY <2>2 DEF Pending
    <3>2. k # n
      <4>1. SUFFICES ASSUME k = n PROVE FALSE
        OBVIOUS
      <4>2. PICK j \in 1 .. n : p[n + 1] = path[j]
        BY <1>0, <1>1, <3>1, <4>1 DEF OnPath
      <4>3. p[j] = path[j] /\ j \in 1 .. Len(p) /\ n + 1 \in 1 .. Len(p) /\ j # n + 1
        BY <1>1, <2>1, <3>1, <4>1, <4>2, ChainType
      <4> QED
        BY <2>1, <4>2, <4>3, ChainType
    <3>3. k \in 1 .. Len(path') /\ k \in 1 .. n - 1
      BY <1>1, <1>2, <3>1, <3>2
    <3>4. \A i \in 1 .. k : p[i] = path'[i]
      BY <1>1, <1>2, <3>1, <3>3
    <3>5. p[k + 1] \in untried'[k]
      BY <1>3, <3>1, <3>3
    <3> QED
      BY <3>1, <3>3, <3>4, <3>5 DEF Pending
  <2> QED
    BY <1>0, <2>1, <2>2 DEF Searched
<1> QED
  BY <1>4, <1>5 DEF Searched, MeasureInv

LEMMA MeasureStep == MeasureInv /\ [Measure]_measure => MeasureInv'
<1> SUFFICES ASSUME MeasureInv, [Measure]_measure PROVE MeasureInv'
  OBVIOUS
<1>1. ASSUME NEW d \in 1 .. N, Answer(d), \A p \in Chains : Len(p) <= d PROVE MeasureInv'
  <2>1. MeasureTypeOK' /\ depth' = d
    BY <1>1, NType DEF Answer, MeasureInv, MeasureTypeOK
  <2>2. Chains' = Chains
    BY <1>1 DEF Answer, Chains
  <2> QED
    BY <1>1, <2>1, <2>2, NType DEF MeasureInv
<1>2. CASE OutOfBudget \/ AllModels
  BY <1>1, <1>2, NType, ChainType DEF OutOfBudget, AllModels
<1>3. CASE Exhausted
  <2>1. \A p \in Chains : Len(p) <= best
    BY <1>3, ChainType DEF Exhausted, MeasureInv, Searched, Pending
  <2> QED
    BY <1>1, <1>3, <2>1 DEF Exhausted, MeasureInv, MeasureTypeOK
<1>4. CASE UNCHANGED measure
  BY <1>4 DEF measure, MeasureInv, MeasureTypeOK, Searched, Pending, Chains
<1> QED
  BY <1>2, <1>3, <1>4, StartStep, DeeperStep, BackStep DEF Measure

-----------------------------------------------------------------------------
(* The sizes: what is reserved for the longest chain is enough for every   *)
(* chain, because the search has found none that is longer.                *)

Required == RequiredRecursionLimit(depth)

LEMMA Product ==
  ASSUME NEW x \in Nat, NEW y \in Nat, NEW z \in Nat, x <= y
  PROVE  x * z <= y * z /\ z * x <= z * y /\ x * z \in Nat /\ z * x \in Nat
  OBVIOUS

LEMMA RoundedUp ==
  ASSUME NEW r \in Nat, NEW u \in Nat \ {0}
  PROVE  ((r + u - 1) \div u) * u \in Nat /\ ((r + u - 1) \div u) * u >= r
  OBVIOUS

LEMMA RequiredType ==
  ASSUME NEW d \in Nat
  PROVE  RequiredRecursionLimit(d) \in Nat
<1>1. Larger(1, d) \in Nat
  BY DEF Larger
<1> QED
  BY <1>1, Product, SizesAssumption DEF RequiredRecursionLimit

LEMMA StackType ==
  ASSUME NEW f \in Nat
  PROVE  StackBytes(f) \in Nat
<1> DEFINE raw == Smaller(Larger(MinStack, f * BytesPerLevel), MaxStack)
<1>1. f * BytesPerLevel \in Nat
  BY Product, SizesAssumption
<1>2. raw \in Nat
  BY <1>1, SizesAssumption DEF Smaller, Larger
<1> HIDE DEF raw
<1>3. ((raw + Unit - 1) \div Unit) * Unit \in Nat
  BY <1>2, RoundedUp, SizesAssumption
<1> QED
  BY <1>3 DEF StackBytes, raw

\* With the assumption on the largest stack, a stack for the schema has room for
\* every frame of the recursion limit.
LEMMA StackIsEnough ==
  ASSUME NEW d \in 1 .. N
  PROVE  RequiredRecursionLimit(d) * BytesPerLevel <= StackBytes(RequiredRecursionLimit(d))
<1> DEFINE f   == RequiredRecursionLimit(d)
           raw == Smaller(Larger(MinStack, f * BytesPerLevel), MaxStack)
<1>1. f \in Nat /\ RequiredRecursionLimit(N) \in Nat
  BY RequiredType, NType
<1>2. f <= RequiredRecursionLimit(N)
  <2>1. d \in Nat /\ N \in Nat /\ d <= N /\ Larger(1, d) = d /\ Larger(1, N) = N
    BY NType DEF Larger
  <2>2. FramesPerLevel * d <= FramesPerLevel * N
        /\ FramesPerLevel * d \in Nat /\ FramesPerLevel * N \in Nat
    BY <2>1, Product, SizesAssumption
  <2> QED
    BY <2>1, <2>2, SizesAssumption DEF RequiredRecursionLimit
<1> HIDE DEF f
<1>3. f * BytesPerLevel <= RequiredRecursionLimit(N) * BytesPerLevel
      /\ f * BytesPerLevel \in Nat /\ RequiredRecursionLimit(N) * BytesPerLevel \in Nat
  BY <1>1, <1>2, Product, SizesAssumption
<1>4. f * BytesPerLevel <= MaxStack
  BY <1>3, StackAssumption, SizesAssumption
<1>5. raw \in Nat /\ raw >= f * BytesPerLevel
  BY <1>3, <1>4, SizesAssumption DEF Smaller, Larger
<1> HIDE DEF raw
<1>6. ((raw + Unit - 1) \div Unit) * Unit >= raw /\ ((raw + Unit - 1) \div Unit) * Unit \in Nat
  BY <1>5, RoundedUp, SizesAssumption
<1>7. ((raw + Unit - 1) \div Unit) * Unit >= f * BytesPerLevel
  BY <1>3, <1>5, <1>6
<1> QED
  BY <1>7 DEF StackBytes, raw, f

LEMMA ChainFits ==
  ASSUME NEW d \in 1 .. N, NEW k \in 1 .. d
  PROVE  /\ Frames(k) \in Nat
         /\ Frames(k) <= RequiredRecursionLimit(d)
         /\ Frames(k) * BytesPerLevel <= StackBytes(RequiredRecursionLimit(d))
<1>1. k \in Nat /\ d \in Nat /\ k <= d /\ Larger(1, d) = d
  BY NType DEF Larger
<1>2. FramesPerLevel * k <= FramesPerLevel * d
      /\ FramesPerLevel * k \in Nat /\ FramesPerLevel * d \in Nat
  BY <1>1, Product, SizesAssumption
<1>3. /\ Frames(k) \in Nat /\ RequiredRecursionLimit(d) \in Nat
      /\ Frames(k) <= RequiredRecursionLimit(d)
  BY <1>1, <1>2, SizesAssumption, HeadroomAssumption DEF RequiredRecursionLimit, Frames
<1>4. /\ Frames(k) * BytesPerLevel <= RequiredRecursionLimit(d) * BytesPerLevel
      /\ Frames(k) * BytesPerLevel \in Nat /\ RequiredRecursionLimit(d) * BytesPerLevel \in Nat
  BY <1>3, Product, SizesAssumption
<1> QED
  BY <1>3, <1>4, StackIsEnough, StackType

-----------------------------------------------------------------------------
(* The runs.  A thread between Acquire and Release has the lock; it leaves *)
(* the limit raised, and the stack size as it found it: what it saves is   *)
(* what the program chose, because nobody else changes the size meanwhile. *)

Inside == {"limit", "raise", "stack", "start", "join", "restore", "release"}

HolderOwnsLock == \A t \in Threads : pc[t] \in Inside <=> lock = t
UsersAreReady  == \A t \in Threads : pc[t] # "idle" => depth # 0 /\ uses[t] \in Models
LimitRaised ==
  \A t \in Threads :
    pc[t] \in {"stack", "start", "join", "restore", "release"} => limit >= Required
SizeSaved ==
  \A t \in Threads :
    /\ pc[t] \in {"start", "join", "restore"} => previous[t] = chosen
    /\ pc[t] = "start" => stackSize = StackBytes(Required)
SizeUntouched ==
  (\A t \in Threads : pc[t] \notin {"start", "join", "restore"}) => stackSize = chosen
BuildersAreReady ==
  \A w \in Workers : worker[w].state \in {"started", "building"} =>
    /\ depth # 0
    /\ worker[w].model \in Models
    /\ worker[w].stack = StackBytes(Required)
    /\ limit >= Required

RunInv ==
  /\ HolderOwnsLock /\ UsersAreReady /\ LimitRaised
  /\ SizeSaved /\ SizeUntouched /\ BuildersAreReady

LEMMA DepthIsFinal ==
  ASSUME MeasureInv, depth # 0, Measure
  PROVE  FALSE
  BY DEF Measure, Start, Deeper, OutOfBudget, Back, AllModels, Exhausted

LEMMA TypeStep == ASSUME MeasureInv, TypeOK, RunInv, [Next]_vars PROVE TypeOK'
<1> USE DEF TypeOK
<1>0. Required \in Nat /\ StackBytes(Required) \in Nat
  <2>1. depth \in Nat
    BY NType DEF MeasureInv, MeasureTypeOK
  <2> QED
    BY <2>1, RequiredType, StackType DEF Required
<1>1. CASE Measure /\ UNCHANGED <<settings, calls, builds, faults>>
  BY <1>1 DEF settings, calls, builds
<1>2. CASE UNCHANGED vars
  BY <1>2 DEF vars, settings, calls, builds
<1>3. ASSUME NEW t \in Threads, NEW m \in Models, Use(t, m) PROVE TypeOK'
  BY <1>3 DEF Use, At, settings, builds
<1>4. ASSUME NEW t \in Threads, Acquire(t) \/ Enough(t) \/ TooLow(t) PROVE TypeOK'
  BY <1>4 DEF Acquire, Enough, TooLow, At, settings, builds
<1>5. ASSUME NEW t \in Threads, Raise(t) \/ Enlarge(t) \/ Restore(t) PROVE TypeOK'
  BY <1>0, <1>5 DEF Raise, Enlarge, Restore, At, builds, Required
<1>6. ASSUME NEW t \in Threads, NEW w \in Workers, StartWorker(t, w) PROVE TypeOK'
  <2>1. [state |-> "started", model |-> uses[t], stack |-> stackSize]
          \in [state : {"new", "started", "building", "built", "recursion"},
               model : Models \cup {None}, stack : Nat]
    OBVIOUS
  <2> QED
    BY <1>6, <2>1 DEF StartWorker, At, settings
<1>7. ASSUME NEW t \in Threads, CannotStart(t) \/ (t = Main /\ Interrupt) PROVE TypeOK'
  BY <1>7 DEF CannotStart, Interrupt, At, settings, builds
<1>8. ASSUME NEW t \in Threads, Join(t) PROVE TypeOK'
  <2>1. NoWorker \in [state : {"new", "started", "building", "built", "recursion"},
                      model : Models \cup {None}, stack : Nat]
    BY DEF NoWorker
  <2> QED
    BY <1>8, <2>1 DEF Join, At, settings
<1>9. ASSUME NEW t \in Threads, Release(t) PROVE TypeOK'
  BY <1>9 DEF Release, Forget, At, settings, builds
<1>10. ASSUME NEW w \in Workers, NEW s \in {"building", "built", "recursion"}, Becomes(w, s)
       PROVE  /\ worker' \in [Workers -> [state : {"new", "started", "building", "built", "recursion"},
                               model : Models \cup {None}, stack : Nat]]
              /\ UNCHANGED <<limit, stackSize, chosen, lock, pc, uses, previous, mine, outcome, faults>>
  BY <1>10 DEF Becomes, settings, calls
<1>11. ASSUME NEW w \in Workers, Work(w) PROVE TypeOK'
  <2>1. CASE AlreadyBuilt(w)
    BY <1>10, <2>1 DEF AlreadyBuilt
  <2>2. CASE Build(w)
    BY <1>10, <2>2 DEF Build
  <2>3. CASE Finish(w)
    <3> DEFINE fits == \A n \in FramesNeeded(worker[w].model) : n <= limit
    <3>1. /\ worker[w].state = "building"
          /\ Becomes(w, IF fits THEN "built" ELSE "recursion")
          /\ complete' = IF fits THEN complete \cup {worker[w].model} ELSE complete
      BY <2>3 DEF Finish
    <3> HIDE DEF fits
    <3>2. CASE fits
      <4>1. worker[w].model \in Models
        BY <3>1 DEF RunInv, BuildersAreReady
      <4> QED
        BY <1>10, <3>1, <3>2, <4>1
    <3>3. CASE ~fits
      BY <1>10, <3>1, <3>3
    <3> QED
      BY <3>2, <3>3
  <2> QED
    BY <1>11, <2>1, <2>2, <2>3 DEF Work
<1>12. CASE ProgramRaisesLimit \/ ProgramSetsStack
  BY <1>12, SizesAssumption DEF ProgramRaisesLimit, ProgramSetsStack, calls, builds
<1> QED
  BY <1>1, <1>2, <1>3, <1>4, <1>5, <1>6, <1>7, <1>8, <1>9, <1>11, <1>12, ThreadsAssumption
  DEF Next, Step

LEMMA TypeInitial == Init => TypeOK
  BY SizesAssumption DEF Init, TypeOK, NoWorker

-----------------------------------------------------------------------------
(* The invariant of the runs.                                              *)

LEMMA RunInitial == Init => RunInv
  BY ThreadsAssumption
  DEF Init, RunInv, HolderOwnsLock, UsersAreReady, LimitRaised, SizeSaved, SizeUntouched,
      BuildersAreReady, Inside, NoWorker

\* A thread that has the lock and goes from one place to another.
LEMMA HolderMoves ==
  ASSUME TypeOK, HolderOwnsLock, NEW t \in Threads, NEW from \in Inside, NEW to,
         At(t, from, to)
  PROVE  /\ lock = t
         /\ \A s \in Threads : s # t => pc'[s] = pc[s] /\ pc[s] \notin Inside
         /\ pc'[t] = to /\ pc[t] = from
  BY DEF TypeOK, HolderOwnsLock, At

LEMMA RunStep == ASSUME MeasureInv, TypeOK, RunInv, [Next]_vars PROVE RunInv'
<1> USE DEF RunInv
<1>0. Required \in Nat /\ StackBytes(Required) \in Nat
  <2>1. depth \in Nat
    BY NType DEF MeasureInv, MeasureTypeOK
  <2> QED
    BY <2>1, RequiredType, StackType DEF Required
<1>1. CASE Measure /\ UNCHANGED <<settings, calls, builds, faults>>
  <2>1. depth = 0
    BY <1>1, DepthIsFinal
  <2>2. /\ \A t \in Threads : pc[t] = "idle"
        /\ \A w \in Workers : worker[w].state \notin {"started", "building"}
    BY <2>1 DEF UsersAreReady, BuildersAreReady
  <2> QED
    BY <1>1, <2>2
    DEF settings, calls, builds, HolderOwnsLock, UsersAreReady, LimitRaised, SizeSaved,
        SizeUntouched, BuildersAreReady, Inside
<1>2. CASE UNCHANGED vars
  <2>1. Required' = Required /\ StackBytes(Required)' = StackBytes(Required)
    BY <1>2 DEF vars, measure, Required, RequiredRecursionLimit, StackBytes
  <2> QED
    BY <1>2, <2>1
    DEF vars, measure, settings, calls, builds, HolderOwnsLock, UsersAreReady, LimitRaised,
        SizeSaved, SizeUntouched, BuildersAreReady
\* Every other step leaves the measure alone.
<1>3. ASSUME UNCHANGED measure
      PROVE  Required' = Required /\ StackBytes(Required)' = StackBytes(Required)
             /\ depth' = depth
  BY <1>3 DEF measure, Required, RequiredRecursionLimit, StackBytes
<1>4. ASSUME NEW t \in Threads, NEW m \in Models, Use(t, m) PROVE RunInv'
  BY <1>3, <1>4
  DEF Use, At, TypeOK, settings, builds, HolderOwnsLock, UsersAreReady, LimitRaised, SizeSaved,
      SizeUntouched, BuildersAreReady, Inside
<1>5. ASSUME NEW t \in Threads, Acquire(t) PROVE RunInv'
  BY <1>3, <1>5, ThreadsAssumption
  DEF Acquire, At, TypeOK, settings, builds, HolderOwnsLock, UsersAreReady, LimitRaised,
      SizeSaved, SizeUntouched, BuildersAreReady, Inside
<1>6. ASSUME NEW t \in Threads, Enough(t) \/ TooLow(t) PROVE RunInv'
  BY <1>0, <1>3, <1>6
  DEF Enough, TooLow, At, TypeOK, settings, builds, Required, HolderOwnsLock, UsersAreReady,
      LimitRaised, SizeSaved, SizeUntouched, BuildersAreReady, Inside
<1>7. ASSUME NEW t \in Threads, Raise(t) PROVE RunInv'
  BY <1>0, <1>3, <1>7
  DEF Raise, At, TypeOK, settings, builds, Required, HolderOwnsLock, UsersAreReady,
      LimitRaised, SizeSaved, SizeUntouched, BuildersAreReady, Inside
<1>8. ASSUME NEW t \in Threads, Enlarge(t) PROVE RunInv'
  BY <1>0, <1>3, <1>8
  DEF Enlarge, At, TypeOK, settings, builds, Required, HolderOwnsLock, UsersAreReady,
      LimitRaised, SizeSaved, SizeUntouched, BuildersAreReady, Inside
<1>9. ASSUME NEW t \in Threads, NEW w \in Workers, StartWorker(t, w) PROVE RunInv'
  BY <1>0, <1>3, <1>9
  DEF StartWorker, At, TypeOK, settings, builds, Required, HolderOwnsLock, UsersAreReady,
      LimitRaised, SizeSaved, SizeUntouched, BuildersAreReady, Inside
<1>10. ASSUME NEW t \in Threads, CannotStart(t) \/ (t = Main /\ Interrupt) PROVE RunInv'
  BY <1>0, <1>3, <1>10
  DEF CannotStart, Interrupt, At, TypeOK, settings, builds, Required, HolderOwnsLock, UsersAreReady,
      LimitRaised, SizeSaved, SizeUntouched, BuildersAreReady, Inside
<1>11. ASSUME NEW t \in Threads, Join(t) PROVE RunInv'
  BY <1>0, <1>3, <1>11
  DEF Join, At, NoWorker, TypeOK, settings, builds, Required, HolderOwnsLock, UsersAreReady,
      LimitRaised, SizeSaved, SizeUntouched, BuildersAreReady, Inside
<1>12. ASSUME NEW t \in Threads, Restore(t) PROVE RunInv'
  BY <1>0, <1>3, <1>12
  DEF Restore, At, TypeOK, settings, builds, Required, HolderOwnsLock, UsersAreReady,
      LimitRaised, SizeSaved, SizeUntouched, BuildersAreReady, Inside
<1>13. ASSUME NEW t \in Threads, Release(t) PROVE RunInv'
  BY <1>0, <1>3, <1>13, ThreadsAssumption
  DEF Release, Forget, At, TypeOK, settings, builds, Required, HolderOwnsLock, UsersAreReady,
      LimitRaised, SizeSaved, SizeUntouched, BuildersAreReady, Inside
<1>14. ASSUME NEW w \in Workers, Work(w) PROVE RunInv'
  BY <1>0, <1>3, <1>14
  DEF Work, AlreadyBuilt, Build, Finish, Becomes, calls, TypeOK, settings, builds, Required, HolderOwnsLock, UsersAreReady,
      LimitRaised, SizeSaved, SizeUntouched, BuildersAreReady, Inside
<1>15. CASE ProgramRaisesLimit \/ ProgramSetsStack
  BY <1>0, <1>3, <1>15, SizesAssumption, ThreadsAssumption
  DEF ProgramRaisesLimit, ProgramSetsStack, calls, TypeOK, settings, builds, Required, HolderOwnsLock, UsersAreReady,
      LimitRaised, SizeSaved, SizeUntouched, BuildersAreReady, Inside
<1> QED
  BY <1>1, <1>2, <1>4, <1>5, <1>6, <1>7, <1>8, <1>9, <1>10, <1>11, <1>12, <1>13, <1>14, <1>15,
     ThreadsAssumption
  DEF Next, Step

-----------------------------------------------------------------------------
(* Theorems.                                                               *)

IInv == MeasureInv /\ TypeOK /\ RunInv

LEMMA Invariance == Spec => []IInv
<1>1. Init => IInv
  BY MeasureInitial, TypeInitial, RunInitial DEF Init, IInv
<1>2. IInv /\ [Next]_vars => IInv'
  <2> SUFFICES ASSUME IInv, [Next]_vars PROVE IInv'
    OBVIOUS
  <2>1. [Measure]_measure
    BY DEF Next, vars, Step, Use, Acquire, Enough, TooLow, Raise, Enlarge, StartWorker,
       CannotStart, Join, Interrupt, Restore, Release, Work, AlreadyBuilt, Build, Finish, Becomes,
       ProgramRaisesLimit, ProgramSetsStack
  <2> QED
    BY <2>1, MeasureStep, TypeStep, RunStep DEF IInv
<1> QED
  BY <1>1, <1>2, PTL DEF Spec

\* Every variable has its type.
THEOREM TypeCorrect == Spec => []TypeOK
<1>1. IInv => TypeOK
  BY DEF IInv
<1> QED
  BY <1>1, Invariance, PTL

\* max_relation_chain_depth() answers with no less than the length of any chain
\* of distinct models, in every graph of relations and with every budget.
DepthCoversChains == depth # 0 => \A p \in Chains : Len(p) <= depth
THEOREM DepthCorrect == Spec => []DepthCoversChains
<1>1. IInv => DepthCoversChains
  BY DEF IInv, MeasureInv, DepthCoversChains
<1> QED
  BY <1>1, Invariance, PTL

\* A build has frames and stack for the longest chain from its model, for every
\* schema and whatever the other threads and the program do.
LEMMA RoomForChains == ASSUME IInv PROVE HaveRoom
<1>1. SUFFICES ASSUME NEW w \in Workers, worker[w].state = "building",
                      NEW p \in Chains
               PROVE  /\ Frames(Len(p)) <= limit
                      /\ Frames(Len(p)) * BytesPerLevel <= worker[w].stack
  BY DEF HaveRoom, FramesNeeded, ChainsFrom
<1>2. /\ depth # 0 /\ worker[w].stack = StackBytes(Required) /\ limit >= Required
  BY <1>1 DEF IInv, RunInv, BuildersAreReady
<1>3. depth \in 1 .. N /\ Len(p) \in 1 .. depth
  BY <1>1, <1>2, NType, ChainType DEF IInv, MeasureInv, MeasureTypeOK
<1>4. /\ Frames(Len(p)) \in Nat
      /\ Frames(Len(p)) <= Required
      /\ Frames(Len(p)) * BytesPerLevel <= StackBytes(Required)
  BY <1>3, ChainFits DEF Required
<1>5. Required \in Nat /\ limit \in Nat
  BY <1>3, NType, RequiredType DEF IInv, TypeOK, Required
<1> QED
  BY <1>2, <1>4, <1>5

-----------------------------------------------------------------------------
(* How uses end.  The worker that a thread waits for is the one it started, *)
(* for the model it uses: nobody starts or collects another one meanwhile. *)

Awaits ==
  \A t \in Threads : pc[t] = "join" =>
    /\ mine[t] \in Workers
    /\ worker[mine[t]].model = uses[t]
    /\ worker[mine[t]].state \in {"started", "building", "built"}
BuiltIsComplete ==
  \A w \in Workers :
    /\ worker[w].state # "recursion"
    /\ worker[w].state = "built" => worker[w].model \in complete

EndInv == Awaits /\ BuiltIsComplete /\ EndBuilt

\* Nobody uses a model yet.
LEMMA EndInitial == Init => EndInv
  BY DEF Init, EndInv, Awaits, BuiltIsComplete, EndBuilt, NoWorker

\* Only the thread that has the lock waits for a worker, and a build that has room
\* succeeds.
LEMMA EndStep == ASSUME IInv, EndInv, [Next]_vars PROVE EndInv'
<1> USE DEF EndInv
<1>0. TypeOK /\ HolderOwnsLock
  BY DEF IInv, RunInv
\* Nobody else waits for a worker or ends while a thread goes on.
<1>1. CASE UNCHANGED <<pc, uses, mine, worker, outcome, complete>>
  BY <1>1 DEF Awaits, BuiltIsComplete, EndBuilt
<1>2. ASSUME NEW t \in Threads, NEW m \in Models, Use(t, m) PROVE EndInv'
  BY <1>0, <1>2 DEF Use, At, TypeOK, settings, builds, Awaits, BuiltIsComplete, EndBuilt
<1>3. ASSUME NEW t \in Threads, Acquire(t) \/ Enough(t) \/ TooLow(t) \/ Raise(t) \/ Enlarge(t)
      PROVE  EndInv'
  <2>1. /\ UNCHANGED <<uses, mine, worker, outcome, complete>>
        /\ \E to \in {"limit", "stack", "raise", "start"} : pc' = [pc EXCEPT ![t] = to]
    BY <1>3 DEF Acquire, Enough, TooLow, Raise, Enlarge, At, builds
  <2> QED
    BY <1>0, <2>1 DEF TypeOK, Awaits, BuiltIsComplete, EndBuilt
<1>4. ASSUME NEW t \in Threads, NEW w \in Workers, StartWorker(t, w) PROVE EndInv'
  <2>1. /\ At(t, "start", "join")
        /\ worker' = [worker EXCEPT ![w] = [state |-> "started", model |-> uses[t], stack |-> stackSize]]
        /\ mine' = [mine EXCEPT ![t] = w]
        /\ UNCHANGED <<uses, outcome, complete>>
    BY <1>4 DEF StartWorker
  <2>2. \A s \in Threads : s # t => pc'[s] = pc[s] /\ pc[s] \notin Inside
    BY <1>0, <2>1, HolderMoves DEF Inside
  <2>3. /\ pc'[t] = "join" /\ mine'[t] = w
        /\ worker'[w].state = "started" /\ worker'[w].model = uses[t]
    BY <1>0, <2>1 DEF At, TypeOK
  <2>4. Awaits'
    BY <2>1, <2>2, <2>3 DEF Awaits, Inside
  <2>5. BuiltIsComplete'
    BY <1>0, <2>1 DEF TypeOK, BuiltIsComplete
  <2>6. EndBuilt'
    BY <2>1, <2>2, <2>3 DEF EndBuilt, Inside
  <2> QED
    BY <2>4, <2>5, <2>6
<1>5. ASSUME NEW t \in Threads, CannotStart(t) \/ (t = Main /\ Interrupt) PROVE EndInv'
  <2>1. /\ pc[t] \in Inside /\ pc' = [pc EXCEPT ![t] = "restore"]
        /\ outcome' = [outcome EXCEPT ![t] = "failed"]
        /\ UNCHANGED <<uses, mine, worker, complete>>
    BY <1>5 DEF CannotStart, Interrupt, At, builds, Inside
  <2> QED
    BY <1>0, <2>1 DEF TypeOK, Awaits, BuiltIsComplete, EndBuilt
<1>6. ASSUME NEW t \in Threads, Join(t) PROVE EndInv'
  <2>1. /\ At(t, "join", "restore")
        /\ worker[mine[t]].state \in {"built", "recursion"}
        /\ outcome' = [outcome EXCEPT ![t] = worker[mine[t]].state]
        /\ worker' = [worker EXCEPT ![mine[t]] = NoWorker]
        /\ UNCHANGED <<uses, mine, complete>>
    BY <1>6 DEF Join
  <2>2. \A s \in Threads : s # t => pc'[s] = pc[s] /\ pc[s] \notin Inside
    BY <1>0, <2>1, HolderMoves DEF Inside
  <2>3. pc'[t] = "restore" /\ pc[t] = "join"
    BY <1>0, <2>1 DEF At, TypeOK
  <2>4. /\ mine[t] \in Workers /\ worker[mine[t]].state = "built"
        /\ worker[mine[t]].model = uses[t] /\ uses[t] \in complete
    BY <2>1, <2>3 DEF Awaits, BuiltIsComplete
  <2>5. Awaits'
    BY <2>2, <2>3 DEF Awaits, Inside
  <2>6. BuiltIsComplete'
    BY <1>0, <2>1 DEF TypeOK, BuiltIsComplete, NoWorker
  <2>7. EndBuilt'
    BY <1>0, <2>1, <2>2, <2>3, <2>4 DEF TypeOK, EndBuilt, Inside
  <2> QED
    BY <2>5, <2>6, <2>7
<1>7. ASSUME NEW t \in Threads, Restore(t) PROVE EndInv'
  BY <1>0, <1>7 DEF Restore, At, TypeOK, builds, Awaits, BuiltIsComplete, EndBuilt
<1>8. ASSUME NEW t \in Threads, Release(t) PROVE EndInv'
  BY <1>0, <1>8
  DEF Release, Forget, At, TypeOK, builds, Awaits, BuiltIsComplete, EndBuilt
<1>9. ASSUME NEW w \in Workers, NEW s \in {"building", "built"}, Becomes(w, s),
             complete \subseteq complete',
             s = "built" => worker[w].model \in complete',
             worker[w].state \in {"started", "building"}
      PROVE  EndInv'
  <2>1. /\ worker' = [worker EXCEPT ![w].state = s]
        /\ UNCHANGED <<pc, uses, mine, outcome>>
    BY <1>9 DEF Becomes, calls
  <2>2. \A v \in Workers : /\ worker'[v].model = worker[v].model
                           /\ worker'[v].state = IF v = w THEN s ELSE worker[v].state
    BY <1>0, <2>1 DEF TypeOK
  <2> QED
    BY <1>9, <2>1, <2>2 DEF Awaits, BuiltIsComplete, EndBuilt
<1>10. ASSUME NEW w \in Workers, Work(w) PROVE EndInv'
  <2>1. CASE AlreadyBuilt(w)
    BY <1>9, <2>1 DEF AlreadyBuilt
  <2>2. CASE Build(w)
    BY <1>9, <2>2 DEF Build
  <2>3. CASE Finish(w)
    <3>1. \A n \in FramesNeeded(worker[w].model) : n <= limit
      BY <2>3, RoomForChains DEF Finish, HaveRoom
    <3>2. /\ worker[w].state = "building" /\ Becomes(w, "built")
          /\ complete' = complete \cup {worker[w].model}
      BY <2>3, <3>1 DEF Finish
    <3> QED
      BY <1>9, <3>2
  <2> QED
    BY <1>10, <2>1, <2>2, <2>3 DEF Work
<1>11. CASE ProgramRaisesLimit \/ ProgramSetsStack
  BY <1>1, <1>11 DEF ProgramRaisesLimit, ProgramSetsStack, calls, builds
<1>12. CASE Measure /\ UNCHANGED <<settings, calls, builds, faults>>
  BY <1>1, <1>12 DEF calls, builds
<1>13. CASE UNCHANGED vars
  BY <1>1, <1>13 DEF vars, calls, builds
<1> QED
  BY <1>2, <1>3, <1>4, <1>5, <1>6, <1>7, <1>8, <1>10, <1>11, <1>12, <1>13, ThreadsAssumption
  DEF Next, Step

\* Builds have the room that they need and succeed, for every schema and whatever
\* the other threads and the program do.
THEOREM BuildsFitCorrect == Spec => []BuildsFit
<1>1. IInv /\ EndInv /\ [Next]_vars => EndInv'
  BY EndStep
<1>2. IInv /\ EndInv => BuildsFit
  BY RoomForChains DEF BuildsFit, EndInv
<1> QED
  BY <1>1, <1>2, EndInitial, Invariance, PTL DEF Spec

\* While no build is prepared, the stack size is the one that the program chose.
THEOREM StackSizeRestoredCorrect == Spec => []StackSizeRestored
<1>1. ASSUME IInv PROVE StackSizeRestored
  <2>1. SUFFICES ASSUME lock = None PROVE stackSize = chosen
    BY DEF StackSizeRestored
  <2>2. \A t \in Threads : pc[t] \notin {"start", "join", "restore"}
    BY <1>1, <2>1, ThreadsAssumption DEF IInv, RunInv, HolderOwnsLock, Inside
  <2> QED
    BY <1>1, <2>2 DEF IInv, RunInv, SizeUntouched
<1> QED
  BY <1>1, Invariance, PTL
=============================================================================
