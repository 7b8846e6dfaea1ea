-------------------------- MODULE GenerationProofs --------------------------
(***************************************************************************)
(* Proofs about Generation, for every set of schemas and every choice of   *)
(* their options, about the types that are generated, for every schema     *)
(* whose names are apart and every depth of recursive types, and about the *)
(* options themselves, for every block and environment.                    *)
(***************************************************************************)
EXTENDS Generation, Types, Options, Integers, WellFoundedInduction, TLAPS

Made(s)   == Runtime(s) \cup Stubs(s)
Modules   == Files \ {"schema.prisma"}
In(f, q)  == \E i \in 1 .. Len(q) : q[i] = f

-----------------------------------------------------------------------------
(* The plan.                                                               *)

\* A file is in a concatenation if it is in a part of it.
LEMMA InConcat ==
  ASSUME NEW p \in Seq(Modules), NEW q \in Seq(Modules), NEW f
  PROVE  /\ p \o q \in Seq(Modules)
         /\ In(f, p) \/ In(f, q) => In(f, p \o q)
<1>1. p \o q \in Seq(Modules) /\ Len(p \o q) = Len(p) + Len(q)
  OBVIOUS
<1>2. ASSUME NEW i \in 1 .. Len(p), p[i] = f PROVE In(f, p \o q)
  <2>1. (p \o q)[i] = f /\ i \in 1 .. Len(p \o q)
    BY <1>1, <1>2
  <2> QED BY <2>1 DEF In
<1>3. ASSUME NEW i \in 1 .. Len(q), q[i] = f PROVE In(f, p \o q)
  <2>1. (p \o q)[Len(p) + i] = f /\ Len(p) + i \in 1 .. Len(p \o q)
    BY <1>1, <1>3
  <2> QED BY <2>1 DEF In
<1> QED BY <1>1, <1>2, <1>3 DEF In

\* Rendering the first file leaves the others to be rendered.
LEMMA InTail ==
  ASSUME NEW q \in Seq(Modules), q # <<>>, NEW f, In(f, q)
  PROVE  /\ Tail(q) \in Seq(Modules)
         /\ Head(q) = f \/ In(f, Tail(q))
<1>1. PICK i \in 1 .. Len(q) : q[i] = f
  BY DEF In
<1>2. Tail(q) \in Seq(Modules) /\ Len(Tail(q)) = Len(q) - 1
  OBVIOUS
<1>3. CASE i = 1
  BY <1>1, <1>2, <1>3
<1>4. CASE i # 1
  <2>1. i - 1 \in 1 .. Len(Tail(q)) /\ Tail(q)[i - 1] = f
    BY <1>1, <1>2, <1>4
  <2> QED BY <1>2, <2>1 DEF In
<1> QED BY <1>3, <1>4

\* A template with or without its stub.
LEMMA PlanWithStub ==
  ASSUME NEW s, NEW stub \in Modules, NEW file \in Modules
  PROVE  /\ WithStub(s, stub, file) \in Seq(Modules)
         /\ In(file, WithStub(s, stub, file))
         /\ s \in Minimal => In(stub, WithStub(s, stub, file))
<1> DEFINE first == IF s \in Minimal THEN <<stub>> ELSE <<>>
<1>1. first \in Seq(Modules) /\ <<file>> \in Seq(Modules)
  OBVIOUS
<1>2. In(file, <<file>>) /\ (s \in Minimal => In(stub, first))
  BY DEF In
<1>3. WithStub(s, stub, file) = first \o <<file>>
  BY DEF WithStub
<1> HIDE DEF first
<1> QED BY <1>1, <1>2, <1>3, InConcat

\* What the separate layout renders first.
LEMMA PlanSeparate ==
  LET q == <<"models/__init__.py", "models/_user.py">> IN
  /\ q \in Seq(Modules)
  /\ In("models/__init__.py", q) /\ In("models/_user.py", q)
BY DEF In, Modules, Files, Templates, Others

\* Every module and stub of a client is planned.
LEMMA PlanComplete ==
  ASSUME NEW s \in Schemas
  PROVE  /\ Plan(s) \in Seq(Modules)
         /\ \A f \in Made(s) : In(f, Plan(s))
<1> DEFINE A == IF s \in Separate
                  THEN <<"models/__init__.py", "models/_user.py">> ELSE <<>>
           B == WithStub(s, "client.pyi", "client.py")
           C == IF s \in Separate THEN <<>>
                  ELSE WithStub(s, "models.pyi", "models.py")
           D == WithStub(s, "types.pyi", "types.py")
           E == <<"partials.py">>
<1>1. /\ A \in Seq(Modules)
      /\ s \in Separate => /\ In("models/__init__.py", A)
                           /\ In("models/_user.py", A)
  BY PlanSeparate
<1>2. /\ B \in Seq(Modules)
      /\ In("client.py", B) /\ (s \in Minimal => In("client.pyi", B))
  BY PlanWithStub DEF Modules, Files, Templates, Others
<1>3. /\ C \in Seq(Modules)
      /\ s \notin Separate => /\ In("models.py", C)
                              /\ s \in Minimal => In("models.pyi", C)
  <2>1. CASE s \in Separate
    BY <2>1
  <2>2. CASE s \notin Separate
    <3>1. C = WithStub(s, "models.pyi", "models.py")
      BY <2>2
    <3>2. "models.pyi" \in Modules /\ "models.py" \in Modules
      BY DEF Modules, Files, Templates, Others
    <3> HIDE DEF C
    <3> QED BY <2>2, <3>1, <3>2, PlanWithStub
  <2> QED BY <2>1, <2>2
<1>4. /\ D \in Seq(Modules)
      /\ In("types.py", D) /\ (s \in Minimal => In("types.pyi", D))
  BY PlanWithStub DEF Modules, Files, Templates, Others
<1>5. E \in Seq(Modules) /\ In("partials.py", E)
  BY DEF In, Modules, Files, Templates, Others
<1>6. Plan(s) = (((A \o B) \o C) \o D) \o E
  BY DEF Plan, MainLoop
<1> HIDE DEF A, B, C, D, E
<1>7. /\ A \o B \in Seq(Modules)
      /\ \A f : In(f, A) \/ In(f, B) => In(f, A \o B)
  BY <1>1, <1>2, InConcat
<1>8. /\ (A \o B) \o C \in Seq(Modules)
      /\ \A f : In(f, A \o B) \/ In(f, C) => In(f, (A \o B) \o C)
  BY <1>3, <1>7, InConcat
<1>9. /\ ((A \o B) \o C) \o D \in Seq(Modules)
      /\ \A f : In(f, (A \o B) \o C) \/ In(f, D) => In(f, ((A \o B) \o C) \o D)
  BY <1>4, <1>8, InConcat
<1>10. /\ Plan(s) \in Seq(Modules)
       /\ \A f : In(f, ((A \o B) \o C) \o D) \/ In(f, E) => In(f, Plan(s))
  BY <1>5, <1>6, <1>9, InConcat
<1>11. ASSUME NEW f \in Made(s) PROVE In(f, Plan(s))
  <2>1. In(f, A) \/ In(f, B) \/ In(f, C) \/ In(f, D) \/ In(f, E)
    BY <1>1, <1>2, <1>3, <1>4, <1>5, <1>11 DEF Made, Runtime, Stubs
  <2> QED BY <1>7, <1>8, <1>9, <1>10, <2>1
<1> QED BY <1>10, <1>11

-----------------------------------------------------------------------------
(* The inductive invariant.                                                *)

\* While a request is worked on, each file of its client is made or planned,
\* and its schema is packaged; otherwise nothing is planned.
Progress ==
  /\ pc = "render" =>
       /\ request \in Schemas
       /\ disk["schema.prisma"] = request
       /\ \A f \in Made(request) : disk[f] = request \/ In(f, todo)

\* The modules of the layout of client.py were made with it.
MadeWhole ==
  AtRest /\ Importable =>
    \A f \in Runtime(disk["client.py"]) : disk[f] = disk["client.py"]

IInv == TypeOK /\ Progress /\ MadeWhole

\* A client made from s is made of modules, not of the packaged schema.
LEMMA MadeOfModules ==
  ASSUME NEW s
  PROVE  Made(s) \subseteq Modules /\ "client.py" \in Runtime(s)
BY DEF Made, Runtime, Stubs, Modules, Files, Templates, Others

\* A finished request leaves the whole client of its schema.
LEMMA Finished ==
  ASSUME Progress, pc = "render", todo = <<>>
  PROVE  \A f \in Made(request) \cup {"schema.prisma"} : disk[f] = request
BY DEF Progress, In

\* An empty package before the first request.
LEMMA InitInvariant == Init => IInv
<1> SUFFICES ASSUME Init PROVE IInv
  OBVIOUS
<1>1. TypeOK
  <2>1. todo \in Seq(Modules)
    BY DEF Init
  <2> QED BY <2>1 DEF Init, TypeOK, Label, Modules
<1>2. Progress
  BY DEF Init, Progress
<1>3. MadeWhole
  BY DEF Init, MadeWhole, Importable, Files, Templates
<1> QED BY <1>1, <1>2, <1>3 DEF IInv

-----------------------------------------------------------------------------
(* The steps.                                                              *)

\* One step per action.
LEMMA TypeStep ==
  ASSUME TypeOK, [Next]_vars
  PROVE  TypeOK'
<1> USE GenerationAssumption DEF TypeOK, Label
<1>1. ASSUME NEW s \in Schemas, Begin(s) PROVE TypeOK'
  <2>1. todo' \in Seq(Modules)
    BY <1>1, PlanComplete DEF Begin
  <2> QED BY <1>1, <2>1 DEF Begin, Modules
<1>2. ASSUME NEW s \in Schemas, Refuse(s) PROVE TypeOK'
  BY <1>2 DEF Refuse
<1>3. CASE Render
  <2>1. todo' \in Seq(Modules)
    BY <1>3 DEF Render, Modules
  <2>2. disk' \in [Files -> Schemas \cup {Absent}]
    BY <1>3 DEF Render
  <2> QED BY <1>3, <2>1, <2>2 DEF Render, Modules
<1>4. CASE Fail \/ Kill \/ Cleanup
  <2>1. Cleaned \in [Files -> Schemas \cup {Absent}]
    BY DEF Cleaned
  <2>2. todo' \in Seq(Modules)
    <3>1. <<>> \in Seq(Modules) /\ todo \in Seq(Modules)
      BY DEF Modules
    <3>2. todo' = <<>> \/ todo' = todo
      BY <1>4 DEF Fail, Kill, Cleanup
    <3> QED BY <3>1, <3>2
  <2>3. disk' \in [Files -> Schemas \cup {Absent}]
    BY <1>4, <2>1 DEF Fail, Kill, Cleanup
  <2> QED BY <1>4, <2>2, <2>3 DEF Fail, Kill, Cleanup, Modules
<1>5. CASE Invoke \/ Leave \/ Succeed \/ UNCHANGED vars
  BY <1>5 DEF Invoke, Leave, Succeed, vars
<1> QED BY <1>1, <1>2, <1>3, <1>4, <1>5 DEF Next

\* Rendering keeps the promise of the plan; nothing else touches a file
\* while a request is worked on.
LEMMA ProgressStep ==
  ASSUME TypeOK, Progress, [Next]_vars
  PROVE  Progress'
<1>1. ASSUME NEW s \in Schemas, Begin(s) PROVE Progress'
  <2>1. disk'["schema.prisma"] = s
    BY <1>1 DEF Begin, TypeOK, Files, Others
  <2>2. request' = s /\ todo' = Plan(s)
    BY <1>1 DEF Begin
  <2> QED BY <1>1, <2>1, <2>2, PlanComplete DEF Progress, Made, Runtime,
             Stubs, In
<1>2. CASE Render
  <2> DEFINE h == Head(todo)
  <2>1. /\ disk' = [disk EXCEPT ![h] = request] /\ todo' = Tail(todo)
        /\ todo # <<>> /\ pc = "render" /\ request' = request
    BY <1>2 DEF Render
  <2>2. todo \in Seq(Modules)
    BY DEF TypeOK, Modules
  <2>3. h \in Modules
    BY <2>1, <2>2
  <2>4. disk'["schema.prisma"] = request
    BY <2>1, <2>3 DEF Progress, TypeOK, Modules
  <2>5. ASSUME NEW f \in Made(request) PROVE disk'[f] = request \/ In(f, todo')
    <3>1. f \in Files
      BY <2>5, MadeOfModules DEF Modules
    <3>2. CASE f = h
      BY <2>1, <3>1, <3>2 DEF TypeOK
    <3>3. CASE f # h /\ disk[f] = request
      BY <2>1, <3>1, <3>3 DEF TypeOK
    <3>4. CASE f # h /\ In(f, todo)
      BY <2>1, <2>2, <3>4, InTail
    <3> QED BY <2>1, <2>5, <3>2, <3>3, <3>4 DEF Progress
  <2>6. Made(request') = Made(request)
    BY <2>1
  <2> QED BY <2>1, <2>4, <2>5, <2>6 DEF Progress, Made, Runtime, Stubs, In
<1>3. CASE ~(pc' = "render")
  BY <1>3 DEF Progress
<1>4. CASE UNCHANGED vars
  BY <1>4 DEF Progress, vars, Made, Runtime, Stubs, In
<1> QED BY <1>1, <1>2, <1>3, <1>4
        DEF Next, Invoke, Leave, Refuse, Succeed, Fail, Kill, Cleanup

\* A package is made whole by a success, emptied by a failure, and left as it
\* is by the rest; while files are missing, the generator works or was killed.
LEMMA WholeStep ==
  ASSUME TypeOK, Progress, MadeWhole, [Next]_vars
  PROVE  MadeWhole'
<1> SUFFICES ASSUME AtRest', Importable'
             PROVE  \A f \in Runtime(disk'["client.py"]) :
                      disk'[f] = disk'["client.py"]
  BY DEF MadeWhole, Runtime
<1>1. CASE Succeed
  <2>1. \A f \in Made(request) : disk'[f] = request
    BY <1>1, Finished DEF Succeed
  <2>2. disk'["client.py"] = request
    BY <2>1, MadeOfModules DEF Made
  <2> QED BY <2>1, <2>2 DEF Made
<1>2. CASE Fail \/ Cleanup
  BY <1>2 DEF Fail, Cleanup, Cleaned, Importable, Files, Templates
<1>3. ASSUME NEW s \in Schemas, Refuse(s)
      PROVE  \A f \in Runtime(disk'["client.py"]) :
               disk'[f] = disk'["client.py"]
  <2>1. \A f \in Modules : disk'[f] = disk[f]
    BY <1>3 DEF Refuse, TypeOK, Modules
  <2>2. disk'["client.py"] = disk["client.py"]
    BY <2>1 DEF Modules, Files, Templates
  <2>3. AtRest /\ Importable
    BY <1>3, <2>2 DEF Refuse, AtRest, Importable
  <2> QED BY <2>1, <2>2, <2>3, MadeOfModules DEF MadeWhole, Made
<1>4. CASE Invoke \/ Leave \/ Kill \/ UNCHANGED vars
  <2>1. disk' = disk
    BY <1>4 DEF Invoke, Leave, Kill, vars
  <2>2. CASE Kill
    <3>1. ~torn /\ pc # "render"
      BY <2>2, Zenon DEF Kill, AtRest
    <3> QED BY <2>1, <3>1 DEF MadeWhole, AtRest, Importable
  <2>3. CASE Invoke \/ Leave \/ UNCHANGED vars
    <3>1. AtRest
      BY <2>3 DEF Invoke, Leave, vars, AtRest
    <3> QED BY <2>1, <3>1 DEF MadeWhole, Importable
  <2> QED BY <1>4, <2>2, <2>3
<1>5. CASE \E s \in Schemas : Begin(s)
  BY <1>5 DEF Begin, AtRest
<1>6. CASE Render
  BY <1>6 DEF Render, AtRest
<1> QED BY <1>1, <1>2, <1>3, <1>4, <1>5, <1>6 DEF Next

\* The three together are inductive.
LEMMA InvariantCorrect == Spec => []IInv
<1>1. IInv /\ [Next]_vars => IInv'
  BY TypeStep, ProgressStep, WholeStep DEF IInv
<1> QED BY <1>1, InitInvariant, PTL DEF Spec

-----------------------------------------------------------------------------
(* The theorems.                                                           *)

\* Only files of the package are planned, and each holds what one schema made.
THEOREM TypeCorrect == Spec => []TypeOK
BY InvariantCorrect, PTL DEF IInv

\* "Template runtime errors do not result in a partially generated module": what
\* is loaded beside client.py was made with it, or is a leftover models package.
THEOREM WholeClientCorrect == Spec => []WholeClient
<1>1. TypeOK /\ MadeWhole => WholeClient
  <2> SUFFICES ASSUME TypeOK, MadeWhole, AtRest, Importable, NEW f \in Loaded
               PROVE  disk[f] = disk["client.py"] \/ (Leftover /\ f \in Package)
    BY DEF WholeClient
  <2>1. CASE f \in Runtime(disk["client.py"])
    BY <2>1 DEF MadeWhole
  <2>2. CASE f \notin Runtime(disk["client.py"])
    <3>1. CASE disk["client.py"] \in Separate
      <4>1. disk["models/__init__.py"] = disk["client.py"]
        BY <3>1 DEF MadeWhole, Runtime
      <4> QED BY <2>2, <3>1, <4>1 DEF Loaded, Package, Runtime, Importable
    <3>2. CASE disk["client.py"] \notin Separate
      BY <2>2, <3>2 DEF Loaded, Package, Runtime, Leftover
    <3> QED BY <3>1, <3>2
  <2> QED BY <2>1, <2>2
<1> QED BY <1>1, InvariantCorrect, PTL DEF IInv

\* A file of no part of a concatenation is not in it.
LEMMA NotInConcat ==
  ASSUME NEW p \in Seq(Modules), NEW q \in Seq(Modules), NEW f,
         ~In(f, p), ~In(f, q)
  PROVE  ~In(f, p \o q)
<1> SUFFICES ASSUME NEW i \in 1 .. Len(p \o q), (p \o q)[i] = f PROVE FALSE
  BY DEF In
<1>1. Len(p \o q) = Len(p) + Len(q)
  OBVIOUS
<1>2. CASE i <= Len(p)
  <2>1. i \in 1 .. Len(p) /\ p[i] = f
    BY <1>2
  <2> QED BY <2>1 DEF In
<1>3. CASE i > Len(p)
  <2>1. i - Len(p) \in 1 .. Len(q) /\ q[i - Len(p)] = f
    BY <1>1, <1>3
  <2> QED BY <2>1 DEF In
<1> QED BY <1>2, <1>3

\* The layout of one file plans no package.
LEMMA PlanOfOneFile ==
  ASSUME NEW s \in Schemas, s \notin Separate
  PROVE  ~In("models/__init__.py", Plan(s))
<1> DEFINE f == "models/__init__.py"
           W(stub, file) == WithStub(s, stub, file)
           B == W("client.pyi", "client.py")
           C == W("models.pyi", "models.py")
           D == W("types.pyi", "types.py")
           E == <<"partials.py">>
<1>1. ASSUME NEW stub \in Modules, NEW file \in Modules, stub # f, file # f
      PROVE  WithStub(s, stub, file) \in Seq(Modules) /\ ~In(f, WithStub(s, stub, file))
  <2> DEFINE first == IF s \in Minimal THEN <<stub>> ELSE <<>>
  <2>1. /\ first \in Seq(Modules) /\ <<file>> \in Seq(Modules)
        /\ ~In(f, first) /\ ~In(f, <<file>>)
    BY <1>1 DEF In
  <2>2. WithStub(s, stub, file) = first \o <<file>>
    BY DEF WithStub
  <2> HIDE DEF first
  <2>3. first \o <<file>> \in Seq(Modules)
    BY <2>1
  <2>4. ~In(f, first \o <<file>>)
    BY <2>1, NotInConcat
  <2> QED BY <2>2, <2>3, <2>4
<1>2. B \in Seq(Modules) /\ ~In(f, B)
  BY <1>1 DEF Modules, Files, Templates, Others
<1>3. C \in Seq(Modules) /\ ~In(f, C)
  BY <1>1 DEF Modules, Files, Templates, Others
<1>4. D \in Seq(Modules) /\ ~In(f, D)
  BY <1>1 DEF Modules, Files, Templates, Others
<1>5. E \in Seq(Modules) /\ ~In(f, E)
  BY DEF In, Modules, Files, Templates, Others
<1>6. Plan(s) = (((<<>> \o B) \o C) \o D) \o E
  BY DEF Plan, MainLoop
<1>7. <<>> \in Seq(Modules) /\ ~In(f, <<>>)
  BY DEF In
<1> HIDE DEF B, C, D, E, f
<1>8. <<>> \o B \in Seq(Modules) /\ ~In(f, <<>> \o B)
  BY <1>2, <1>7, InConcat, NotInConcat
<1>9. (<<>> \o B) \o C \in Seq(Modules) /\ ~In(f, (<<>> \o B) \o C)
  BY <1>3, <1>8, InConcat, NotInConcat
<1>10. /\ ((<<>> \o B) \o C) \o D \in Seq(Modules)
       /\ ~In(f, ((<<>> \o B) \o C) \o D)
  BY <1>4, <1>9, InConcat, NotInConcat
<1>11. ~In(f, Plan(s))
  BY <1>5, <1>6, <1>10, NotInConcat
<1> QED BY <1>11 DEF f

\* No package was made, and none is planned.
NoPackage == /\ disk["models/__init__.py"] = Absent
             /\ ~In("models/__init__.py", todo)

\* Where nobody asks for separate model files, there is no models package.
LEMMA NoPackageStep ==
  ASSUME Separate = {}, TypeOK, NoPackage, [Next]_vars
  PROVE  NoPackage'
<1> DEFINE f == "models/__init__.py"
<1>0. f \in Files /\ todo \in Seq(Modules) /\ disk \in [Files -> Schemas \cup {Absent}]
  BY DEF TypeOK, Files, Templates, Modules
<1>1. ASSUME NEW s \in Schemas, Begin(s) PROVE NoPackage'
  <2>1. todo' = Plan(s) /\ disk' = [disk EXCEPT !["schema.prisma"] = s]
    BY <1>1 DEF Begin
  <2>2. ~In(f, todo')
    BY <2>1, PlanOfOneFile
  <2> QED BY <1>0, <2>1, <2>2 DEF NoPackage, In
<1>2. ASSUME NEW s \in Schemas, Refuse(s) PROVE NoPackage'
  BY <1>0, <1>2 DEF Refuse, NoPackage, In
<1>3. CASE Render
  <2>1. /\ todo # <<>> /\ todo' = Tail(todo)
        /\ disk' = [disk EXCEPT ![Head(todo)] = request]
    BY <1>3 DEF Render
  <2>2. Head(todo) # f
    <3>1. 1 \in 1 .. Len(todo) /\ Head(todo) = todo[1]
      BY <1>0, <2>1
    <3> QED BY <3>1 DEF NoPackage, In
  <2>3. ~In(f, Tail(todo))
    <3> SUFFICES ASSUME NEW i \in 1 .. Len(Tail(todo)), Tail(todo)[i] = f
                 PROVE  FALSE
      BY DEF In
    <3>1. i + 1 \in 1 .. Len(todo) /\ todo[i + 1] = f
      BY <1>0, <2>1
    <3> QED BY <3>1 DEF NoPackage, In
  <2>4. disk'[f] = Absent
    BY <1>0, <2>1, <2>2 DEF NoPackage
  <2> QED BY <2>1, <2>3, <2>4 DEF NoPackage, In
<1>4. CASE Fail \/ Kill \/ Cleanup
  <2>1. disk' = Cleaned \/ disk' = disk
    BY <1>4 DEF Fail, Kill, Cleanup
  <2>2. todo' = <<>> \/ todo' = todo
    BY <1>4 DEF Fail, Kill, Cleanup
  <2>3. disk'[f] = Absent
    BY <1>0, <2>1 DEF Cleaned, NoPackage
  <2> QED BY <2>2, <2>3 DEF NoPackage, In
<1>5. CASE Invoke \/ Leave \/ Succeed \/ UNCHANGED vars
  BY <1>5 DEF Invoke, Leave, Succeed, vars, NoPackage, In
<1> QED BY <1>1, <1>2, <1>3, <1>4, <1>5 DEF Next

\* As long as one layout is kept (all schemas separate their model files, or
\* none does), what is loaded is the client of one schema without exception.
THEOREM OneLayoutIsWhole ==
  ASSUME Separate = {} \/ Separate = Schemas
  PROVE  Spec => []ClientIsOfOneSchema
<1>1. CASE Separate = Schemas
  <2>1. TypeOK /\ WholeClient => ClientIsOfOneSchema
    BY <1>1 DEF TypeOK, Files, Templates, WholeClient, ClientIsOfOneSchema,
                Leftover, Importable
  <2> QED BY <2>1, TypeCorrect, WholeClientCorrect, PTL
<1>2. CASE Separate = {}
  <2>1. Init => NoPackage
    BY DEF Init, NoPackage, In, Files, Templates
  <2>2. TypeOK /\ NoPackage /\ [Next]_vars => NoPackage'
    BY <1>2, NoPackageStep
  <2>3. NoPackage /\ WholeClient => ClientIsOfOneSchema
    BY DEF NoPackage, WholeClient, ClientIsOfOneSchema, Leftover
  <2> QED BY <2>1, <2>2, <2>3, TypeCorrect, WholeClientCorrect, PTL DEF Spec
<1> QED BY <1>1, <1>2

\* Success is reported only for a complete client, whatever happened before.
THEOREM SuccessCorrect == Spec => SuccessMeansComplete
<1>1. ASSUME IInv, [Next]_vars, pc = "render", pc' = "read"
      PROVE  /\ reply' = "ok"
             /\ \A f \in Runtime(request) \cup Stubs(request)
                          \cup {"schema.prisma"} : disk'[f] = request
  <2>1. Succeed
    BY <1>1 DEF Next, Invoke, Leave, Begin, Refuse, Render, Fail, Kill,
                Cleanup,
                vars
  <2> QED BY <1>1, <2>1, Finished DEF Succeed, IInv, Made
<1>2. IInv /\ [Next]_vars =>
        [pc = "render" /\ pc' = "read" =>
           /\ reply' = "ok"
           /\ \A f \in Runtime(request) \cup Stubs(request)
                        \cup {"schema.prisma"} : disk'[f] = request]_vars
  BY <1>1
<1> QED BY <1>2, InvariantCorrect, PTL DEF Spec, SuccessMeansComplete

-----------------------------------------------------------------------------
(* What a name means: the last definition of it.                           *)

\* A name means these rows in the module of a client.
Defines(c, name, rows) == Bound(c, name) # {} /\ Offered(c, name) = rows

\* A set of natural numbers has a least one.
LEMMA LeastNumber ==
  ASSUME NEW I \in SUBSET Nat, I # {}
  PROVE  \E i \in I : \A j \in I : i <= j
<1> DEFINE R == OpToRel(<, Nat)
<1>1. \A i, j \in Nat : i < j => <<i, j>> \in R
  BY DEF OpToRel
<1>2. IsWellFoundedOn(R, Nat)
  BY NatLessThanWellFounded
<1> HIDE DEF R
<1>3. PICK i \in I : \A j \in I : <<j, i>> \notin R
  BY <1>2, WFMin
<1>4. \A j \in I : ~(j < i)
  BY <1>1, <1>3
<1> QED BY <1>3, <1>4

\* A definition is in section 0 or in that of a model.
LEMMA SectionOf ==
  ASSUME NEW c, NEW d \in Definitions(c)
  PROVE  d.section \in 0 .. Len(Schema)
BY SchemaAssumption DEF Definitions

\* When equal names have equal rows, a name that is defined means those rows
\* once the module is imported: there is a last definition of it.
LEMMA IsBound ==
  ASSUME NamesApart, NEW c \in Configs, NEW d \in Definitions(c)
  PROVE  Defines(c, d.name, d.rows)
<1> DEFINE Named == {x \in Definitions(c) : x.name = d.name}
<1> DEFINE I == {Len(Schema) - e.section : e \in Named}
<1>0. Len(Schema) \in Nat
  BY SchemaAssumption
<1>1. I \in SUBSET Nat /\ I # {}
  BY <1>0, SectionOf
<1>2. PICK i \in I : \A j \in I : i <= j
  BY <1>1, LeastNumber
<1>3. PICK e \in Definitions(c) : e.name = d.name /\ i = Len(Schema) - e.section
  BY <1>2
<1>4. ASSUME NEW x \in Definitions(c), x.name = e.name
      PROVE  x.section <= e.section
  <2>0. x \in Named
    BY <1>3, <1>4
  <2>1. Len(Schema) - x.section \in I
    <3> HIDE DEF Named
    <3> QED BY <2>0
  <2>2. i <= Len(Schema) - x.section
    <3> HIDE DEF I
    <3> QED BY <2>1, <1>2
  <2>3. x.section \in Int /\ e.section \in Int
    BY <1>0, SectionOf
  <2> QED BY <2>2, <2>3, <1>0, <1>3
<1>5. e \in Imported(c)
  BY <1>3, <1>4 DEF Imported
<1> DEFINE g == [config |-> c, types |-> Imported(c)]
<1>6. g \in Generated /\ g.config = c
  BY DEF Generated
<1>7. (CHOOSE x \in Generated : x.config = c).types = Imported(c)
  BY <1>6 DEF Generated
<1>8. Bound(c, d.name) = {x \in Imported(c) : x.name = d.name}
  BY <1>7 DEF Bound
<1>9. Bound(c, d.name) # {}
  BY <1>3, <1>5, <1>8
<1>10. \A x \in Bound(c, d.name) : x.rows = d.rows
  BY <1>8 DEF Imported, NamesApart
<1> QED BY <1>9, <1>10 DEF Defines, Offered

\* A type of a scalar is what its name means.
LEMMA ScalarDefined ==
  ASSUME NamesApart, NEW c \in Configs, NEW t \in ScalarTypes(c)
  PROVE  Defines(c, t.name, t.rows)
<1> DEFINE d == [section |-> 0, name |-> t.name, rows |-> t.rows]
<1>1. d \in Definitions(c)
  BY DEF Definitions
<1>2. Defines(c, d.name, d.rows)
  BY <1>1, IsBound
<1> QED BY <1>2

\* A type of a model is what its name means.
LEMMA ModelDefined ==
  ASSUME NamesApart, NEW c \in Configs, NEW m \in Models, NEW t \in ModelTypes(c, m)
  PROVE  Defines(c, t.name, t.rows)
<1>1. PICK i \in DOMAIN Schema : m = Schema[i]
  BY DEF Models
<1> DEFINE d == [section |-> i, name |-> t.name, rows |-> t.rows]
<1>2. d \in Definitions(c)
  BY <1>1 DEF Definitions
<1>3. Defines(c, d.name, d.rows)
  BY <1>2, IsBound
<1> QED BY <1>3

-----------------------------------------------------------------------------
(* Models, copies and aliases.                                             *)

\* The name of a model names that model.
LEMMA OfModel ==
  ASSUME NEW m \in Models
  PROVE  m.name \in Names(Models) /\ ModelOf(m.name) = m
BY SchemaAssumption DEF Names, ModelOf

\* The copy that a recursive type names next exists.
LEMMA NextCopy ==
  ASSUME NEW c \in Configs, NEW n \in Copies(c)
  PROVE  /\ n \in Nat
         /\ HasNext(c, n) => Following(c, n) \in Copies(c)
BY DepthAssumption DEF Copies, HasNext, Following

\* The first copy of a recursive type has its plain name.
LEMMA FirstCopy ==
  ASSUME NEW c \in Configs, NEW base
  PROVE  0 \in Copies(c) /\ Copy(base, 0) = base
BY DepthAssumption DEF Copies, Copy

\* What the aliases of the query builder make of the keys of arguments.
LEMMA Renamed ==
  /\ Alias("create") = "create" /\ Alias("connect") = "connect" /\ Alias("connect_or_create") = "connectOrCreate"
  /\ Alias("where") = "where" /\ Alias("update") = "update" /\ Alias("set") = "set"
  /\ Alias("disconnect") = "disconnect" /\ Alias("delete") = "delete" /\ Alias("_relevance") = "_relevance"
  /\ Alias("is") = "is" /\ Alias("is_not") = "isNot"
  /\ Alias("some") = "some" /\ Alias("none") = "none" /\ Alias("every") = "every"
  /\ Alias("AND") = "AND" /\ Alias("OR") = "OR" /\ Alias("NOT") = "NOT"
  /\ Alias("include") = "include" /\ Alias("take") = "take" /\ Alias("skip") = "skip"
  /\ Alias("distinct") = "distinct" /\ Alias("order_by") = "orderBy" /\ Alias("cursor") = "cursor"
  /\ Alias("fields") = "fields" /\ Alias("search") = "search" /\ Alias("sort") = "sort" /\ Alias("_all") = "_all"
  /\ Alias("push") = "push" /\ Alias("divide") = "divide" /\ Alias("multiply") = "multiply"
  /\ Alias("increment") = "increment" /\ Alias("decrement") = "decrement"
BY DEF Alias, Aliases

\* What the aliases make of the operators of filters.
LEMMA OperatorsRenamed ==
  /\ Alias("equals") = "equals" /\ Alias("not_in") = "notIn" /\ Alias("in") = "in" /\ Alias("not") = "not"
  /\ Alias("lt") = "lt" /\ Alias("lte") = "lte" /\ Alias("gt") = "gt" /\ Alias("gte") = "gte"
  /\ Alias("contains") = "contains" /\ Alias("startswith") = "startsWith" /\ Alias("endswith") = "endsWith"
  /\ Alias("mode") = "mode" /\ Alias("search") = "search"
  /\ Alias("has") = "has" /\ Alias("has_every") = "hasEvery" /\ Alias("has_some") = "hasSome"
  /\ Alias("is_empty") = "isEmpty"
BY DEF Alias, Aliases

\* The aliases leave the names of fields and of compound keys alone.
LEMMA FieldsRenamed ==
  ASSUME KeysApart, NEW m \in Models
  PROVE  /\ \A f \in m.fields : Alias(f.name) = f.name
         /\ \A k \in m.keys : Alias(k.name) = k.name
         /\ \A k \in m.keys : \A key \in k.fields : Alias(key) = key
BY DEF Alias, KeysApart

-----------------------------------------------------------------------------
(* The types that are meant for the places of the engine's grammar.        *)

\* The kinds of places that are of a model, and those of a model below a relation.
ModelKinds ==
  {"create", "createMany", "update", "updateAll", "upsert", "unique", "orderBy", "is", "some", "where", "include", "args",
   "findArgs", "count", "numbers", "fields"}
NestedKinds == {"create", "connectOrCreate", "createNested", "updateMany", "updateOne", "updateRequired"}

\* What a place of a model may be below: one of its relations.
Backs(m) == Names(Relations(m))

\* A place of the engine's grammar.
WellPlaced(p) ==
  \/ \E m \in Models, kind \in ModelKinds : p = Place(kind, m.name, "-")
  \/ \E m \in Models, kind \in NestedKinds : \E back \in Backs(m) : p = Place(kind, m.name, back)
  \/ \E m \in Models : \E k \in m.keys : p = Place("compound", m.name, k.name)
  \/ p = Place("relevance", "-", "-")
  \/ \E type \in FilterTypes \cup Enums, kind \in {"list", "listUpdate"} : p = Place(kind, "-", type)
  \/ \E type \in FilterTypes, kind \in {"filter", "nestedFilter"} : p = Place(kind, "-", type)
  \/ \E type \in Numbers : p = Place("atomic", "-", type)
  \/ p = Anything

\* The names of the copies of a filter.
FilterNames(c, type) == {Copy(type ++ "Filter", n) : n \in FilterCopies(c, type)}

\* BigIntFilter has the operators of IntFilter, whose copies it names.
IntFilters(c) == {"BigInt" ++ "Filter"} \cup FilterNames(c, "Int")

\* The types that are reached from group_by, whose arguments are not compared.
GroupNames(c) ==
  (UNION {FilterNames(c, type) \cup {type ++ "WithAggregatesFilter"} : type \in FilterTypes \ {"BigInt"}})
  \cup {"BigInt" ++ "Filter", "BigInt" ++ "WithAggregatesFilter"}
  \cup (UNION {{Copy(m.name ++ "ScalarWhereWithAggregatesInput", n) : n \in Copies(c)} : m \in Models})
  \cup {m.name ++ "GroupByOutput" : m \in Models}
  \cup (UNION {{m.name ++ kind ++ "AggregateOutput" : kind \in {"Sum", "Avg", "Min", "Max", "Count"}} : m \in Models})

\* The copy of a relation's arguments that a level has.
AtLevel(c, n, l) == n \in Copies(c) /\ l >= 1 /\ (c.depth = -1 \/ n = 2 * (l - 1))

\* The copy of their include that a level has.
IncludeAtLevel(c, n, l) == n \in Copies(c) /\ l >= 2 /\ (c.depth = -1 \/ n = 2 * l - 3)

\* A type is meant for a place at a level of includes.
IsMeant(c, name, p, l) ==
  \/ p.kind = "create" /\ name = IF p.key = "-" THEN p.of ++ "CreateInput" ELSE p.of ++ "CreateWithoutRelationsInput"
  \/ p.kind = "createMany" /\ name = p.of ++ "CreateWithoutRelationsInput"
  \/ p.kind = "connectOrCreate" /\ name = p.of ++ "ConnectOrCreateWithoutRelationsInput"
  \/ p.kind = "createNested"
     /\ name \in {p.of ++ "CreateNestedWithoutRelationsInput", p.of ++ "CreateManyNestedWithoutRelationsInput"}
  \/ p.kind = "update" /\ name = p.of ++ "UpdateInput"
  \/ p.kind = "updateAll" /\ name = p.of ++ "UpdateManyMutationInput"
  \/ p.kind = "updateMany" /\ name = p.of ++ "UpdateManyWithoutRelationsInput"
  \/ p.kind \in {"updateOne", "updateRequired"} /\ name = p.of ++ "UpdateOneWithoutRelationsInput"
  \/ p.kind = "upsert" /\ name = p.of ++ "UpsertInput"
  \/ p.kind = "unique" /\ name = p.of ++ "WhereUniqueInput"
  \/ p.kind = "compound" /\ name = "_" ++ p.of ++ "Compound" ++ p.key ++ "KeyInner"
  \/ p.kind = "orderBy" /\ name = p.of ++ "OrderByInput"
  \/ p.kind = "relevance" /\ c.provider \in {"postgresql", "mysql"} /\ \E m \in Models : name = "_" ++ m.name ++ "_RelevanceInner"
  \/ p.kind = "is" /\ name = p.of ++ "RelationFilter"
  \/ p.kind = "some" /\ name = p.of ++ "ListRelationFilter"
  \/ p.kind = "where" /\ \E n \in Copies(c) : name = Copy(p.of ++ "WhereInput", n)
  \/ p.kind = "include" /\ \/ l = 1 /\ name = p.of ++ "Include"
                           \/ \E m \in Models, n \in Copies(c) :
                                IncludeAtLevel(c, n, l) /\ name = Copy(p.of ++ "IncludeFrom" ++ m.name, n)
  \/ p.kind = "args" /\ \E m \in Models, n \in Copies(c) :
                           AtLevel(c, n, l) /\ name = Copy(p.of ++ "ArgsFrom" ++ m.name, n)
  \/ p.kind = "findArgs" /\ \/ l = 1 /\ name \in {"FindMany" ++ p.of ++ "Args", "FindFirst" ++ p.of ++ "Args"}
                            \/ \E m \in Models, n \in Copies(c) :
                                 AtLevel(c, n, l) /\ name = Copy("FindMany" ++ p.of ++ "ArgsFrom" ++ m.name, n)
  \/ p.kind = "count" /\ name = p.of ++ "CountAggregateInput"
  \/ p.kind = "numbers" /\ name \in {p.of ++ "AvgAggregateInput", p.of ++ "SumAggregateInput"}
  \/ p.kind = "fields" /\ name \in {p.of ++ "MinAggregateInput", p.of ++ "MaxAggregateInput"}
  \/ p.kind = "list" /\ name = p.key ++ "ListFilter"
  \/ p.kind = "listUpdate" /\ name = p.key ++ "ListUpdate"
  \/ p.kind \in {"filter", "nestedFilter"} /\ name \in IF p.key = "BigInt" THEN IntFilters(c) ELSE FilterNames(c, p.key)
  \/ p.kind = "atomic" /\ name = "Atomic" ++ p.key ++ "Input"
  \/ p.kind = "anything" /\ name \in GroupNames(c)

\* The inductive invariant: the walk is at a place of the grammar, with a type
\* that is meant for it.
Placed(c, name, p, l) == l \in Nat /\ WellPlaced(p) /\ IsMeant(c, name, p, l)

\* The level of what is written at a place.
Deeper(p, l) == IF p.kind = "include" THEN l + 1 ELSE l

\* A value of the type may be written under the key of this place.
Enters(c, name, p, l) == Placed(c, name, p, Deeper(p, l))

\* A row can be written at a place, or is known not to be taken there; when it
\* is written, it leads to what is meant there.
Follows(c, row, p, l) ==
  /\ (\E slot \in Takes(c, p) : slot.key = Alias(row.key)) \/ Alias(row.key) \in Overoffered(p)
  /\ \A to \in row.to, slot \in Takes(c, p) : slot.key = Alias(row.key) => Enters(c, to, slot.place, l)

\* A type is defined, and each of its rows follows.
Right(c, name, p, l) == \E rows : Defines(c, name, rows) /\ \A row \in rows : Follows(c, row, p, l)

\* Only an include is a level deeper than the place it is written at.
LEMMA LevelOf ==
  ASSUME NEW l \in Nat, NEW m \in Models
  PROVE  /\ \A kind \in ModelKinds : Deeper(Place(kind, m.name, "-"), l) = IF kind = "include" THEN l + 1 ELSE l
         /\ \A kind \in NestedKinds, back \in Backs(m) : Deeper(Place(kind, m.name, back), l) = l
         /\ \A k \in m.keys : Deeper(Place("compound", m.name, k.name), l) = l
         /\ \A type \in FilterTypes \cup Enums : \A kind \in {"list", "listUpdate", "filter", "nestedFilter", "atomic"} :
              Deeper(Place(kind, "-", type), l) = l
         /\ Deeper(Place("relevance", "-", "-"), l) = l /\ Deeper(Anything, l) = l
BY DEF Deeper, Place, Anything, NestedKinds

\* Each kind of input of a model is a place.
LEMMA ModelPlace ==
  ASSUME NEW kind \in ModelKinds, NEW m \in Models
  PROVE  WellPlaced(Place(kind, m.name, "-"))
BY DEF WellPlaced

\* So is each below a relation of the model.
LEMMA NestedPlace ==
  ASSUME NEW kind \in NestedKinds, NEW m \in Models, NEW back \in Backs(m)
  PROVE  WellPlaced(Place(kind, m.name, back))
BY DEF WellPlaced

\* It is not a place below nothing.
LEMMA RealBack ==
  ASSUME KeysApart, NEW m \in Models, NEW back \in Backs(m)
  PROVE  back # "-"
BY DEF KeysApart, Backs, Names, Relations

\* The types of a model that are meant for the places of writes and filters.
LEMMA WriteNames ==
  ASSUME NEW c \in Configs, NEW m \in Models, NEW l \in Nat
  PROVE  /\ Placed(c, m.name ++ "CreateInput", Place("create", m.name, "-"), l)
         /\ Placed(c, m.name ++ "CreateWithoutRelationsInput", Place("createMany", m.name, "-"), l)
         /\ Placed(c, m.name ++ "UpdateInput", Place("update", m.name, "-"), l)
         /\ Placed(c, m.name ++ "UpdateManyMutationInput", Place("updateAll", m.name, "-"), l)
         /\ Placed(c, m.name ++ "UpsertInput", Place("upsert", m.name, "-"), l)
         /\ Placed(c, m.name ++ "WhereUniqueInput", Place("unique", m.name, "-"), l)
         /\ Placed(c, m.name ++ "OrderByInput", Place("orderBy", m.name, "-"), l)
         /\ Placed(c, m.name ++ "RelationFilter", Place("is", m.name, "-"), l)
         /\ Placed(c, m.name ++ "ListRelationFilter", Place("some", m.name, "-"), l)
         /\ \A n \in Copies(c) : Placed(c, Copy(m.name ++ "WhereInput", n), Place("where", m.name, "-"), l)
<1>1. \A kind \in ModelKinds : WellPlaced(Place(kind, m.name, "-"))
  BY ModelPlace
<1> QED BY <1>1 DEF Placed, IsMeant, Place, ModelKinds

\* The same, for a value under a key.
LEMMA WriteEnters ==
  ASSUME NEW c \in Configs, NEW m \in Models, NEW l \in Nat
  PROVE  /\ Enters(c, m.name ++ "CreateInput", Place("create", m.name, "-"), l)
         /\ Enters(c, m.name ++ "CreateWithoutRelationsInput", Place("createMany", m.name, "-"), l)
         /\ Enters(c, m.name ++ "UpdateInput", Place("update", m.name, "-"), l)
         /\ Enters(c, m.name ++ "UpdateManyMutationInput", Place("updateAll", m.name, "-"), l)
         /\ Enters(c, m.name ++ "UpsertInput", Place("upsert", m.name, "-"), l)
         /\ Enters(c, m.name ++ "WhereUniqueInput", Place("unique", m.name, "-"), l)
         /\ Enters(c, m.name ++ "OrderByInput", Place("orderBy", m.name, "-"), l)
         /\ Enters(c, m.name ++ "RelationFilter", Place("is", m.name, "-"), l)
         /\ Enters(c, m.name ++ "ListRelationFilter", Place("some", m.name, "-"), l)
         /\ \A n \in Copies(c) : Enters(c, Copy(m.name ++ "WhereInput", n), Place("where", m.name, "-"), l)
<1>1. \A kind \in ModelKinds : kind # "include" => Deeper(Place(kind, m.name, "-"), l) = l
  BY LevelOf
<1> QED BY <1>1, WriteNames DEF Enters, ModelKinds

\* The types that are meant for writes below a relation of a model.
LEMMA NestedEnters ==
  ASSUME KeysApart, NEW c \in Configs, NEW m \in Models, NEW back \in Backs(m), NEW l \in Nat
  PROVE  /\ Enters(c, m.name ++ "CreateWithoutRelationsInput", Place("create", m.name, back), l)
         /\ Enters(c, m.name ++ "CreateNestedWithoutRelationsInput", Place("createNested", m.name, back), l)
         /\ Enters(c, m.name ++ "CreateManyNestedWithoutRelationsInput", Place("createNested", m.name, back), l)
         /\ Enters(c, m.name ++ "ConnectOrCreateWithoutRelationsInput", Place("connectOrCreate", m.name, back), l)
         /\ Enters(c, m.name ++ "UpdateManyWithoutRelationsInput", Place("updateMany", m.name, back), l)
         /\ Enters(c, m.name ++ "UpdateOneWithoutRelationsInput", Place("updateOne", m.name, back), l)
         /\ Enters(c, m.name ++ "UpdateOneWithoutRelationsInput", Place("updateRequired", m.name, back), l)
<1>1. \A kind \in NestedKinds : WellPlaced(Place(kind, m.name, back)) /\ Deeper(Place(kind, m.name, back), l) = l
  BY NestedPlace, LevelOf
<1> QED BY <1>1, RealBack DEF Enters, Placed, IsMeant, Place, NestedKinds

\* The types that are meant for includes and for the arguments of relations.
LEMMA IncludeNames ==
  ASSUME NEW c \in Configs, NEW m \in Models, NEW r \in Models, NEW l \in Nat
  PROVE  /\ Placed(c, m.name ++ "Include", Place("include", m.name, "-"), 1)
         /\ Placed(c, "FindMany" ++ m.name ++ "Args", Place("findArgs", m.name, "-"), 1)
         /\ Placed(c, "FindFirst" ++ m.name ++ "Args", Place("findArgs", m.name, "-"), 1)
         /\ \A n \in Nat : IncludeAtLevel(c, n, l) => Placed(c, Copy(r.name ++ "IncludeFrom" ++ m.name, n), Place("include", r.name, "-"), l)
         /\ \A n \in Nat : AtLevel(c, n, l) => Placed(c, Copy(r.name ++ "ArgsFrom" ++ m.name, n), Place("args", r.name, "-"), l)
         /\ \A n \in Nat : AtLevel(c, n, l) => Placed(c, Copy("FindMany" ++ r.name ++ "ArgsFrom" ++ m.name, n), Place("findArgs", r.name, "-"), l)
<1>1. \A kind \in {"include", "findArgs", "args"} : WellPlaced(Place(kind, m.name, "-")) /\ WellPlaced(Place(kind, r.name, "-"))
  BY ModelPlace DEF ModelKinds
<1>2. \A n \in Nat : /\ IncludeAtLevel(c, n, l) => n \in Copies(c)
                     /\ AtLevel(c, n, l) => n \in Copies(c)
  BY DEF IncludeAtLevel, AtLevel
<1>3. /\ Placed(c, m.name ++ "Include", Place("include", m.name, "-"), 1)
      /\ Placed(c, "FindMany" ++ m.name ++ "Args", Place("findArgs", m.name, "-"), 1)
      /\ Placed(c, "FindFirst" ++ m.name ++ "Args", Place("findArgs", m.name, "-"), 1)
  BY <1>1 DEF Placed, IsMeant, Place
<1>4. ASSUME NEW n \in Nat, IncludeAtLevel(c, n, l)
      PROVE  Placed(c, Copy(r.name ++ "IncludeFrom" ++ m.name, n), Place("include", r.name, "-"), l)
  <2>1. \E x \in Models, y \in Copies(c) :
          IncludeAtLevel(c, y, l) /\ Copy(r.name ++ "IncludeFrom" ++ m.name, n) = Copy(r.name ++ "IncludeFrom" ++ x.name, y)
    BY <1>2, <1>4
  <2> QED BY <1>1, <2>1 DEF Placed, IsMeant, Place
<1>5. ASSUME NEW n \in Nat, AtLevel(c, n, l)
      PROVE  /\ Placed(c, Copy(r.name ++ "ArgsFrom" ++ m.name, n), Place("args", r.name, "-"), l)
             /\ Placed(c, Copy("FindMany" ++ r.name ++ "ArgsFrom" ++ m.name, n), Place("findArgs", r.name, "-"), l)
  <2>1. /\ \E x \in Models, y \in Copies(c) :
             AtLevel(c, y, l) /\ Copy(r.name ++ "ArgsFrom" ++ m.name, n) = Copy(r.name ++ "ArgsFrom" ++ x.name, y)
        /\ \E x \in Models, y \in Copies(c) :
             AtLevel(c, y, l) /\ Copy("FindMany" ++ r.name ++ "ArgsFrom" ++ m.name, n) = Copy("FindMany" ++ r.name ++ "ArgsFrom" ++ x.name, y)
    BY <1>2, <1>5
  <2> QED BY <1>1, <2>1 DEF Placed, IsMeant, Place
<1> QED BY <1>3, <1>4, <1>5

\* The types that are meant for what an aggregate selects.
LEMMA AggregateNames ==
  ASSUME NEW c \in Configs, NEW m \in Models, NEW l \in Nat
  PROVE  /\ Placed(c, m.name ++ "CountAggregateInput", Place("count", m.name, "-"), l)
         /\ Placed(c, m.name ++ "AvgAggregateInput", Place("numbers", m.name, "-"), l)
         /\ Placed(c, m.name ++ "SumAggregateInput", Place("numbers", m.name, "-"), l)
         /\ Placed(c, m.name ++ "MinAggregateInput", Place("fields", m.name, "-"), l)
         /\ Placed(c, m.name ++ "MaxAggregateInput", Place("fields", m.name, "-"), l)
<1>1. \A kind \in {"count", "numbers", "fields"} : WellPlaced(Place(kind, m.name, "-"))
  BY ModelPlace DEF ModelKinds
<1> QED BY <1>1 DEF Placed, IsMeant, Place

\* The types that are meant for the scalars of a field.
LEMMA ScalarNames ==
  ASSUME NEW c \in Configs, NEW type \in FilterTypes \cup Enums, NEW l \in Nat
  PROVE  /\ Placed(c, type ++ "ListFilter", Place("list", "-", type), l)
         /\ Placed(c, type ++ "ListUpdate", Place("listUpdate", "-", type), l)
         /\ type \in Numbers => Placed(c, "Atomic" ++ type ++ "Input", Place("atomic", "-", type), l)
         /\ \A name : type \in FilterTypes /\ name \in (IF type = "BigInt" THEN IntFilters(c) ELSE FilterNames(c, type))
                        => \A kind \in {"filter", "nestedFilter"} : Placed(c, name, Place(kind, "-", type), l)
<1>1. \A kind \in {"list", "listUpdate"} : WellPlaced(Place(kind, "-", type))
  BY DEF WellPlaced
<1>2. type \in FilterTypes => \A kind \in {"filter", "nestedFilter"} : WellPlaced(Place(kind, "-", type))
  BY DEF WellPlaced
<1>3. type \in Numbers => WellPlaced(Place("atomic", "-", type))
  BY DEF WellPlaced
<1> QED BY <1>1, <1>2, <1>3 DEF Placed, IsMeant, Place

\* The types that are meant for compound keys, for relevance and for groups.
LEMMA OtherNames ==
  ASSUME NEW c \in Configs, NEW m \in Models, NEW l \in Nat
  PROVE  /\ \A k \in m.keys : Placed(c, "_" ++ m.name ++ "Compound" ++ k.name ++ "KeyInner", Place("compound", m.name, k.name), l)
         /\ c.provider \in {"postgresql", "mysql"} => Placed(c, "_" ++ m.name ++ "_RelevanceInner", Place("relevance", "-", "-"), l)
         /\ \A name \in GroupNames(c) : Placed(c, name, Anything, l)
<1>1. /\ \A k \in m.keys : WellPlaced(Place("compound", m.name, k.name))
      /\ WellPlaced(Place("relevance", "-", "-")) /\ WellPlaced(Anything)
  BY DEF WellPlaced
<1>2. ASSUME NEW k \in m.keys
      PROVE  Placed(c, "_" ++ m.name ++ "Compound" ++ k.name ++ "KeyInner", Place("compound", m.name, k.name), l)
  BY <1>1 DEF Placed, IsMeant, Place
<1>3. c.provider \in {"postgresql", "mysql"} => Placed(c, "_" ++ m.name ++ "_RelevanceInner", Place("relevance", "-", "-"), l)
  BY <1>1 DEF Placed, IsMeant, Place
<1>4. \A name \in GroupNames(c) : Placed(c, name, Anything, l)
  BY <1>1 DEF Placed, IsMeant, Place, Anything
<1> QED BY <1>2, <1>3, <1>4

\* The types of scalars, for a value under a key.
LEMMA ScalarEnters ==
  ASSUME NEW c \in Configs, NEW type \in FilterTypes \cup Enums, NEW l \in Nat
  PROVE  /\ Enters(c, type ++ "ListFilter", Place("list", "-", type), l)
         /\ Enters(c, type ++ "ListUpdate", Place("listUpdate", "-", type), l)
         /\ type \in Numbers => Enters(c, "Atomic" ++ type ++ "Input", Place("atomic", "-", type), l)
         /\ \A name : type \in FilterTypes /\ name \in (IF type = "BigInt" THEN IntFilters(c) ELSE FilterNames(c, type))
                        => \A kind \in {"filter", "nestedFilter"} : Enters(c, name, Place(kind, "-", type), l)
<1>1. \A kind \in {"list", "listUpdate", "filter", "nestedFilter", "atomic"} : Deeper(Place(kind, "-", type), l) = l
  BY DEF Deeper, Place
<1> QED BY <1>1, ScalarNames DEF Enters

\* The types of compound keys and of relevance, for a value under a key.
LEMMA OtherEnters ==
  ASSUME NEW c \in Configs, NEW m \in Models, NEW l \in Nat
  PROVE  /\ \A k \in m.keys : Enters(c, "_" ++ m.name ++ "Compound" ++ k.name ++ "KeyInner", Place("compound", m.name, k.name), l)
         /\ c.provider \in {"postgresql", "mysql"} => Enters(c, "_" ++ m.name ++ "_RelevanceInner", Place("relevance", "-", "-"), l)
<1>1. \A k \in m.keys : Deeper(Place("compound", m.name, k.name), l) = l
  BY DEF Deeper, Place
<1>2. Deeper(Place("relevance", "-", "-"), l) = l
  BY DEF Deeper, Place
<1>3. ASSUME NEW k \in m.keys
      PROVE  Enters(c, "_" ++ m.name ++ "Compound" ++ k.name ++ "KeyInner", Place("compound", m.name, k.name), l)
  BY <1>1, OtherNames DEF Enters
<1>4. c.provider \in {"postgresql", "mysql"} => Enters(c, "_" ++ m.name ++ "_RelevanceInner", Place("relevance", "-", "-"), l)
  BY <1>2, OtherNames DEF Enters
<1> QED BY <1>3, <1>4

\* The type of a relation is a model, that of another field a scalar or an enum.
LEMMA RelatedModel ==
  ASSUME NEW m \in Models, NEW f \in m.fields
  PROVE  IF f.relation THEN \E r \in Models : r.name = f.type ELSE f.type \in FilterTypes \cup Enums
<1>1. f.type \in IF f.relation THEN Names(Models) ELSE FilterTypes \cup Enums
  BY SchemaAssumption
<1>2. CASE f.relation
  BY <1>1, <1>2 DEF Names
<1>3. CASE ~f.relation
  BY <1>1, <1>3
<1> QED BY <1>2, <1>3

\* The model at the other side of a relation has the field back.
LEMMA RelatedSide ==
  ASSUME NEW m \in Models, NEW f \in m.fields, f.relation
  PROVE  \E r \in Models : r.name = f.type /\ f.back \in Backs(r)
<1>1. PICK r \in Models : r.name = f.type
  BY RelatedModel
<1>2. ModelOf(f.type) = r
  BY <1>1, OfModel
<1>3. PICK g \in Relations(r) : g.name = f.back
  BY <1>2, SchemaAssumption
<1> QED BY <1>1, <1>3 DEF Backs, Names

\* What a field has in the inputs of a create is meant for its place.
LEMMA CreateEnters ==
  ASSUME KeysApart, NEW c \in Configs, NEW m \in Models, NEW f \in m.fields, NEW l \in Nat, NEW to \in CreateInputType(f)
  PROVE  Enters(c, to, CreatePlace(f), l)
<1>1. f.relation
  BY DEF CreateInputType
<1>2. PICK r \in Models : r.name = f.type /\ f.back \in Backs(r)
  BY <1>1, RelatedSide
<1>3. to \in {r.name ++ "CreateNestedWithoutRelationsInput", r.name ++ "CreateManyNestedWithoutRelationsInput"}
  BY <1>1, <1>2 DEF CreateInputType
<1>4. CreatePlace(f) = Place("createNested", r.name, f.back)
  BY <1>1, <1>2 DEF CreatePlace
<1> QED BY <1>3, <1>2, <1>4, NestedEnters

\* What a field has in the inputs of an update is meant for its place.
LEMMA UpdateEnters ==
  ASSUME KeysApart, NEW c \in Configs, NEW m \in Models, NEW f \in m.fields, NEW l \in Nat, NEW to \in UpdateInputType(f)
  PROVE  Enters(c, to, UpdatePlace(f), l)
<1>1. CASE f.relation
  <2>1. PICK r \in Models : r.name = f.type /\ f.back \in Backs(r)
    BY <1>1, RelatedSide
  <2>2. CASE f.list
    <3>1. to = r.name ++ "UpdateManyWithoutRelationsInput"
      BY <1>1, <2>1, <2>2 DEF UpdateInputType
    <3>2. UpdatePlace(f) = Place("updateMany", r.name, f.back)
      BY <1>1, <2>1, <2>2 DEF UpdatePlace
    <3> QED BY <2>1, <3>1, <3>2, NestedEnters
  <2>3. CASE ~f.list
    <3>1. to = r.name ++ "UpdateOneWithoutRelationsInput"
      BY <1>1, <2>1, <2>3 DEF UpdateInputType
    <3>2. UpdatePlace(f) \in {Place("updateOne", r.name, f.back), Place("updateRequired", r.name, f.back)}
      BY <1>1, <2>1, <2>3 DEF UpdatePlace
    <3> QED BY <2>1, <3>1, <3>2, NestedEnters
  <2> QED BY <2>2, <2>3
<1>2. CASE ~f.relation
  <2>1. f.type \in FilterTypes \cup Enums
    BY <1>2, RelatedModel
  <2>2. CASE f.list
    <3>1. to = f.type ++ "ListUpdate" /\ UpdatePlace(f) = Place("listUpdate", "-", f.type)
      BY <1>2, <2>2 DEF UpdateInputType, UpdatePlace
    <3> QED BY <2>1, <3>1, ScalarEnters
  <2>3. CASE ~f.list
    <3>1. f.type \in Numbers
      BY <1>2, <2>3 DEF UpdateInputType
    <3>2. to = "Atomic" ++ f.type ++ "Input" /\ UpdatePlace(f) = Place("atomic", "-", f.type)
      BY <1>2, <2>3, <3>1 DEF UpdateInputType, UpdatePlace
    <3> QED BY <2>1, <3>1, <3>2, ScalarEnters
  <2> QED BY <2>2, <2>3
<1> QED BY <1>1, <1>2

\* What a field has in a filter is meant for its place.
LEMMA WhereEnters ==
  ASSUME NEW c \in Configs, NEW m \in Models, NEW f \in m.fields, NEW l \in Nat, NEW to \in WhereInputType(f)
  PROVE  Enters(c, to, WherePlace(f), l)
<1>1. CASE f.relation
  <2>1. PICK r \in Models : r.name = f.type
    BY <1>1, RelatedModel
  <2>2. CASE f.list
    <3>1. to = r.name ++ "ListRelationFilter"
      BY <1>1, <2>1, <2>2 DEF WhereInputType
    <3>2. WherePlace(f) = Place("some", r.name, "-")
      BY <1>1, <2>1, <2>2 DEF WherePlace
    <3> QED BY <3>1, <3>2, WriteEnters
  <2>3. CASE ~f.list
    <3>1. to = r.name ++ "RelationFilter"
      BY <1>1, <2>1, <2>3 DEF WhereInputType
    <3>2. WherePlace(f) = Place("is", r.name, "-")
      BY <1>1, <2>1, <2>3 DEF WherePlace
    <3> QED BY <3>1, <3>2, WriteEnters
  <2> QED BY <2>2, <2>3
<1>2. CASE ~f.relation
  <2>1. f.type \in FilterTypes \cup Enums
    BY <1>2, RelatedModel
  <2>2. CASE f.list
    <3>1. to = f.type ++ "ListFilter" /\ WherePlace(f) = Place("list", "-", f.type)
      BY <1>2, <2>2 DEF WhereInputType, WherePlace
    <3> QED BY <2>1, <3>1, ScalarEnters
  <2>3. CASE ~f.list
    <3>1. f.type \in FilterTypes
      BY <1>2, <2>3 DEF WhereInputType
    <3>2. to = f.type ++ "Filter" /\ WherePlace(f) = Place("filter", "-", f.type)
      BY <1>2, <2>3, <3>1 DEF WhereInputType, WherePlace
    <3>3. to \in IF f.type = "BigInt" THEN IntFilters(c) ELSE FilterNames(c, f.type)
      <4>1. CASE f.type = "BigInt"
        BY <4>1, <3>2 DEF IntFilters
      <4>2. CASE f.type # "BigInt"
        <5>1. 0 \in FilterCopies(c, f.type) /\ Copy(f.type ++ "Filter", 0) = f.type ++ "Filter"
          BY FirstCopy DEF FilterCopies
        <5> QED BY <5>1, <4>2, <3>2 DEF FilterNames
      <4> QED BY <4>1, <4>2
    <3> QED BY <2>1, <3>1, <3>2, <3>3, ScalarEnters
  <2> QED BY <2>2, <2>3
<1> QED BY <1>1, <1>2

-----------------------------------------------------------------------------
(* Rows and slots.                                                         *)

\* A key is taken at a place, for this one only.
OnlySlot(c, p, key, place) ==
  Slot(key, place) \in Takes(c, p) /\ \A slot \in Takes(c, p) : slot.key = key => slot.place = place

\* A slot of Into has one of its keys and its place.
LEMMA SlotsOf ==
  ASSUME NEW keys, NEW place, NEW slot \in Into(keys, place)
  PROVE  slot.key \in keys /\ slot.place = place
BY DEF Into, Slot

\* Into has a slot for each of its keys.
LEMMA HasSlot ==
  ASSUME NEW keys, NEW place, NEW key \in keys
  PROVE  Slot(key, place) \in Into(keys, place)
BY DEF Into

\* A row of To has one of its keys and leads to its type.
LEMMA RowsTo ==
  ASSUME NEW keys, NEW name, NEW row \in To(keys, name)
  PROVE  row.key \in keys /\ row.to = {name}
BY DEF To, Row

\* A row of Leaves has one of its keys and leads nowhere.
LEMMA LeafRows ==
  ASSUME NEW keys, NEW row \in Leaves(keys)
  PROVE  row.key \in keys /\ row.to = {}
BY DEF Leaves, Row

\* A row follows when its key has one place, and what it leads to is meant for it.
LEMMA FollowsIts ==
  ASSUME NEW c, NEW p, NEW l \in Nat, NEW row, NEW place,
         OnlySlot(c, p, Alias(row.key), place), \A name \in row.to : Enters(c, name, place, l)
  PROVE  Follows(c, row, p, l)
<1>1. Slot(Alias(row.key), place).key = Alias(row.key)
  BY DEF Slot
<1> HIDE DEF Slot
<1> QED BY <1>1 DEF Follows, OnlySlot

\* A row that leads nowhere follows when its key is taken.
LEMMA FollowsKnown ==
  ASSUME NEW c, NEW p, NEW l \in Nat, NEW row, row.to = {}, \E slot \in Takes(c, p) : slot.key = Alias(row.key)
  PROVE  Follows(c, row, p, l)
BY DEF Follows

\* Rows that lead to one type follow when that type is meant for their place.
LEMMA ToFollows ==
  ASSUME NEW c, NEW p, NEW l \in Nat, NEW keys, NEW name, NEW place, NEW row \in To(keys, name),
         \A key \in keys : OnlySlot(c, p, Alias(key), place), Enters(c, name, place, l)
  PROVE  Follows(c, row, p, l)
<1>1. row.key \in keys /\ row.to = {name}
  BY RowsTo
<1> QED BY <1>1, FollowsIts

\* Rows that lead nowhere follow when their keys are taken.
LEMMA LeavesFollow ==
  ASSUME NEW c, NEW p, NEW l \in Nat, NEW keys, NEW row \in Leaves(keys),
         \A key \in keys : \E slot \in Takes(c, p) : slot.key = Alias(key)
  PROVE  Follows(c, row, p, l)
BY LeafRows, FollowsKnown

\* So do rows that are offered although their keys are not taken.
LEMMA LeavesOffered ==
  ASSUME NEW c, NEW p, NEW l \in Nat, NEW keys, NEW row \in Leaves(keys),
         \A key \in keys : (\E slot \in Takes(c, p) : slot.key = Alias(key)) \/ Alias(key) \in Overoffered(p)
  PROVE  Follows(c, row, p, l)
BY LeafRows DEF Follows

-----------------------------------------------------------------------------
(* From one place to the next: inputs of writes.                           *)

\* The inputs of a create have a row for each field that is written.
LEMMA CreateDefined ==
  ASSUME NamesApart, NEW c \in Configs, NEW m \in Models
  PROVE  /\ Defines(c, m.name ++ "CreateInput", {Row(f.name, CreateInputType(f)) : f \in Written(c, m.fields)})
         /\ Defines(c, m.name ++ "CreateWithoutRelationsInput", {Row(f.name, CreateInputType(f)) : f \in Scalars(m)})
<1>1. ASSUME NEW fields, NEW name, NEW infix
      PROVE  Type(name ++ infix, {Row(f.name, CreateInputType(f)) : f \in fields}) \in CreateInput(c, name, infix, fields)
  <2> DEFINE rows(written) == {Row(f.name, CreateInputType(f)) : f \in written}
  <2> DEFINE required == {f \in fields : RequiredOnCreate(f) /\ ~f.readOnly}
  <2>1. rows(fields) = rows(fields \ required) \cup rows(required)
    OBVIOUS
  <2> QED BY <2>1 DEF CreateInput
<1>2. Type(m.name ++ "CreateInput", {Row(f.name, CreateInputType(f)) : f \in Written(c, m.fields)}) \in ModelTypes(c, m)
  BY <1>1 DEF ModelTypes, CreateTypes
<1>3. Type(m.name ++ "CreateWithoutRelationsInput", {Row(f.name, CreateInputType(f)) : f \in Scalars(m)}) \in ModelTypes(c, m)
  BY <1>1 DEF ModelTypes, CreateTypes
<1> QED BY <1>2, <1>3, ModelDefined DEF Type

\* The rows of the nested creates.
LEMMA NestedDefined ==
  ASSUME NamesApart, NEW c \in Configs, NEW m \in Models
  PROVE  /\ \A name \in {m.name ++ "CreateNestedWithoutRelationsInput", m.name ++ "CreateManyNestedWithoutRelationsInput"} :
              Defines(c, name, To({"create"}, m.name ++ "CreateWithoutRelationsInput")
                               \cup To({"connect"}, m.name ++ "WhereUniqueInput")
                               \cup To({"connect_or_create"}, m.name ++ "ConnectOrCreateWithoutRelationsInput"))
         /\ Defines(c, m.name ++ "ConnectOrCreateWithoutRelationsInput",
                    To({"create"}, m.name ++ "CreateWithoutRelationsInput") \cup To({"where"}, m.name ++ "WhereUniqueInput"))
<1> DEFINE nested == To({"create"}, m.name ++ "CreateWithoutRelationsInput")
                     \cup To({"connect"}, m.name ++ "WhereUniqueInput")
                     \cup To({"connect_or_create"}, m.name ++ "ConnectOrCreateWithoutRelationsInput")
<1> DEFINE either == To({"create"}, m.name ++ "CreateWithoutRelationsInput") \cup To({"where"}, m.name ++ "WhereUniqueInput")
<1>1. {Type(m.name ++ "CreateNestedWithoutRelationsInput", nested), Type(m.name ++ "CreateManyNestedWithoutRelationsInput", nested),
       Type(m.name ++ "ConnectOrCreateWithoutRelationsInput", either)} \subseteq ModelTypes(c, m)
  BY DEF ModelTypes, CreateTypes
<1> HIDE DEF nested, either
<1>2. /\ Defines(c, m.name ++ "CreateNestedWithoutRelationsInput", nested)
      /\ Defines(c, m.name ++ "CreateManyNestedWithoutRelationsInput", nested)
      /\ Defines(c, m.name ++ "ConnectOrCreateWithoutRelationsInput", either)
  BY <1>1, ModelDefined DEF Type
<1> QED BY <1>2 DEF nested, either

\* The nested creates offer what the engine takes there.
LEMMA FromCreateNested ==
  ASSUME NamesApart, KeysApart, NEW c \in Configs, NEW m \in Models, NEW back \in Backs(m), NEW l \in Nat, NEW name,
         IsMeant(c, name, Place("createNested", m.name, back), l)
  PROVE  Right(c, name, Place("createNested", m.name, back), l)
<1> DEFINE p == Place("createNested", m.name, back)
<1>1. p.kind = "createNested" /\ p.of = m.name /\ p.key = back
  BY DEF Place
<1>2. Takes(c, p) = Nested(m.name, back)
  <2> HIDE DEF p
  <2>1. Takes(c, p) = Nested(p.of, p.key)
    BY <1>1, Zenon DEF Takes
  <2> QED BY <1>1, <2>1
<1>3. /\ OnlySlot(c, p, "create", Place("create", m.name, back))
      /\ OnlySlot(c, p, "connect", Place("unique", m.name, "-"))
      /\ OnlySlot(c, p, "connectOrCreate", Place("connectOrCreate", m.name, back))
  <2>1. \A slot \in Takes(c, p) : \/ slot.key = "create" /\ slot.place = Place("create", m.name, back)
                                  \/ slot.key = "connect" /\ slot.place = Place("unique", m.name, "-")
                                  \/ slot.key = "connectOrCreate" /\ slot.place = Place("connectOrCreate", m.name, back)
    BY <1>2, SlotsOf DEF Nested
  <2>2. {Slot("create", Place("create", m.name, back)),
         Slot("connect", Place("unique", m.name, "-")),
         Slot("connectOrCreate", Place("connectOrCreate", m.name, back))} \subseteq Takes(c, p)
    BY <1>2, HasSlot DEF Nested
  <2> QED BY <2>1, <2>2 DEF OnlySlot
<1> HIDE DEF p
<1> DEFINE rows == To({"create"}, m.name ++ "CreateWithoutRelationsInput")
                    \cup To({"connect"}, m.name ++ "WhereUniqueInput")
                    \cup To({"connect_or_create"}, m.name ++ "ConnectOrCreateWithoutRelationsInput")
<1>4. Defines(c, name, rows)
  BY NestedDefined DEF IsMeant, Place, p
<1>5. \A row \in To({"create"}, m.name ++ "CreateWithoutRelationsInput") : Follows(c, row, p, l)
  BY <1>3, ToFollows, Renamed, WriteEnters, NestedEnters
<1>6. \A row \in To({"connect"}, m.name ++ "WhereUniqueInput") : Follows(c, row, p, l)
  BY <1>3, ToFollows, Renamed, WriteEnters, NestedEnters
<1>7. \A row \in To({"connect_or_create"}, m.name ++ "ConnectOrCreateWithoutRelationsInput") : Follows(c, row, p, l)
  BY <1>3, ToFollows, Renamed, WriteEnters, NestedEnters
<1>8. \A row \in rows : Follows(c, row, p, l)
  BY <1>5, <1>6, <1>7
<1> HIDE DEF rows
<1> QED BY <1>4, <1>8 DEF Right, p

\* So does connect_or_create.
LEMMA FromConnectOrCreate ==
  ASSUME NamesApart, KeysApart, NEW c \in Configs, NEW m \in Models, NEW back \in Backs(m), NEW l \in Nat, NEW name,
         IsMeant(c, name, Place("connectOrCreate", m.name, back), l)
  PROVE  Right(c, name, Place("connectOrCreate", m.name, back), l)
<1> DEFINE p == Place("connectOrCreate", m.name, back)
<1>1. p.kind = "connectOrCreate" /\ p.of = m.name /\ p.key = back
  BY DEF Place
<1>2. Takes(c, p) = Into({"create"}, Place("create", m.name, back)) \cup Into({"where"}, Place("unique", m.name, "-"))
  <2> HIDE DEF p
  <2>1. Takes(c, p) = Into({"create"}, Place("create", p.of, p.key)) \cup Into({"where"}, Place("unique", p.of, "-"))
    BY <1>1, Zenon DEF Takes
  <2> QED BY <1>1, <2>1
<1>3. /\ OnlySlot(c, p, "create", Place("create", m.name, back))
      /\ OnlySlot(c, p, "where", Place("unique", m.name, "-"))
  <2>1. \A slot \in Takes(c, p) : \/ slot.key = "create" /\ slot.place = Place("create", m.name, back)
                                  \/ slot.key = "where" /\ slot.place = Place("unique", m.name, "-")
    BY <1>2, SlotsOf
  <2>2. {Slot("create", Place("create", m.name, back)),
         Slot("where", Place("unique", m.name, "-"))} \subseteq Takes(c, p)
    BY <1>2, HasSlot
  <2> QED BY <2>1, <2>2 DEF OnlySlot
<1> HIDE DEF p
<1> DEFINE rows == To({"create"}, m.name ++ "CreateWithoutRelationsInput")
                    \cup To({"where"}, m.name ++ "WhereUniqueInput")
<1>4. Defines(c, name, rows)
  BY NestedDefined DEF IsMeant, Place, p
<1>5. \A row \in To({"create"}, m.name ++ "CreateWithoutRelationsInput") : Follows(c, row, p, l)
  BY <1>3, ToFollows, Renamed, WriteEnters, NestedEnters
<1>6. \A row \in To({"where"}, m.name ++ "WhereUniqueInput") : Follows(c, row, p, l)
  BY <1>3, ToFollows, Renamed, WriteEnters, NestedEnters
<1>7. \A row \in rows : Follows(c, row, p, l)
  BY <1>5, <1>6
<1> HIDE DEF rows
<1> QED BY <1>4, <1>7 DEF Right, p

\* The rows of the inputs of an update.
LEMMA UpdateDefined ==
  ASSUME NamesApart, NEW c \in Configs, NEW m \in Models
  PROVE  /\ Defines(c, m.name ++ "UpdateInput",
                    {Row(f.name, UpdateInputType(f)) : f \in {x \in Written(c, m.fields) : ~x.readOnly}})
         /\ Defines(c, m.name ++ "UpdateManyMutationInput",
                    {Row(f.name, UpdateInputType(f)) : f \in {x \in Scalars(m) : ~x.readOnly}})
         /\ Defines(c, m.name ++ "UpdateManyWithoutRelationsInput",
                    To({"create"}, m.name ++ "CreateWithoutRelationsInput")
                    \cup To({"connect_or_create"}, m.name ++ "ConnectOrCreateWithoutRelationsInput")
                    \cup To({"connect", "set", "disconnect", "delete"}, m.name ++ "WhereUniqueInput"))
         /\ Defines(c, m.name ++ "UpdateOneWithoutRelationsInput",
                    To({"create"}, m.name ++ "CreateWithoutRelationsInput")
                    \cup To({"connect_or_create"}, m.name ++ "ConnectOrCreateWithoutRelationsInput")
                    \cup To({"connect"}, m.name ++ "WhereUniqueInput") \cup Leaves({"disconnect", "delete"}))
         /\ Defines(c, m.name ++ "UpsertInput", To({"create"}, m.name ++ "CreateInput") \cup To({"update"}, m.name ++ "UpdateInput"))
<1>1. ASSUME NEW t \in UpdateTypes(c, m)
      PROVE  Defines(c, t.name, t.rows)
  BY ModelDefined DEF ModelTypes
<1>2. ASSUME NEW name, NEW rows, Type(name, rows) \in UpdateTypes(c, m)
      PROVE  Defines(c, name, rows)
  BY <1>1, <1>2 DEF Type
<1>3. Type(m.name ++ "UpdateInput",
           {Row(f.name, UpdateInputType(f)) : f \in {x \in Written(c, m.fields) : ~x.readOnly}}) \in UpdateTypes(c, m)
  BY DEF UpdateTypes
<1>4. Type(m.name ++ "UpdateManyMutationInput",
           {Row(f.name, UpdateInputType(f)) : f \in {x \in Scalars(m) : ~x.readOnly}}) \in UpdateTypes(c, m)
  BY DEF UpdateTypes
<1>5. Type(m.name ++ "UpdateManyWithoutRelationsInput",
           To({"create"}, m.name ++ "CreateWithoutRelationsInput")
           \cup To({"connect_or_create"}, m.name ++ "ConnectOrCreateWithoutRelationsInput")
           \cup To({"connect", "set", "disconnect", "delete"}, m.name ++ "WhereUniqueInput")) \in UpdateTypes(c, m)
  BY DEF UpdateTypes
<1>6. Type(m.name ++ "UpdateOneWithoutRelationsInput",
           To({"create"}, m.name ++ "CreateWithoutRelationsInput")
           \cup To({"connect_or_create"}, m.name ++ "ConnectOrCreateWithoutRelationsInput")
           \cup To({"connect"}, m.name ++ "WhereUniqueInput") \cup Leaves({"disconnect", "delete"})) \in UpdateTypes(c, m)
  BY DEF UpdateTypes
<1>7. Type(m.name ++ "UpsertInput", To({"create"}, m.name ++ "CreateInput") \cup To({"update"}, m.name ++ "UpdateInput")) \in UpdateTypes(c, m)
  BY DEF UpdateTypes
<1> QED BY <1>2, <1>3, <1>4, <1>5, <1>6, <1>7

\* The nested update of a list offers what the engine takes there.
LEMMA FromUpdateMany ==
  ASSUME NamesApart, KeysApart, NEW c \in Configs, NEW m \in Models, NEW back \in Backs(m), NEW l \in Nat, NEW name,
         IsMeant(c, name, Place("updateMany", m.name, back), l)
  PROVE  Right(c, name, Place("updateMany", m.name, back), l)
<1> DEFINE p == Place("updateMany", m.name, back)
<1>1. p.kind = "updateMany" /\ p.of = m.name /\ p.key = back
  BY DEF Place
<1>2. Takes(c, p) = Nested(m.name, back) \cup Into({"set", "disconnect", "delete"}, Place("unique", m.name, "-"))
  <2> HIDE DEF p
  <2>1. Takes(c, p) = Nested(p.of, p.key) \cup Into({"set", "disconnect", "delete"}, Place("unique", p.of, "-"))
    BY <1>1, Zenon DEF Takes
  <2> QED BY <1>1, <2>1
<1>3. /\ OnlySlot(c, p, "create", Place("create", m.name, back))
      /\ OnlySlot(c, p, "connect", Place("unique", m.name, "-"))
      /\ OnlySlot(c, p, "connectOrCreate", Place("connectOrCreate", m.name, back))
      /\ OnlySlot(c, p, "set", Place("unique", m.name, "-"))
      /\ OnlySlot(c, p, "disconnect", Place("unique", m.name, "-"))
      /\ OnlySlot(c, p, "delete", Place("unique", m.name, "-"))
  <2>1. \A slot \in Takes(c, p) : \/ slot.key = "create" /\ slot.place = Place("create", m.name, back)
                                  \/ slot.key = "connect" /\ slot.place = Place("unique", m.name, "-")
                                  \/ slot.key = "connectOrCreate" /\ slot.place = Place("connectOrCreate", m.name, back)
                                  \/ slot.key = "set" /\ slot.place = Place("unique", m.name, "-")
                                  \/ slot.key = "disconnect" /\ slot.place = Place("unique", m.name, "-")
                                  \/ slot.key = "delete" /\ slot.place = Place("unique", m.name, "-")
    BY <1>2, SlotsOf DEF Nested
  <2>2. {Slot("create", Place("create", m.name, back)),
         Slot("connect", Place("unique", m.name, "-")),
         Slot("connectOrCreate", Place("connectOrCreate", m.name, back)),
         Slot("set", Place("unique", m.name, "-")),
         Slot("disconnect", Place("unique", m.name, "-")),
         Slot("delete", Place("unique", m.name, "-"))} \subseteq Takes(c, p)
    BY <1>2, HasSlot DEF Nested
  <2> QED BY <2>1, <2>2 DEF OnlySlot
<1> HIDE DEF p
<1> DEFINE rows == To({"create"}, m.name ++ "CreateWithoutRelationsInput")
                    \cup To({"connect_or_create"}, m.name ++ "ConnectOrCreateWithoutRelationsInput")
                    \cup To({"connect", "set", "disconnect", "delete"}, m.name ++ "WhereUniqueInput")
<1>4. Defines(c, name, rows)
  BY UpdateDefined DEF IsMeant, Place, p
<1>5. \A row \in To({"create"}, m.name ++ "CreateWithoutRelationsInput") : Follows(c, row, p, l)
  BY <1>3, ToFollows, Renamed, WriteEnters, NestedEnters
<1>6. \A row \in To({"connect_or_create"}, m.name ++ "ConnectOrCreateWithoutRelationsInput") : Follows(c, row, p, l)
  BY <1>3, ToFollows, Renamed, WriteEnters, NestedEnters
<1>7. \A row \in To({"connect", "set", "disconnect", "delete"}, m.name ++ "WhereUniqueInput") : Follows(c, row, p, l)
  BY <1>3, ToFollows, Renamed, WriteEnters, NestedEnters
<1>8. \A row \in rows : Follows(c, row, p, l)
  BY <1>5, <1>6, <1>7
<1> HIDE DEF rows
<1> QED BY <1>4, <1>8 DEF Right, p

\* So does the nested update of one record.
LEMMA FromUpdateOne ==
  ASSUME NamesApart, KeysApart, NEW c \in Configs, NEW m \in Models, NEW back \in Backs(m), NEW l \in Nat, NEW name,
         IsMeant(c, name, Place("updateOne", m.name, back), l)
  PROVE  Right(c, name, Place("updateOne", m.name, back), l)
<1> DEFINE p == Place("updateOne", m.name, back)
<1>1. p.kind = "updateOne" /\ p.of = m.name /\ p.key = back
  BY DEF Place
<1>2. Takes(c, p) = Nested(m.name, back) \cup Known({"disconnect", "delete"})
  <2> HIDE DEF p
  <2>1. Takes(c, p) = Nested(p.of, p.key) \cup Known({"disconnect", "delete"})
    BY <1>1, Zenon DEF Takes
  <2> QED BY <1>1, <2>1
<1>3. /\ OnlySlot(c, p, "create", Place("create", m.name, back))
      /\ OnlySlot(c, p, "connect", Place("unique", m.name, "-"))
      /\ OnlySlot(c, p, "connectOrCreate", Place("connectOrCreate", m.name, back))
      /\ \A key \in {"disconnect", "delete"} : \E slot \in Takes(c, p) : slot.key = key
  <2>1. \A slot \in Takes(c, p) : \/ slot.key = "create" /\ slot.place = Place("create", m.name, back)
                                  \/ slot.key = "connect" /\ slot.place = Place("unique", m.name, "-")
                                  \/ slot.key = "connectOrCreate" /\ slot.place = Place("connectOrCreate", m.name, back)
                                  \/ slot.key \in {"disconnect", "delete"}
    BY <1>2, SlotsOf DEF Nested, Known
  <2>2. {Slot("create", Place("create", m.name, back)),
         Slot("connect", Place("unique", m.name, "-")),
         Slot("connectOrCreate", Place("connectOrCreate", m.name, back))} \subseteq Takes(c, p)
    BY <1>2, HasSlot DEF Nested, Known
  <2>3. \A key \in {"disconnect", "delete"} : Slot(key, Place("scalar", "-", "-")) \in Takes(c, p)
    BY <1>2, HasSlot DEF Known, Nested
  <2> QED BY <2>1, <2>2, <2>3 DEF OnlySlot, Slot
<1> HIDE DEF p
<1> DEFINE rows == To({"create"}, m.name ++ "CreateWithoutRelationsInput")
                    \cup To({"connect_or_create"}, m.name ++ "ConnectOrCreateWithoutRelationsInput")
                    \cup To({"connect"}, m.name ++ "WhereUniqueInput")
                    \cup Leaves({"disconnect", "delete"})
<1>4. Defines(c, name, rows)
  BY UpdateDefined DEF IsMeant, Place, p
<1>5. \A row \in To({"create"}, m.name ++ "CreateWithoutRelationsInput") : Follows(c, row, p, l)
  BY <1>3, ToFollows, Renamed, WriteEnters, NestedEnters
<1>6. \A row \in To({"connect_or_create"}, m.name ++ "ConnectOrCreateWithoutRelationsInput") : Follows(c, row, p, l)
  BY <1>3, ToFollows, Renamed, WriteEnters, NestedEnters
<1>7. \A row \in To({"connect"}, m.name ++ "WhereUniqueInput") : Follows(c, row, p, l)
  BY <1>3, ToFollows, Renamed, WriteEnters, NestedEnters
<1>8. \A row \in Leaves({"disconnect", "delete"}) : Follows(c, row, p, l)
  BY <1>3, LeavesFollow, Renamed
<1>9. \A row \in rows : Follows(c, row, p, l)
  BY <1>5, <1>6, <1>7, <1>8
<1> HIDE DEF rows
<1> QED BY <1>4, <1>9 DEF Right, p

\* So does that of a record that is required, but for taking it away.
LEMMA FromUpdateRequired ==
  ASSUME NamesApart, KeysApart, NEW c \in Configs, NEW m \in Models, NEW back \in Backs(m), NEW l \in Nat, NEW name,
         IsMeant(c, name, Place("updateRequired", m.name, back), l)
  PROVE  Right(c, name, Place("updateRequired", m.name, back), l)
<1> DEFINE p == Place("updateRequired", m.name, back)
<1>1. p.kind = "updateRequired" /\ p.of = m.name /\ p.key = back
  BY DEF Place
<1>2. Takes(c, p) = Nested(m.name, back)
  <2> HIDE DEF p
  <2>1. Takes(c, p) = Nested(p.of, p.key)
    BY <1>1, Zenon DEF Takes
  <2> QED BY <1>1, <2>1
<1>3. /\ OnlySlot(c, p, "create", Place("create", m.name, back))
      /\ OnlySlot(c, p, "connect", Place("unique", m.name, "-"))
      /\ OnlySlot(c, p, "connectOrCreate", Place("connectOrCreate", m.name, back))
  <2>1. \A slot \in Takes(c, p) : \/ slot.key = "create" /\ slot.place = Place("create", m.name, back)
                                  \/ slot.key = "connect" /\ slot.place = Place("unique", m.name, "-")
                                  \/ slot.key = "connectOrCreate" /\ slot.place = Place("connectOrCreate", m.name, back)
    BY <1>2, SlotsOf DEF Nested
  <2>2. {Slot("create", Place("create", m.name, back)),
         Slot("connect", Place("unique", m.name, "-")),
         Slot("connectOrCreate", Place("connectOrCreate", m.name, back))} \subseteq Takes(c, p)
    BY <1>2, HasSlot DEF Nested
  <2> QED BY <2>1, <2>2 DEF OnlySlot
<1> HIDE DEF p
<1>0. Overoffered(p) = {"disconnect", "delete"}
  BY <1>1, Zenon DEF Overoffered
<1> DEFINE rows == To({"create"}, m.name ++ "CreateWithoutRelationsInput")
                    \cup To({"connect_or_create"}, m.name ++ "ConnectOrCreateWithoutRelationsInput")
                    \cup To({"connect"}, m.name ++ "WhereUniqueInput")
                    \cup Leaves({"disconnect", "delete"})
<1>4. Defines(c, name, rows)
  BY UpdateDefined DEF IsMeant, Place, p
<1>5. \A row \in To({"create"}, m.name ++ "CreateWithoutRelationsInput") : Follows(c, row, p, l)
  BY <1>3, ToFollows, Renamed, WriteEnters, NestedEnters
<1>6. \A row \in To({"connect_or_create"}, m.name ++ "ConnectOrCreateWithoutRelationsInput") : Follows(c, row, p, l)
  BY <1>3, ToFollows, Renamed, WriteEnters, NestedEnters
<1>7. \A row \in To({"connect"}, m.name ++ "WhereUniqueInput") : Follows(c, row, p, l)
  BY <1>3, ToFollows, Renamed, WriteEnters, NestedEnters
<1>8. \A row \in Leaves({"disconnect", "delete"}) : Follows(c, row, p, l)
  BY <1>0, LeavesOffered, Renamed
<1>9. \A row \in rows : Follows(c, row, p, l)
  BY <1>5, <1>6, <1>7, <1>8
<1> HIDE DEF rows
<1> QED BY <1>4, <1>9 DEF Right, p

\* So does the input of an upsert.
LEMMA FromUpsert ==
  ASSUME NamesApart, KeysApart, NEW c \in Configs, NEW m \in Models, NEW l \in Nat, NEW name,
         IsMeant(c, name, Place("upsert", m.name, "-"), l)
  PROVE  Right(c, name, Place("upsert", m.name, "-"), l)
<1> DEFINE p == Place("upsert", m.name, "-")
<1>1. p.kind = "upsert" /\ p.of = m.name
  BY DEF Place
<1>2. Takes(c, p) = Into({"create"}, Place("create", m.name, "-")) \cup Into({"update"}, Place("update", m.name, "-"))
  <2> HIDE DEF p
  <2>1. Takes(c, p) = Into({"create"}, Place("create", p.of, "-")) \cup Into({"update"}, Place("update", p.of, "-"))
    BY <1>1, Zenon DEF Takes
  <2> QED BY <1>1, <2>1
<1>3. /\ OnlySlot(c, p, "create", Place("create", m.name, "-"))
      /\ OnlySlot(c, p, "update", Place("update", m.name, "-"))
  <2>1. \A slot \in Takes(c, p) : \/ slot.key = "create" /\ slot.place = Place("create", m.name, "-")
                                  \/ slot.key = "update" /\ slot.place = Place("update", m.name, "-")
    BY <1>2, SlotsOf
  <2>2. {Slot("create", Place("create", m.name, "-")),
         Slot("update", Place("update", m.name, "-"))} \subseteq Takes(c, p)
    BY <1>2, HasSlot
  <2> QED BY <2>1, <2>2 DEF OnlySlot
<1> HIDE DEF p
<1> DEFINE rows == To({"create"}, m.name ++ "CreateInput")
                    \cup To({"update"}, m.name ++ "UpdateInput")
<1>4. Defines(c, name, rows)
  BY UpdateDefined DEF IsMeant, Place, p
<1>5. \A row \in To({"create"}, m.name ++ "CreateInput") : Follows(c, row, p, l)
  BY <1>3, ToFollows, Renamed, WriteEnters
<1>6. \A row \in To({"update"}, m.name ++ "UpdateInput") : Follows(c, row, p, l)
  BY <1>3, ToFollows, Renamed, WriteEnters
<1>7. \A row \in rows : Follows(c, row, p, l)
  BY <1>5, <1>6
<1> HIDE DEF rows
<1> QED BY <1>4, <1>7 DEF Right, p

\* So do the inputs of a create.
LEMMA FromCreate ==
  ASSUME NamesApart, KeysApart, NEW c \in Configs, NEW m \in Models, NEW back \in Backs(m) \cup {"-"}, NEW l \in Nat, NEW name,
         IsMeant(c, name, Place("create", m.name, back), l)
  PROVE  Right(c, name, Place("create", m.name, back), l)
<1> DEFINE p == Place("create", m.name, back)
<1>1. p.kind = "create" /\ p.of = m.name /\ p.key = back
  BY DEF Place
<1>2. /\ Takes(c, p) = {Slot(f.name, CreatePlace(f)) : f \in Without(m, back)}
      /\ Overoffered(p) = Keeping(m, back)
  <2> HIDE DEF p
  <2>1. Takes(c, p) = {Slot(f.name, CreatePlace(f)) : f \in Without(ModelOf(p.of), p.key)}
    BY <1>1, Zenon DEF Takes
  <2>2. Overoffered(p) = Keeping(ModelOf(p.of), p.key)
    BY <1>1, Zenon DEF Overoffered
  <2> QED BY <1>1, <2>1, <2>2, OfModel
<1>3. PICK fields \in SUBSET m.fields : /\ Defines(c, name, {Row(f.name, CreateInputType(f)) : f \in fields})
                                       /\ (back = "-" \/ fields \subseteq Scalars(m))
  BY CreateDefined DEF IsMeant, Place, Written, Scalars
<1> HIDE DEF p
<1>4. ASSUME NEW f \in fields
      PROVE  Follows(c, Row(f.name, CreateInputType(f)), p, l)
  <2>1. Row(f.name, CreateInputType(f)).key = f.name /\ Row(f.name, CreateInputType(f)).to = CreateInputType(f)
    BY DEF Row
  <2>2. Alias(f.name) = f.name
    BY FieldsRenamed
  <2>3. ASSUME NEW slot \in Takes(c, p), slot.key = f.name
        PROVE  slot.place = CreatePlace(f)
    <3>1. PICK g \in m.fields : slot = Slot(g.name, CreatePlace(g))
      BY <1>2 DEF Without
    <3> QED BY <3>1, <2>3 DEF Slot, KeysApart
  <2>4. CASE f \in Without(m, back)
    <3>1. Slot(f.name, CreatePlace(f)) \in Takes(c, p)
      BY <1>2, <2>4
    <3>2. OnlySlot(c, p, f.name, CreatePlace(f))
      BY <3>1, <2>3 DEF OnlySlot
    <3>3. \A to \in CreateInputType(f) : Enters(c, to, CreatePlace(f), l)
      BY CreateEnters
    <3> QED BY <2>1, <2>2, <3>2, <3>3, FollowsIts
  <2>5. CASE f \notin Without(m, back)
    <3>1. f.name # back
      <4>1. f.name # "-"
        BY DEF KeysApart
      <4>2. CASE back = "-"
        BY <4>1, <4>2
      <4>3. CASE back # "-"
        <5>1. PICK g \in Relations(m) : g.name = back
          BY <4>3 DEF Backs, Names
        <5>2. f # g
          BY <1>3, <4>3, <5>1 DEF Scalars
        <5> QED BY <5>1, <5>2 DEF KeysApart, Relations
      <4> QED BY <4>2, <4>3
    <3>2. f.name \in Overoffered(p)
      BY <1>2, <2>5, <3>1 DEF Without
    <3>3. back # "-"
      <4>1. SUFFICES ASSUME back = "-"
                     PROVE  FALSE
        OBVIOUS
      <4>2. Keeping(m, back) = {}
        BY <4>1 DEF Keeping, KeysApart, Relations
      <4> QED BY <1>2, <3>2, <4>2
    <3>4. CreateInputType(f) = {}
      BY <1>3, <3>3 DEF CreateInputType, Scalars, Relations
    <3> QED BY <2>1, <2>2, <3>2, <3>4 DEF Follows
  <2> QED BY <2>4, <2>5
<1> DEFINE rows == {Row(f.name, CreateInputType(f)) : f \in fields}
<1>5. \A row \in rows : Follows(c, row, p, l)
  BY <1>4
<1>6. Defines(c, name, rows)
  BY <1>3
<1> HIDE DEF rows
<1> QED BY <1>5, <1>6 DEF Right, p

\* So does that of a create of many records.
LEMMA FromCreateMany ==
  ASSUME NamesApart, KeysApart, NEW c \in Configs, NEW m \in Models, NEW l \in Nat, NEW name,
         IsMeant(c, name, Place("createMany", m.name, "-"), l)
  PROVE  Right(c, name, Place("createMany", m.name, "-"), l)
<1> DEFINE p == Place("createMany", m.name, "-")
<1>1. p.kind = "createMany" /\ p.of = m.name
  BY DEF Place
<1>2. Takes(c, p) = Known(Names(Scalars(m)))
  <2> HIDE DEF p
  <2>1. Takes(c, p) = Known(Names(Scalars(ModelOf(p.of))))
    BY <1>1, Zenon DEF Takes
  <2> QED BY <1>1, <2>1, OfModel
<1>3. Defines(c, name, {Row(f.name, CreateInputType(f)) : f \in Scalars(m)})
  BY CreateDefined DEF IsMeant, Place
<1> HIDE DEF p
<1>4. ASSUME NEW f \in Scalars(m)
      PROVE  Follows(c, Row(f.name, CreateInputType(f)), p, l)
  <2>1. Row(f.name, CreateInputType(f)).key = f.name /\ Row(f.name, CreateInputType(f)).to = {}
    BY DEF Row, CreateInputType, Scalars, Relations
  <2>2. Alias(f.name) = f.name
    BY FieldsRenamed DEF Scalars
  <2>3. Slot(f.name, Place("scalar", "-", "-")) \in Takes(c, p) /\ Slot(f.name, Place("scalar", "-", "-")).key = f.name
    BY <1>2, HasSlot DEF Known, Names, Slot
  <2> QED BY <2>1, <2>2, <2>3, FollowsKnown
<1> DEFINE rows == {Row(f.name, CreateInputType(f)) : f \in Scalars(m)}
<1>5. \A row \in rows : Follows(c, row, p, l)
  BY <1>4
<1>6. Defines(c, name, rows)
  BY <1>3
<1> HIDE DEF rows
<1> QED BY <1>5, <1>6 DEF Right, p

\* So do the inputs of an update.
LEMMA FromUpdate ==
  ASSUME NamesApart, KeysApart, NEW c \in Configs, NEW m \in Models, NEW l \in Nat, NEW name,
         IsMeant(c, name, Place("update", m.name, "-"), l)
  PROVE  Right(c, name, Place("update", m.name, "-"), l)
<1> DEFINE p == Place("update", m.name, "-")
<1>1. p.kind = "update" /\ p.of = m.name
  BY DEF Place
<1>2. Takes(c, p) = {Slot(f.name, UpdatePlace(f)) : f \in m.fields}
  <2> HIDE DEF p
  <2>1. Takes(c, p) = {Slot(f.name, UpdatePlace(f)) : f \in ModelOf(p.of).fields}
    BY <1>1, Zenon DEF Takes
  <2> QED BY <1>1, <2>1, OfModel
<1>3. PICK fields \in SUBSET m.fields : Defines(c, name, {Row(f.name, UpdateInputType(f)) : f \in fields})
  BY UpdateDefined DEF IsMeant, Place, Written, Scalars
<1> HIDE DEF p
<1>4. ASSUME NEW f \in m.fields
      PROVE  Follows(c, Row(f.name, UpdateInputType(f)), p, l)
  <2>1. Row(f.name, UpdateInputType(f)).key = f.name /\ Row(f.name, UpdateInputType(f)).to = UpdateInputType(f)
    BY DEF Row
  <2>2. Slot(f.name, UpdatePlace(f)) \in Takes(c, p)
    BY <1>2
  <2>3. ASSUME NEW slot \in Takes(c, p), slot.key = f.name
        PROVE  slot.place = UpdatePlace(f)
    <3>1. PICK g \in m.fields : slot = Slot(g.name, UpdatePlace(g))
      BY <1>2
    <3> QED BY <3>1, <2>3 DEF Slot, KeysApart
  <2>4. OnlySlot(c, p, f.name, UpdatePlace(f))
    BY <2>2, <2>3 DEF OnlySlot
  <2>5. Alias(f.name) = f.name
    BY FieldsRenamed
  <2>6. \A to \in UpdateInputType(f) : Enters(c, to, UpdatePlace(f), l)
    BY UpdateEnters
  <2> QED BY <2>1, <2>4, <2>5, <2>6, FollowsIts
<1> DEFINE rows == {Row(f.name, UpdateInputType(f)) : f \in fields}
<1>5. \A row \in rows : Follows(c, row, p, l)
  BY <1>4
<1>6. Defines(c, name, rows)
  BY <1>3
<1> HIDE DEF rows
<1> QED BY <1>5, <1>6 DEF Right, p

\* So does that of an update of many records.
LEMMA FromUpdateAll ==
  ASSUME NamesApart, KeysApart, NEW c \in Configs, NEW m \in Models, NEW l \in Nat, NEW name,
         IsMeant(c, name, Place("updateAll", m.name, "-"), l)
  PROVE  Right(c, name, Place("updateAll", m.name, "-"), l)
<1> DEFINE p == Place("updateAll", m.name, "-")
<1>1. p.kind = "updateAll" /\ p.of = m.name
  BY DEF Place
<1>2. Takes(c, p) = {Slot(f.name, UpdatePlace(f)) : f \in Scalars(m)}
  <2> HIDE DEF p
  <2>1. Takes(c, p) = {Slot(f.name, UpdatePlace(f)) : f \in Scalars(ModelOf(p.of))}
    BY <1>1, Zenon DEF Takes
  <2> QED BY <1>1, <2>1, OfModel
<1>3. PICK fields \in SUBSET Scalars(m) : Defines(c, name, {Row(f.name, UpdateInputType(f)) : f \in fields})
  BY UpdateDefined DEF IsMeant, Place
<1> HIDE DEF p
<1>4. ASSUME NEW f \in Scalars(m)
      PROVE  Follows(c, Row(f.name, UpdateInputType(f)), p, l)
  <2>1. Row(f.name, UpdateInputType(f)).key = f.name /\ Row(f.name, UpdateInputType(f)).to = UpdateInputType(f)
    BY DEF Row
  <2>2. Slot(f.name, UpdatePlace(f)) \in Takes(c, p)
    BY <1>2
  <2>3. ASSUME NEW slot \in Takes(c, p), slot.key = f.name
        PROVE  slot.place = UpdatePlace(f)
    <3>1. PICK g \in m.fields : slot = Slot(g.name, UpdatePlace(g))
      BY <1>2 DEF Scalars
    <3> QED BY <3>1, <2>3 DEF Slot, KeysApart, Scalars
  <2>4. OnlySlot(c, p, f.name, UpdatePlace(f))
    BY <2>2, <2>3 DEF OnlySlot
  <2>5. Alias(f.name) = f.name
    BY FieldsRenamed DEF Scalars
  <2>6. \A to \in UpdateInputType(f) : Enters(c, to, UpdatePlace(f), l)
    BY UpdateEnters DEF Scalars
  <2> QED BY <2>1, <2>4, <2>5, <2>6, FollowsIts
<1> DEFINE rows == {Row(f.name, UpdateInputType(f)) : f \in fields}
<1>5. \A row \in rows : Follows(c, row, p, l)
  BY <1>4
<1>6. Defines(c, name, rows)
  BY <1>3
<1> HIDE DEF rows
<1> QED BY <1>5, <1>6 DEF Right, p

-----------------------------------------------------------------------------
(* Filters of relations, unique filters and orders.                        *)

\* The rows of the filters of relations.
LEMMA RelationDefined ==
  ASSUME NamesApart, NEW c \in Configs, NEW m \in Models
  PROVE  /\ Defines(c, m.name ++ "RelationFilter", IF c.depth = -1 THEN To({"is", "is_not"}, m.name ++ "WhereInput")
                                                   ELSE Leaves({"is", "is_not"}))
         /\ Defines(c, m.name ++ "ListRelationFilter", IF c.depth = -1 THEN To({"some", "none", "every"}, m.name ++ "WhereInput")
                                                       ELSE Leaves({"some", "none", "every"}))
<1>1. ASSUME NEW name, NEW rows, Type(name, rows) \in RelationFilters(c, m)
      PROVE  Defines(c, name, rows)
  <2>1. Type(name, rows) \in ModelTypes(c, m)
    BY <1>1 DEF ModelTypes
  <2> QED BY <2>1, ModelDefined DEF Type
<1>2. Type(m.name ++ "RelationFilter", IF c.depth = -1 THEN To({"is", "is_not"}, m.name ++ "WhereInput")
                                                   ELSE Leaves({"is", "is_not"})) \in RelationFilters(c, m)
  BY DEF RelationFilters
<1>3. Type(m.name ++ "ListRelationFilter", IF c.depth = -1 THEN To({"some", "none", "every"}, m.name ++ "WhereInput")
                                                       ELSE Leaves({"some", "none", "every"})) \in RelationFilters(c, m)
  BY DEF RelationFilters
<1> QED BY <1>1, <1>2, <1>3

\* The filter that the relations name is the first copy.
LEMMA FirstWhereEnters ==
  ASSUME NEW c \in Configs, NEW m \in Models, NEW l \in Nat
  PROVE  Enters(c, m.name ++ "WhereInput", Place("where", m.name, "-"), l)
<1>1. 0 \in Copies(c) /\ Copy(m.name ++ "WhereInput", 0) = m.name ++ "WhereInput"
  BY FirstCopy
<1>2. Enters(c, Copy(m.name ++ "WhereInput", 0), Place("where", m.name, "-"), l)
  BY <1>1, WriteEnters
<1> QED BY <1>1, <1>2

\* The filter of a relation offers what the engine takes there.
LEMMA FromRelation ==
  ASSUME NamesApart, KeysApart, NEW c \in Configs, NEW m \in Models, NEW l \in Nat, NEW name,
         IsMeant(c, name, Place("is", m.name, "-"), l)
  PROVE  Right(c, name, Place("is", m.name, "-"), l)
<1> DEFINE p == Place("is", m.name, "-")
<1> DEFINE where == Place("where", m.name, "-")
<1>1. p.kind = "is" /\ p.of = m.name
  BY DEF Place
<1>2. Takes(c, p) = Into({"is", "isNot"}, where)
  <2> HIDE DEF p
  <2>1. Takes(c, p) = Into({"is", "isNot"}, Place("where", p.of, "-"))
    BY <1>1, Zenon DEF Takes
  <2> QED BY <1>1, <2>1
<1>3. Enters(c, m.name ++ "WhereInput", where, l)
  BY FirstWhereEnters
<1>4. Defines(c, name, IF c.depth = -1 THEN To({"is", "is_not"}, m.name ++ "WhereInput") ELSE Leaves({"is", "is_not"}))
  BY RelationDefined DEF IsMeant, Place
<1> HIDE DEF p, where
<1>5. \A key \in {"is", "isNot"} : OnlySlot(c, p, key, where)
  BY <1>2, SlotsOf, HasSlot DEF OnlySlot
<1>6. \A key \in {"is", "is_not"} : Alias(key) \in {"is", "isNot"}
  BY Renamed
<1>7. CASE c.depth = -1
  <2>1. \A row \in To({"is", "is_not"}, m.name ++ "WhereInput") : Follows(c, row, p, l)
    BY <1>3, <1>5, <1>6, ToFollows
  <2> QED BY <1>4, <1>7, <2>1 DEF Right, p
<1>8. CASE c.depth # -1
  <2>1. \A key \in {"is", "is_not"} : \E slot \in Takes(c, p) : slot.key = Alias(key)
    BY <1>5, <1>6 DEF OnlySlot, Slot
  <2>2. \A row \in Leaves({"is", "is_not"}) : Follows(c, row, p, l)
    BY <2>1, LeavesFollow
  <2> QED BY <1>4, <1>8, <2>2 DEF Right, p
<1> QED BY <1>7, <1>8

\* So does that of a list of a relation.
LEMMA FromListRelation ==
  ASSUME NamesApart, KeysApart, NEW c \in Configs, NEW m \in Models, NEW l \in Nat, NEW name,
         IsMeant(c, name, Place("some", m.name, "-"), l)
  PROVE  Right(c, name, Place("some", m.name, "-"), l)
<1> DEFINE p == Place("some", m.name, "-")
<1> DEFINE where == Place("where", m.name, "-")
<1>1. p.kind = "some" /\ p.of = m.name
  BY DEF Place
<1>2. Takes(c, p) = Into({"some", "none", "every"}, where)
  <2> HIDE DEF p
  <2>1. Takes(c, p) = Into({"some", "none", "every"}, Place("where", p.of, "-"))
    BY <1>1, Zenon DEF Takes
  <2> QED BY <1>1, <2>1
<1>3. Enters(c, m.name ++ "WhereInput", where, l)
  BY FirstWhereEnters
<1>4. Defines(c, name, IF c.depth = -1 THEN To({"some", "none", "every"}, m.name ++ "WhereInput") ELSE Leaves({"some", "none", "every"}))
  BY RelationDefined DEF IsMeant, Place
<1> HIDE DEF p, where
<1>5. \A key \in {"some", "none", "every"} : OnlySlot(c, p, key, where)
  BY <1>2, SlotsOf, HasSlot DEF OnlySlot
<1>6. \A key \in {"some", "none", "every"} : Alias(key) \in {"some", "none", "every"}
  BY Renamed
<1>7. CASE c.depth = -1
  <2>1. \A row \in To({"some", "none", "every"}, m.name ++ "WhereInput") : Follows(c, row, p, l)
    BY <1>3, <1>5, <1>6, ToFollows
  <2> QED BY <1>4, <1>7, <2>1 DEF Right, p
<1>8. CASE c.depth # -1
  <2>1. \A key \in {"some", "none", "every"} : \E slot \in Takes(c, p) : slot.key = Alias(key)
    BY <1>5, <1>6 DEF OnlySlot, Slot
  <2>2. \A row \in Leaves({"some", "none", "every"}) : Follows(c, row, p, l)
    BY <2>1, LeavesFollow
  <2> QED BY <1>4, <1>8, <2>2 DEF Right, p
<1> QED BY <1>7, <1>8

\* The rows of the unique filter and of its compound keys.
LEMMA UniqueDefined ==
  ASSUME NamesApart, NEW c \in Configs, NEW m \in Models
  PROVE  /\ Defines(c, m.name ++ "WhereUniqueInput",
                    Leaves(Names({f \in Scalars(m) : f.unique}))
                    \cup {Row(k.name, {"_" ++ m.name ++ "Compound" ++ k.name ++ "KeyInner"}) : k \in m.keys})
         /\ \A k \in m.keys : Defines(c, "_" ++ m.name ++ "Compound" ++ k.name ++ "KeyInner", Leaves(k.fields))
<1>1. ASSUME NEW name, NEW rows, Type(name, rows) \in WhereUnique(m)
      PROVE  Defines(c, name, rows)
  <2>1. Type(name, rows) \in ModelTypes(c, m)
    BY <1>1 DEF ModelTypes
  <2> QED BY <2>1, ModelDefined DEF Type
<1>2. Type(m.name ++ "WhereUniqueInput",
           Leaves(Names({f \in Scalars(m) : f.unique}))
           \cup {Row(k.name, {"_" ++ m.name ++ "Compound" ++ k.name ++ "KeyInner"}) : k \in m.keys}) \in WhereUnique(m)
  BY DEF WhereUnique
<1>3. ASSUME NEW k \in m.keys
      PROVE  Type("_" ++ m.name ++ "Compound" ++ k.name ++ "KeyInner", Leaves(k.fields)) \in WhereUnique(m)
  BY DEF WhereUnique
<1> QED BY <1>1, <1>2, <1>3

\* The unique filter offers what the engine takes there.
LEMMA FromUnique ==
  ASSUME NamesApart, KeysApart, NEW c \in Configs, NEW m \in Models, NEW l \in Nat, NEW name,
         IsMeant(c, name, Place("unique", m.name, "-"), l)
  PROVE  Right(c, name, Place("unique", m.name, "-"), l)
<1> DEFINE p == Place("unique", m.name, "-")
<1> DEFINE unique == Names({f \in Scalars(m) : f.unique})
<1> DEFINE inner(k) == "_" ++ m.name ++ "Compound" ++ k.name ++ "KeyInner"
<1>1. p.kind = "unique" /\ p.of = m.name
  BY DEF Place
<1>2. Takes(c, p) = Known(unique) \cup {Slot(key.name, Place("compound", m.name, key.name)) : key \in m.keys}
  <2> HIDE DEF p
  <2>1. Takes(c, p) = Known(Names({f \in Scalars(ModelOf(p.of)) : f.unique}))
                      \cup {Slot(key.name, Place("compound", p.of, key.name)) : key \in ModelOf(p.of).keys}
    BY <1>1, Zenon DEF Takes
  <2> QED BY <1>1, <2>1, OfModel
<1>3. Defines(c, name, Leaves(unique) \cup {Row(k.name, {inner(k)}) : k \in m.keys})
  BY UniqueDefined DEF IsMeant, Place
<1>4. \A key \in unique : \E f \in m.fields : key = f.name
  BY DEF Names, Scalars
<1> HIDE DEF p, unique
<1>5. \A row \in Leaves(unique) : Follows(c, row, p, l)
  <2>1. ASSUME NEW key \in unique
        PROVE  \E slot \in Takes(c, p) : slot.key = Alias(key)
    <3>1. Alias(key) = key
      BY <1>4, FieldsRenamed
    <3>2. Slot(key, Place("scalar", "-", "-")) \in Takes(c, p) /\ Slot(key, Place("scalar", "-", "-")).key = key
      BY <1>2, HasSlot DEF Known, Slot
    <3> QED BY <3>1, <3>2
  <2> QED BY <2>1, LeavesFollow
<1>6. ASSUME NEW k \in m.keys
      PROVE  Follows(c, Row(k.name, {inner(k)}), p, l)
  <2>1. Row(k.name, {inner(k)}).key = k.name /\ Row(k.name, {inner(k)}).to = {inner(k)}
    BY DEF Row
  <2>2. Slot(k.name, Place("compound", m.name, k.name)) \in Takes(c, p)
    BY <1>2
  <2>3. ASSUME NEW slot \in Takes(c, p), slot.key = k.name
        PROVE  slot.place = Place("compound", m.name, k.name)
    <3>1. slot \notin Known(unique)
      BY <1>4, <2>3, SlotsOf DEF Known, KeysApart, Names
    <3>2. PICK j \in m.keys : slot = Slot(j.name, Place("compound", m.name, j.name))
      BY <1>2, <3>1
    <3> QED BY <3>2, <2>3 DEF Slot
  <2>4. OnlySlot(c, p, k.name, Place("compound", m.name, k.name))
    BY <2>2, <2>3 DEF OnlySlot
  <2>5. Alias(k.name) = k.name
    BY FieldsRenamed
  <2>6. Enters(c, inner(k), Place("compound", m.name, k.name), l)
    BY OtherEnters
  <2> HIDE DEF inner
  <2> QED BY <2>1, <2>4, <2>5, <2>6, FollowsIts
<1> DEFINE rows == Leaves(unique) \cup {Row(k.name, {inner(k)}) : k \in m.keys}
<1>7. \A row \in rows : Follows(c, row, p, l)
  BY <1>5, <1>6
<1>8. Defines(c, name, rows)
  BY <1>3
<1> HIDE DEF rows
<1> QED BY <1>7, <1>8 DEF Right, p

\* So does a compound key.
LEMMA FromCompound ==
  ASSUME NamesApart, KeysApart, NEW c \in Configs, NEW m \in Models, NEW k \in m.keys, NEW l \in Nat, NEW name,
         IsMeant(c, name, Place("compound", m.name, k.name), l)
  PROVE  Right(c, name, Place("compound", m.name, k.name), l)
<1> DEFINE p == Place("compound", m.name, k.name)
<1>1. p.kind = "compound" /\ p.of = m.name /\ p.key = k.name
  BY DEF Place
<1>2. Takes(c, p) = Known(UNION {j.fields : j \in {x \in m.keys : x.name = k.name}})
  <2> HIDE DEF p
  <2>1. Takes(c, p) = Known(UNION {key.fields : key \in {x \in ModelOf(p.of).keys : x.name = p.key}})
    BY <1>1, Zenon DEF Takes
  <2> QED BY <1>1, <2>1, OfModel
<1>3. Defines(c, name, Leaves(k.fields))
  BY UniqueDefined DEF IsMeant, Place
<1> HIDE DEF p
<1>4. ASSUME NEW key \in k.fields
      PROVE  \E slot \in Takes(c, p) : slot.key = Alias(key)
  <2>1. Alias(key) = key
    BY FieldsRenamed
  <2>2. key \in UNION {j.fields : j \in {x \in m.keys : x.name = k.name}}
    OBVIOUS
  <2>3. Slot(key, Place("scalar", "-", "-")) \in Takes(c, p) /\ Slot(key, Place("scalar", "-", "-")).key = key
    BY <1>2, <2>2, HasSlot DEF Known, Slot
  <2> QED BY <2>1, <2>3
<1>5. \A row \in Leaves(k.fields) : Follows(c, row, p, l)
  BY <1>4, LeavesFollow
<1> QED BY <1>3, <1>5 DEF Right, p

\* The rows of an order and of its relevance.
LEMMA OrderDefined ==
  ASSUME NamesApart, NEW c \in Configs, NEW m \in Models
  PROVE  /\ Defines(c, m.name ++ "OrderByInput",
                    Leaves(Names(Scalars(m)))
                    \cup To({k \in {"_relevance"} : c.provider \in {"postgresql", "mysql"}}, "_" ++ m.name ++ "_RelevanceInner"))
         /\ c.provider \in {"postgresql", "mysql"}
              => Defines(c, "_" ++ m.name ++ "_RelevanceInner", Leaves({"fields", "search", "sort"}))
<1>1. ASSUME NEW name, NEW rows, Type(name, rows) \in OrderBy(c, m)
      PROVE  Defines(c, name, rows)
  <2>1. Type(name, rows) \in ModelTypes(c, m)
    BY <1>1 DEF ModelTypes
  <2> QED BY <2>1, ModelDefined DEF Type
<1>2. Type(m.name ++ "OrderByInput",
           Leaves(Names(Scalars(m)))
           \cup To({k \in {"_relevance"} : c.provider \in {"postgresql", "mysql"}}, "_" ++ m.name ++ "_RelevanceInner")) \in OrderBy(c, m)
  BY DEF OrderBy
<1>3. c.provider \in {"postgresql", "mysql"}
        => Type("_" ++ m.name ++ "_RelevanceInner", Leaves({"fields", "search", "sort"})) \in OrderBy(c, m)
  BY DEF OrderBy
<1> QED BY <1>1, <1>2, <1>3

\* The names of fields that the engine knows are taken as they are.
LEMMA ScalarKey ==
  ASSUME KeysApart, NEW c, NEW p, NEW m \in Models, NEW fields \in SUBSET Scalars(m), NEW keys,
         Names(fields) \subseteq keys, Known(keys) \subseteq Takes(c, p)
  PROVE  \A key \in Names(fields) : \E slot \in Takes(c, p) : slot.key = Alias(key)
<1> SUFFICES ASSUME NEW key \in Names(fields)
             PROVE  \E slot \in Takes(c, p) : slot.key = Alias(key)
  OBVIOUS
<1>1. \E f \in m.fields : f.name = key
  BY DEF Names, Scalars
<1>2. Alias(key) = key
  BY <1>1, FieldsRenamed
<1>3. Slot(key, Place("scalar", "-", "-")) \in Takes(c, p) /\ Slot(key, Place("scalar", "-", "-")).key = key
  BY HasSlot DEF Known, Slot
<1> QED BY <1>2, <1>3

\* The names of fields are taken as they are, or known not to be taken.
LEMMA ScalarTaken ==
  ASSUME KeysApart, NEW c, NEW p, NEW m \in Models, NEW fields \in SUBSET Scalars(m), NEW taken \in SUBSET Scalars(m),
         Takes(c, p) = Known(Names(taken)), Names(fields \ taken) \subseteq Overoffered(p)
  PROVE  \A key \in Names(fields) : (\E slot \in Takes(c, p) : slot.key = Alias(key)) \/ Alias(key) \in Overoffered(p)
<1> SUFFICES ASSUME NEW f \in fields
             PROVE  (\E slot \in Takes(c, p) : slot.key = Alias(f.name)) \/ Alias(f.name) \in Overoffered(p)
  BY DEF Names
<1>1. Alias(f.name) = f.name
  BY FieldsRenamed DEF Scalars
<1>2. CASE f \in taken
  <2>1. Slot(f.name, Place("scalar", "-", "-")) \in Takes(c, p) /\ Slot(f.name, Place("scalar", "-", "-")).key = f.name
    BY <1>2, HasSlot DEF Known, Names, Slot
  <2> QED BY <1>1, <2>1
<1>3. CASE f \notin taken
  BY <1>1, <1>3 DEF Names
<1> QED BY <1>2, <1>3

\* An order offers what the engine takes there.
LEMMA FromOrderBy ==
  ASSUME NamesApart, KeysApart, NEW c \in Configs, NEW m \in Models, NEW l \in Nat, NEW name,
         IsMeant(c, name, Place("orderBy", m.name, "-"), l)
  PROVE  Right(c, name, Place("orderBy", m.name, "-"), l)
<1> DEFINE p == Place("orderBy", m.name, "-")
<1> DEFINE searched == {k \in {"_relevance"} : c.provider \in {"postgresql", "mysql"}}
<1> DEFINE worded == \E f \in Ordered(m) : f.type = "String"
<1> DEFINE sorted == {k \in searched : worded}
<1> DEFINE inner == "_" ++ m.name ++ "_RelevanceInner"
<1>1. p.kind = "orderBy" /\ p.of = m.name
  BY DEF Place
<1>2. /\ Takes(c, p) = Known(Names(Scalars(m))) \cup Into(sorted, Place("relevance", "-", "-"))
      /\ Overoffered(p) = {k \in {"_relevance"} : ~worded}
  <2> HIDE DEF p
  <2>1. Takes(c, p) = Known(Names(Scalars(ModelOf(p.of))))
                      \cup Into({k \in {"_relevance"} : Searches(c) /\ \E f \in Ordered(ModelOf(p.of)) : f.type = "String"},
                                Place("relevance", "-", "-"))
    BY <1>1, Zenon DEF Takes
  <2>2. Overoffered(p) = {k \in {"_relevance"} : \A f \in Ordered(ModelOf(p.of)) : f.type # "String"}
    BY <1>1, Zenon DEF Overoffered
  <2> QED BY <1>1, <2>1, <2>2, OfModel DEF Searches
<1>3. Defines(c, name, Leaves(Names(Scalars(m))) \cup To(searched, inner))
  BY OrderDefined DEF IsMeant, Place
<1>4. \A key \in searched : key = "_relevance" /\ Enters(c, inner, Place("relevance", "-", "-"), l)
  BY OtherEnters
<1>5. "_relevance" \notin Names(Scalars(m))
  BY DEF Names, Scalars, KeysApart
<1> HIDE DEF p, searched, inner
<1>6. \A row \in Leaves(Names(Scalars(m))) : Follows(c, row, p, l)
  BY <1>2, ScalarKey, LeavesFollow
<1>7. ASSUME NEW row \in To(searched, inner)
      PROVE  Follows(c, row, p, l)
  <2>1. row.key \in searched /\ row.key = "_relevance"
    BY <1>4, RowsTo
  <2>0. row.to = {inner} /\ Alias(row.key) = "_relevance"
    BY <2>1, RowsTo, Renamed
  <2>2. \/ Slot("_relevance", Place("relevance", "-", "-")) \in Takes(c, p)
        \/ "_relevance" \in Overoffered(p)
    <3>1. CASE worded
      BY <1>2, <2>1, <3>1, HasSlot
    <3>2. CASE ~worded
      BY <1>2, <3>2
    <3> QED BY <3>1, <3>2
  <2>3. \A slot \in Takes(c, p) : slot.key = "_relevance" => slot.place = Place("relevance", "-", "-")
    BY <1>2, <1>5, SlotsOf DEF Known
  <2>4. (\E slot \in Takes(c, p) : slot.key = Alias(row.key)) \/ Alias(row.key) \in Overoffered(p)
    BY <2>0, <2>2 DEF Slot
  <2>5. \A to \in row.to, slot \in Takes(c, p) : slot.key = Alias(row.key) => Enters(c, to, slot.place, l)
    BY <1>4, <2>0, <2>1, <2>3
  <2> QED BY <2>4, <2>5 DEF Follows
<1>8. \A row \in Leaves(Names(Scalars(m))) \cup To(searched, inner) : Follows(c, row, p, l)
  BY <1>6, <1>7
<1> QED BY <1>3, <1>8 DEF Right, p

\* So does its relevance.
LEMMA FromRelevance ==
  ASSUME NamesApart, NEW c \in Configs, NEW l \in Nat, NEW name,
         IsMeant(c, name, Place("relevance", "-", "-"), l)
  PROVE  Right(c, name, Place("relevance", "-", "-"), l)
<1> DEFINE p == Place("relevance", "-", "-")
<1>1. p.kind = "relevance"
  BY DEF Place
<1>2. Takes(c, p) = Known({"fields", "search", "sort"})
  <2> HIDE DEF p
  <2> QED BY <1>1, Zenon DEF Takes
<1>3. Defines(c, name, Leaves({"fields", "search", "sort"}))
  BY OrderDefined DEF IsMeant, Place
<1> HIDE DEF p
<1>4. \A key \in {"fields", "search", "sort"} : Alias(key) \in {"fields", "search", "sort"}
  BY Renamed
<1>5. \A key \in {"fields", "search", "sort"} : Slot(key, Place("scalar", "-", "-")) \in Takes(c, p)
  BY <1>2, HasSlot DEF Known
<1>6. \A key \in {"fields", "search", "sort"} : \E slot \in Takes(c, p) : slot.key = Alias(key)
  BY <1>4, <1>5 DEF Slot
<1>7. \A row \in Leaves({"fields", "search", "sort"}) : Follows(c, row, p, l)
  BY <1>6, LeavesFollow
<1> QED BY <1>3, <1>7 DEF Right, p

-----------------------------------------------------------------------------
(* Aggregates.                                                             *)

\* The rows of what an aggregate selects.
LEMMA AggregateDefined ==
  ASSUME NamesApart, NEW c \in Configs, NEW m \in Models
  PROVE  /\ \A input \in {"MaxAggregateInput", "MinAggregateInput"} : Defines(c, m.name ++ input, Leaves(Names(Scalars(m))))
         /\ \A input \in {"AvgAggregateInput", "SumAggregateInput"} :
              Defines(c, m.name ++ input, Leaves(Names({f \in Scalars(m) : f.type \in Numbers})))
         /\ Defines(c, m.name ++ "CountAggregateInput", Leaves(Names(Scalars(m))) \cup Leaves({"_all"}))
<1>1. ASSUME NEW name, NEW rows, Type(name, rows) \in AggregateTypes(c, m)
      PROVE  Defines(c, name, rows)
  <2>1. AggregateTypes(c, m) \subseteq ModelTypes(c, m)
    BY DEF ModelTypes
  <2>2. Type(name, rows) \in ModelTypes(c, m)
    BY <1>1, <2>1
  <2> QED BY <2>2, ModelDefined DEF Type
<1>2. \A input \in {"MaxAggregateInput", "MinAggregateInput"} :
        Type(m.name ++ input, Leaves(Names(Scalars(m)))) \in AggregateTypes(c, m)
  BY DEF AggregateTypes
<1>3. \A input \in {"AvgAggregateInput", "SumAggregateInput"} :
        Type(m.name ++ input, Leaves(Names({f \in Scalars(m) : f.type \in Numbers}))) \in AggregateTypes(c, m)
  BY DEF AggregateTypes
<1>4. Type(m.name ++ "CountAggregateInput", Leaves(Names(Scalars(m))) \cup Leaves({"_all"})) \in AggregateTypes(c, m)
  BY DEF AggregateTypes
<1> QED BY <1>1, <1>2, <1>3, <1>4

\* What _min and _max select is what the engine takes there.
LEMMA FromFields ==
  ASSUME NamesApart, KeysApart, NEW c \in Configs, NEW m \in Models, NEW l \in Nat, NEW name,
         IsMeant(c, name, Place("fields", m.name, "-"), l)
  PROVE  Right(c, name, Place("fields", m.name, "-"), l)
<1> DEFINE p == Place("fields", m.name, "-")
<1>1. p.kind = "fields" /\ p.of = m.name
  BY DEF Place
<1>2. /\ Takes(c, p) = Known(Names(Ordered(m)))
      /\ Overoffered(p) = Names(Scalars(m) \ Ordered(m))
  <2> HIDE DEF p
  <2>1. Takes(c, p) = Known(Names(Ordered(ModelOf(p.of))))
    BY <1>1, Zenon DEF Takes
  <2>2. Overoffered(p) = Names(Scalars(ModelOf(p.of)) \ Ordered(ModelOf(p.of)))
    BY <1>1, Zenon DEF Overoffered
  <2> QED BY <1>1, <2>1, <2>2, OfModel
<1>3. Defines(c, name, Leaves(Names(Scalars(m))))
  BY AggregateDefined DEF IsMeant, Place
<1> HIDE DEF p
<1>4. ASSUME NEW key \in Names(Scalars(m))
      PROVE  (\E slot \in Takes(c, p) : slot.key = Alias(key)) \/ Alias(key) \in Overoffered(p)
  BY <1>2, ScalarTaken DEF Ordered
<1>5. \A row \in Leaves(Names(Scalars(m))) : Follows(c, row, p, l)
  BY <1>4, LeavesOffered
<1> QED BY <1>3, <1>5 DEF Right, p

\* So is what _avg and _sum select.
LEMMA FromNumbers ==
  ASSUME NamesApart, KeysApart, NEW c \in Configs, NEW m \in Models, NEW l \in Nat, NEW name,
         IsMeant(c, name, Place("numbers", m.name, "-"), l)
  PROVE  Right(c, name, Place("numbers", m.name, "-"), l)
<1> DEFINE p == Place("numbers", m.name, "-")
<1> DEFINE fields == {f \in Scalars(m) : f.type \in Numbers}
<1>1. p.kind = "numbers" /\ p.of = m.name
  BY DEF Place
<1>2. /\ Takes(c, p) = Known(Names(Numeric(m)))
      /\ Overoffered(p) = Names(Lists(m))
  <2> HIDE DEF p
  <2>1. Takes(c, p) = Known(Names(Numeric(ModelOf(p.of))))
    BY <1>1, Zenon DEF Takes
  <2>2. Overoffered(p) = Names(Lists(ModelOf(p.of)))
    BY <1>1, Zenon DEF Overoffered
  <2> QED BY <1>1, <2>1, <2>2, OfModel
<1>3. Defines(c, name, Leaves(Names(fields)))
  BY AggregateDefined DEF IsMeant, Place
<1>4. /\ fields \in SUBSET Scalars(m) /\ Numeric(m) \in SUBSET Scalars(m)
      /\ Names(fields \ Numeric(m)) \subseteq Names(Lists(m))
  BY DEF Names, Numeric, Lists
<1> HIDE DEF p, fields
<1>5. \A row \in Leaves(Names(fields)) : Follows(c, row, p, l)
  BY <1>2, <1>4, ScalarTaken, LeavesOffered
<1> QED BY <1>3, <1>5 DEF Right, p

\* So is what _count selects.
LEMMA FromCount ==
  ASSUME NamesApart, KeysApart, NEW c \in Configs, NEW m \in Models, NEW l \in Nat, NEW name,
         IsMeant(c, name, Place("count", m.name, "-"), l)
  PROVE  Right(c, name, Place("count", m.name, "-"), l)
<1> DEFINE p == Place("count", m.name, "-")
<1>1. p.kind = "count" /\ p.of = m.name
  BY DEF Place
<1>2. Takes(c, p) = Known(Names(Scalars(m)) \cup {"_all"})
  <2> HIDE DEF p
  <2>1. Takes(c, p) = Known(Names(Scalars(ModelOf(p.of))) \cup {"_all"})
    BY <1>1, Zenon DEF Takes
  <2> QED BY <1>1, <2>1, OfModel
<1>3. Defines(c, name, Leaves(Names(Scalars(m))) \cup Leaves({"_all"}))
  BY AggregateDefined DEF IsMeant, Place
<1> HIDE DEF p
<1>4. \A row \in Leaves(Names(Scalars(m))) : Follows(c, row, p, l)
  BY <1>2, ScalarKey, LeavesFollow
<1>5. Slot("_all", Place("scalar", "-", "-")) \in Takes(c, p)
  BY <1>2, HasSlot DEF Known
<1>6. \A key \in {"_all"} : \E slot \in Takes(c, p) : slot.key = Alias(key)
  BY <1>5, Renamed DEF Slot
<1>7. \A row \in Leaves({"_all"}) : Follows(c, row, p, l)
  BY <1>6, LeavesFollow
<1>8. \A row \in Leaves(Names(Scalars(m))) \cup Leaves({"_all"}) : Follows(c, row, p, l)
  BY <1>4, <1>7
<1> QED BY <1>3, <1>8 DEF Right, p

-----------------------------------------------------------------------------
(* Scalars.                                                                *)

\* The rows of the filter and of the update of a list.
LEMMA ListDefined ==
  ASSUME NamesApart, NEW c \in Configs, NEW type \in FilterTypes \cup Enums
  PROVE  /\ Defines(c, type ++ "ListFilter", Leaves({"equals", "has", "has_every", "has_some", "is_empty"}))
         /\ Defines(c, type ++ "ListUpdate", Leaves({"set"} \cup {k \in {"push"} : c.provider # "cockroachdb"}))
<1>1. ASSUME NEW name, NEW rows, Type(name, rows) \in ListTypes(c, type)
      PROVE  Defines(c, name, rows)
  <2>1. Type(name, rows) \in ScalarTypes(c)
    BY <1>1 DEF ScalarTypes
  <2> QED BY <2>1, ScalarDefined DEF Type
<1>2. Type(type ++ "ListFilter", Leaves({"equals", "has", "has_every", "has_some", "is_empty"})) \in ListTypes(c, type)
  BY DEF ListTypes
<1>3. Type(type ++ "ListUpdate", Leaves({"set"} \cup {k \in {"push"} : c.provider # "cockroachdb"})) \in ListTypes(c, type)
  BY DEF ListTypes
<1> QED BY <1>1, <1>2, <1>3

\* Keys that are taken once they are renamed have a slot.
LEMMA KnownKey ==
  ASSUME NEW c, NEW p, NEW keys, NEW taken, Known(taken) \subseteq Takes(c, p),
         \A key \in keys : Alias(key) \in taken
  PROVE  \A key \in keys : \E slot \in Takes(c, p) : slot.key = Alias(key)
<1> SUFFICES ASSUME NEW key \in keys
             PROVE  \E slot \in Takes(c, p) : slot.key = Alias(key)
  OBVIOUS
<1>1. Slot(Alias(key), Place("scalar", "-", "-")) \in Takes(c, p)
  BY HasSlot DEF Known
<1> QED BY <1>1 DEF Slot

\* The filter of a list offers what the engine takes there.
LEMMA FromList ==
  ASSUME NamesApart, NEW c \in Configs, NEW type \in FilterTypes \cup Enums, NEW l \in Nat, NEW name,
         IsMeant(c, name, Place("list", "-", type), l)
  PROVE  Right(c, name, Place("list", "-", type), l)
<1> DEFINE p == Place("list", "-", type)
<1> DEFINE keys == {"equals", "has", "has_every", "has_some", "is_empty"}
<1> DEFINE taken == {"equals", "has", "hasEvery", "hasSome", "isEmpty"}
<1>1. p.kind = "list"
  BY DEF Place
<1>2. Takes(c, p) = Known(taken)
  <2> HIDE DEF p
  <2> QED BY <1>1, Zenon DEF Takes
<1>3. Defines(c, name, Leaves(keys))
  BY ListDefined DEF IsMeant, Place
<1>4. \A key \in keys : Alias(key) \in taken
  BY OperatorsRenamed
<1> HIDE DEF p, keys, taken
<1>5. \A row \in Leaves(keys) : Follows(c, row, p, l)
  BY <1>2, <1>4, KnownKey, LeavesFollow
<1> QED BY <1>3, <1>5 DEF Right, p

\* So does the update of a list, on every provider.
LEMMA FromListUpdate ==
  ASSUME NamesApart, NEW c \in Configs, NEW type \in FilterTypes \cup Enums, NEW l \in Nat, NEW name,
         IsMeant(c, name, Place("listUpdate", "-", type), l)
  PROVE  Right(c, name, Place("listUpdate", "-", type), l)
<1> DEFINE p == Place("listUpdate", "-", type)
<1> DEFINE keys == {"set"} \cup {k \in {"push"} : c.provider # "cockroachdb"}
<1>1. p.kind = "listUpdate"
  BY DEF Place
<1>2. Takes(c, p) = Known(keys)
  <2> HIDE DEF p
  <2> QED BY <1>1, Zenon DEF Takes
<1>3. Defines(c, name, Leaves(keys))
  BY ListDefined DEF IsMeant, Place
<1>4. \A key \in keys : Alias(key) \in keys
  BY Renamed
<1> HIDE DEF p, keys
<1>5. \A row \in Leaves(keys) : Follows(c, row, p, l)
  BY <1>2, <1>4, KnownKey, LeavesFollow
<1> QED BY <1>3, <1>5 DEF Right, p

\* So does the update of a number.
LEMMA FromAtomic ==
  ASSUME NamesApart, NEW c \in Configs, NEW type \in Numbers, NEW l \in Nat, NEW name,
         IsMeant(c, name, Place("atomic", "-", type), l)
  PROVE  Right(c, name, Place("atomic", "-", type), l)
<1> DEFINE p == Place("atomic", "-", type)
<1> DEFINE keys == {"set", "divide", "multiply", "increment", "decrement"}
<1>1. p.kind = "atomic"
  BY DEF Place
<1>2. Takes(c, p) = Known(keys)
  <2> HIDE DEF p
  <2> QED BY <1>1, Zenon DEF Takes
<1>3. Defines(c, name, Leaves(keys))
  <2>1. AtomicInput(type) \in ScalarTypes(c)
    BY DEF ScalarTypes
  <2>2. Defines(c, "Atomic" ++ type ++ "Input", Leaves(keys))
    BY <2>1, ScalarDefined DEF AtomicInput, Type
  <2> QED BY <2>2 DEF IsMeant, Place
<1>4. \A key \in keys : Alias(key) \in keys
  BY Renamed
<1> HIDE DEF p, keys
<1>5. \A row \in Leaves(keys) : Follows(c, row, p, l)
  BY <1>2, <1>4, KnownKey, LeavesFollow
<1> QED BY <1>3, <1>5 DEF Right, p

\* A copy of a filter is meant for the place of its type.
LEMMA ScalarFilterEnters ==
  ASSUME NEW c \in Configs, NEW type \in FilterTypes, NEW l \in Nat,
         NEW name \in IF type = "BigInt" THEN IntFilters(c) ELSE FilterNames(c, type)
  PROVE  \A kind \in {"filter", "nestedFilter"} : Enters(c, name, Place(kind, "-", type), l)
<1>1. type \in FilterTypes \cup Enums
  OBVIOUS
<1> QED BY <1>1, ScalarEnters

\* The rows of the copies of the filters of scalars.
LEMMA FilterDefined ==
  ASSUME NamesApart, NEW c \in Configs
  PROVE  /\ \A type \in FilterTypes \ {"BigInt"} : \A n \in FilterCopies(c, type) :
              Defines(c, Copy(type ++ "Filter", n), FilterRows(c, type, n))
         /\ Defines(c, "BigInt" ++ "Filter", FilterRows(c, "Int", 0))
<1>1. ASSUME NEW name, NEW rows, Type(name, rows) \in ScalarTypes(c)
      PROVE  Defines(c, name, rows)
  BY <1>1, ScalarDefined DEF Type
<1>2. ASSUME NEW type \in FilterTypes \ {"BigInt"}, NEW n \in FilterCopies(c, type)
      PROVE  Type(Copy(type ++ "Filter", n), FilterRows(c, type, n)) \in ScalarTypes(c)
  BY DEF ScalarTypes
<1>3. Type("BigInt" ++ "Filter", FilterRows(c, "Int", 0)) \in ScalarTypes(c)
  BY DEF ScalarTypes
<1> QED BY <1>1, <1>2, <1>3

\* The operators of a type are, once renamed, those the engine takes for it.
LEMMA OperatorsTaken ==
  ASSUME NEW c \in Configs, NEW type \in FilterTypes
  PROVE  /\ \A key \in Operators(c, type) : Alias(key) \in ScalarOperators(c, type) \cup Modes(c, type) \cup {"not"}
         /\ "not" \notin ScalarOperators(c, type) \cup Modes(c, type)
<1>1. CASE type = "String"
  BY <1>1, OperatorsRenamed DEF Operators, ScalarOperators, Modes, Searches, Comparisons, Comparable
<1>2. CASE type \in {"Boolean", "Bytes", "Json"}
  BY <1>2, OperatorsRenamed DEF Operators, ScalarOperators, Modes, Searches
<1>3. CASE type \notin {"String", "Boolean", "Bytes", "Json"}
  BY <1>3, OperatorsRenamed DEF Operators, ScalarOperators, Modes, Searches, Comparisons, Comparable
<1> QED BY <1>1, <1>2, <1>3

\* What the engine takes in a filter: the operators, and `not` with a filter again.
LEMMA FilterTakes ==
  ASSUME NEW c \in Configs, NEW type \in FilterTypes, NEW kind \in {"filter", "nestedFilter"}
  PROVE  LET p == Place(kind, "-", type)
             again == Place("nestedFilter", "-", type)
         IN /\ Known(ScalarOperators(c, type)) \subseteq Takes(c, p)
            /\ kind = "filter" => Known(Modes(c, type)) \subseteq Takes(c, p)
            /\ kind = "nestedFilter" => Modes(c, type) \subseteq Overoffered(p)
            /\ OnlySlot(c, p, "not", again)
<1> DEFINE p == Place(kind, "-", type)
<1> DEFINE again == Place("nestedFilter", "-", type)
<1>1. p.kind = kind /\ p.key = type
  BY DEF Place
<1>2. kind = "nestedFilter" => p = again
  OBVIOUS
<1> HIDE DEF p, again
<1>3. kind = "filter" => Takes(c, p) = Known(ScalarOperators(c, type) \cup Modes(c, type)) \cup Into({"not"}, again)
  <2>1. kind = "filter" => Takes(c, p) = Known(ScalarOperators(c, p.key) \cup Modes(c, p.key))
                                         \cup Into({"not"}, Place("nestedFilter", "-", p.key))
    BY <1>1, Zenon DEF Takes
  <2> QED BY <1>1, <2>1 DEF again
<1>4. kind = "nestedFilter" => Takes(c, p) = Known(ScalarOperators(c, type)) \cup Into({"not"}, again)
  <2>1. kind = "nestedFilter" => Takes(c, p) = Known(ScalarOperators(c, p.key)) \cup Into({"not"}, p)
    BY <1>1, Zenon DEF Takes
  <2> QED BY <1>1, <1>2, <2>1
<1>5. kind = "nestedFilter" => Modes(c, type) \subseteq Overoffered(p)
  <2>1. kind = "nestedFilter" => Overoffered(p) = {k \in {"mode"} : p.key = "String"}
    BY <1>1, Zenon DEF Overoffered
  <2> QED BY <1>1, <2>1 DEF Modes
<1>6. OnlySlot(c, p, "not", again)
  <2>1. Slot("not", again) \in Takes(c, p)
    BY <1>3, <1>4, HasSlot
  <2>2. \A slot \in Takes(c, p) : slot.key = "not" => slot.place = again
    BY <1>3, <1>4, OperatorsTaken, SlotsOf DEF Known
  <2> QED BY <2>1, <2>2 DEF OnlySlot
<1>7. /\ Known(ScalarOperators(c, type)) \subseteq Takes(c, p)
      /\ kind = "filter" => Known(Modes(c, type)) \subseteq Takes(c, p)
  BY <1>3, <1>4 DEF Known, Into
<1> QED BY <1>5, <1>6, <1>7 DEF p, again

\* All rows of a copy of a filter follow, to the next copy as well.
LEMMA FilterFollows ==
  ASSUME NEW c \in Configs, NEW type \in FilterTypes, NEW kind \in {"filter", "nestedFilter"}, NEW l \in Nat, NEW base \in FilterTypes \ {"BigInt"},
         base = (IF type = "BigInt" THEN "Int" ELSE type), NEW n \in FilterCopies(c, base)
  PROVE  \A row \in FilterRows(c, base, n) : Follows(c, row, Place(kind, "-", type), l)
<1> DEFINE p == Place(kind, "-", type)
<1> DEFINE again == Place("nestedFilter", "-", type)
<1>1. /\ Known(ScalarOperators(c, type)) \subseteq Takes(c, p)
      /\ kind = "filter" => Known(Modes(c, type)) \subseteq Takes(c, p)
      /\ kind = "nestedFilter" => Modes(c, type) \subseteq Overoffered(p)
      /\ OnlySlot(c, p, "not", again)
  BY FilterTakes
<1>2. ScalarOperators(c, type) = ScalarOperators(c, base) /\ Modes(c, type) = Modes(c, base)
  BY DEF ScalarOperators, Modes
<1>3. ASSUME base # "Json", HasNext(c, n)
      PROVE  Enters(c, Copy(base ++ "Filter", Following(c, n)), again, l)
  <2>1. Following(c, n) \in FilterCopies(c, base)
    BY <1>3, NextCopy DEF FilterCopies
  <2>2. Copy(base ++ "Filter", Following(c, n)) \in IF type = "BigInt" THEN IntFilters(c) ELSE FilterNames(c, type)
    BY <2>1 DEF FilterNames, IntFilters
  <2>3. again = Place("nestedFilter", "-", type)
    OBVIOUS
  <2> HIDE DEF p, again
  <2>4. type \in FilterTypes \cup Enums
    OBVIOUS
  <2> QED BY <2>2, <2>3, <2>4, ScalarFilterEnters
<1> HIDE DEF p, again
<1>4. \A row \in Leaves(Operators(c, base)) : Follows(c, row, p, l)
  <2>1. \A key \in Operators(c, base) : (\E slot \in Takes(c, p) : slot.key = Alias(key)) \/ Alias(key) \in Overoffered(p)
    <3> SUFFICES ASSUME NEW key \in Operators(c, base)
                 PROVE  (\E slot \in Takes(c, p) : slot.key = Alias(key)) \/ Alias(key) \in Overoffered(p)
      OBVIOUS
    <3>1. Alias(key) \in ScalarOperators(c, type) \/ Alias(key) \in Modes(c, type) \/ Alias(key) = "not"
      BY <1>2, OperatorsTaken
    <3>2. Alias(key) \in ScalarOperators(c, type) => Slot(Alias(key), Place("scalar", "-", "-")) \in Takes(c, p)
      BY <1>1, HasSlot DEF Known
    <3>3. Alias(key) = "not" => Slot(Alias(key), again) \in Takes(c, p)
      BY <1>1 DEF OnlySlot
    <3>4. Alias(key) \in Modes(c, type)
            => Slot(Alias(key), Place("scalar", "-", "-")) \in Takes(c, p) \/ Alias(key) \in Overoffered(p)
      BY <1>1, HasSlot DEF Known
    <3> QED BY <3>1, <3>2, <3>3, <3>4 DEF Slot
  <2> QED BY <2>1, LeavesOffered
<1>5. CASE base # "Json" /\ HasNext(c, n)
  <2>1. \A key \in {"not"} : OnlySlot(c, p, Alias(key), again)
    BY <1>1, OperatorsRenamed
  <2>2. \A row \in To({"not"}, Copy(base ++ "Filter", Following(c, n))) : Follows(c, row, p, l)
    BY <1>3, <1>5, <2>1, ToFollows
  <2> QED BY <1>4, <1>5, <2>2 DEF FilterRows, Unrolled, p
<1>6. CASE ~(base # "Json" /\ HasNext(c, n))
  BY <1>4, <1>6 DEF FilterRows, Unrolled, p
<1> QED BY <1>5, <1>6

\* The filter of a scalar offers what the engine takes there.
LEMMA FromFilter ==
  ASSUME NamesApart, NEW c \in Configs, NEW type \in FilterTypes, NEW kind \in {"filter", "nestedFilter"}, NEW l \in Nat, NEW name,
         IsMeant(c, name, Place(kind, "-", type), l)
  PROVE  Right(c, name, Place(kind, "-", type), l)
<1> DEFINE p == Place(kind, "-", type)
<1> DEFINE base == IF type = "BigInt" THEN "Int" ELSE type
<1>1. base \in FilterTypes \ {"BigInt"}
  BY DEF FilterTypes, Numbers
<1>2. name \in IF type = "BigInt" THEN IntFilters(c) ELSE FilterNames(c, type)
  BY DEF IsMeant, Place
<1>3. ASSUME NEW n \in FilterCopies(c, base)
      PROVE  \A row \in FilterRows(c, base, n) : Follows(c, row, p, l)
  BY <1>1, FilterFollows
<1>4. \E n \in FilterCopies(c, base) : Defines(c, name, FilterRows(c, base, n))
  <2>1. CASE type = "BigInt" /\ name = "BigInt" ++ "Filter"
    <3>1. 0 \in FilterCopies(c, base)
      BY FirstCopy DEF FilterCopies
    <3>2. Defines(c, name, FilterRows(c, base, 0))
      BY <2>1, FilterDefined
    <3> QED BY <3>1, <3>2
  <2>2. CASE name \in FilterNames(c, base)
    <3>1. PICK n \in FilterCopies(c, base) : name = Copy(base ++ "Filter", n)
      BY <2>2 DEF FilterNames
    <3> QED BY <1>1, <3>1, FilterDefined
  <2> QED BY <1>2, <2>1, <2>2 DEF IntFilters
<1> HIDE DEF p, base
<1> QED BY <1>3, <1>4 DEF Right, p

-----------------------------------------------------------------------------
(* Filters of models.                                                      *)

\* The rows of the copies of a filter of a model.
LEMMA WhereDefined ==
  ASSUME NamesApart, NEW c \in Configs, NEW m \in Models, NEW n \in Copies(c)
  PROVE  Defines(c, Copy(m.name ++ "WhereInput", n),
                 {Row(f.name, WhereInputType(f)) : f \in Written(c, m.fields)}
                 \cup Unrolled(c, m.name ++ "WhereInput", n, {"AND", "OR", "NOT"}))
<1> DEFINE rows == {Row(f.name, WhereInputType(f)) : f \in Written(c, m.fields)}
                   \cup Unrolled(c, m.name ++ "WhereInput", n, {"AND", "OR", "NOT"})
<1>1. Type(Copy(m.name ++ "WhereInput", n), rows) \in WhereInput(c, m)
  BY DEF WhereInput
<1> HIDE DEF rows
<1>2. WhereInput(c, m) \subseteq ModelTypes(c, m)
  BY DEF ModelTypes
<1>3. Defines(c, Copy(m.name ++ "WhereInput", n), rows)
  BY <1>1, <1>2, ModelDefined DEF Type
<1> QED BY <1>3 DEF rows

\* The filter of a model offers what the engine takes there, in every copy.
LEMMA FromWhere ==
  ASSUME NamesApart, KeysApart, NEW c \in Configs, NEW m \in Models, NEW l \in Nat, NEW name,
         IsMeant(c, name, Place("where", m.name, "-"), l)
  PROVE  Right(c, name, Place("where", m.name, "-"), l)
<1> DEFINE p == Place("where", m.name, "-")
<1> DEFINE connectives == {"AND", "OR", "NOT"}
<1> DEFINE base == m.name ++ "WhereInput"
<1>1. p.kind = "where" /\ p.of = m.name
  BY DEF Place
<1>2. Takes(c, p) = {Slot(f.name, WherePlace(f)) : f \in m.fields} \cup Into(connectives, p)
  <2> HIDE DEF p
  <2>1. Takes(c, p) = {Slot(f.name, WherePlace(f)) : f \in ModelOf(p.of).fields} \cup Into({"AND", "OR", "NOT"}, p)
    BY <1>1, Zenon DEF Takes
  <2> QED BY <1>1, <2>1, OfModel
<1>3. PICK n \in Copies(c) : name = Copy(base, n)
  BY DEF IsMeant, Place
<1>4. \A k \in Copies(c) : Enters(c, Copy(base, k), p, l)
  BY WriteEnters
<1>5. \A f \in m.fields : f.name \notin connectives
  BY DEF KeysApart
<1>6. \A key \in connectives : Alias(key) = key
  BY Renamed
<1>7. Defines(c, name, {Row(f.name, WhereInputType(f)) : f \in Written(c, m.fields)} \cup Unrolled(c, base, n, connectives))
  BY <1>3, WhereDefined
<1> HIDE DEF p, connectives, base
<1>8. ASSUME NEW f \in m.fields
      PROVE  Follows(c, Row(f.name, WhereInputType(f)), p, l)
  <2>1. Row(f.name, WhereInputType(f)).key = f.name /\ Row(f.name, WhereInputType(f)).to = WhereInputType(f)
    BY DEF Row
  <2>2. Slot(f.name, WherePlace(f)) \in Takes(c, p)
    BY <1>2
  <2>3. ASSUME NEW slot \in Takes(c, p), slot.key = f.name
        PROVE  slot.place = WherePlace(f)
    <3>1. slot \notin Into(connectives, p)
      BY <1>5, <2>3, SlotsOf
    <3>2. PICK g \in m.fields : slot = Slot(g.name, WherePlace(g))
      BY <1>2, <3>1
    <3> QED BY <3>2, <2>3 DEF Slot, KeysApart
  <2>4. OnlySlot(c, p, f.name, WherePlace(f))
    BY <2>2, <2>3 DEF OnlySlot
  <2>5. Alias(f.name) = f.name
    BY FieldsRenamed
  <2>6. \A to \in WhereInputType(f) : Enters(c, to, WherePlace(f), l)
    BY WhereEnters
  <2> QED BY <2>1, <2>4, <2>5, <2>6, FollowsIts
<1>9. ASSUME HasNext(c, n)
      PROVE  \A row \in To(connectives, Copy(base, Following(c, n))) : Follows(c, row, p, l)
  <2>1. Enters(c, Copy(base, Following(c, n)), p, l)
    BY <1>4, <1>9, NextCopy
  <2>2. ASSUME NEW key \in connectives
        PROVE  OnlySlot(c, p, Alias(key), p)
    <3>1. Slot(key, p) \in Takes(c, p)
      BY <1>2, HasSlot
    <3>2. ASSUME NEW slot \in Takes(c, p), slot.key = key
          PROVE  slot.place = p
      <4>1. slot \notin {Slot(f.name, WherePlace(f)) : f \in m.fields}
        BY <1>5, <3>2 DEF Slot
      <4>2. slot \in Into(connectives, p)
        BY <1>2, <4>1
      <4> QED BY <4>2, SlotsOf
    <3> QED BY <1>6, <3>1, <3>2 DEF OnlySlot
  <2> QED BY <2>1, <2>2, ToFollows
<1> DEFINE fieldRows == {Row(f.name, WhereInputType(f)) : f \in Written(c, m.fields)}
<1>10. \A row \in fieldRows : Follows(c, row, p, l)
  BY <1>8 DEF Written
<1>11. \A row \in Unrolled(c, base, n, connectives) : Follows(c, row, p, l)
  BY <1>9 DEF Unrolled
<1>12. Defines(c, name, fieldRows \cup Unrolled(c, base, n, connectives))
  BY <1>7
<1> HIDE DEF fieldRows
<1>13. \A row \in fieldRows \cup Unrolled(c, base, n, connectives) : Follows(c, row, p, l)
  BY <1>10, <1>11
<1> QED BY <1>12, <1>13 DEF Right, p

-----------------------------------------------------------------------------
(* Includes, level by level.                                               *)

\* The rows of the types of includes, and of the arguments of relations.
LEMMA IncludeDefined ==
  ASSUME NamesApart, NEW c \in Configs, NEW m \in Models, NEW r \in Models, NEW n \in Copies(c)
  PROVE  /\ Defines(c, m.name ++ "Include", IF c.scalarsOnly THEN {} ELSE RelationRows(m, m, 0))
         /\ Defines(c, Copy(r.name ++ "IncludeFrom" ++ m.name, n),
                    IF HasNext(c, n) THEN RelationRows(m, r, Following(c, n)) ELSE {})
         /\ Defines(c, Copy(r.name ++ "ArgsFrom" ++ m.name, n), ArgsRows(c, r.name, n))
         /\ Defines(c, Copy("FindMany" ++ r.name ++ "ArgsFrom" ++ m.name, n), FindManyRows(c, r.name, n))
         /\ \A find \in {"FindMany", "FindFirst"} : Defines(c, find ++ m.name ++ "Args", FindManyRows(c, m.name, 0))
<1>1. ASSUME NEW name, NEW rows, Type(name, rows) \in ModelTypes(c, m)
      PROVE  Defines(c, name, rows)
  BY <1>1, ModelDefined DEF Type
<1>2. /\ Include(c, m) \subseteq ModelTypes(c, m) /\ FindArgs(c, m) \subseteq ModelTypes(c, m)
      /\ RelationalArgs(c, m, r) \subseteq ModelTypes(c, m)
  BY DEF ModelTypes
<1>3. Type(m.name ++ "Include", IF c.scalarsOnly THEN {} ELSE RelationRows(m, m, 0)) \in ModelTypes(c, m)
  BY <1>2 DEF Include
<1>4. Type(Copy(r.name ++ "IncludeFrom" ++ m.name, n),
           IF HasNext(c, n) THEN RelationRows(m, r, Following(c, n)) ELSE {}) \in ModelTypes(c, m)
  BY <1>2 DEF RelationalArgs
<1>5. Type(Copy(r.name ++ "ArgsFrom" ++ m.name, n), ArgsRows(c, r.name, n)) \in ModelTypes(c, m)
  BY <1>2 DEF RelationalArgs
<1>6. Type(Copy("FindMany" ++ r.name ++ "ArgsFrom" ++ m.name, n), FindManyRows(c, r.name, n)) \in ModelTypes(c, m)
  BY <1>2 DEF RelationalArgs
<1>7. \A find \in {"FindMany", "FindFirst"} : Type(find ++ m.name ++ "Args", FindManyRows(c, m.name, 0)) \in ModelTypes(c, m)
  BY <1>2 DEF FindArgs
<1>8. Defines(c, m.name ++ "Include", IF c.scalarsOnly THEN {} ELSE RelationRows(m, m, 0))
  BY <1>1, <1>3
<1>9. Defines(c, Copy(r.name ++ "IncludeFrom" ++ m.name, n), IF HasNext(c, n) THEN RelationRows(m, r, Following(c, n)) ELSE {})
  BY <1>1, <1>4
<1>10. Defines(c, Copy(r.name ++ "ArgsFrom" ++ m.name, n), ArgsRows(c, r.name, n))
  BY <1>1, <1>5
<1>11. Defines(c, Copy("FindMany" ++ r.name ++ "ArgsFrom" ++ m.name, n), FindManyRows(c, r.name, n))
  BY <1>1, <1>6
<1>12. \A find \in {"FindMany", "FindFirst"} : Defines(c, find ++ m.name ++ "Args", FindManyRows(c, m.name, 0))
  BY <1>1, <1>7
<1> QED BY <1>8, <1>9, <1>10, <1>11, <1>12

\* An include that is named by the arguments of a level is that of the next
\* level, and the arguments it names are those of that level.
LEMMA Levels ==
  ASSUME NEW c \in Configs, NEW l \in Nat
  PROVE  /\ AtLevel(c, 0, 1)
         /\ \A n \in Copies(c) : IncludeAtLevel(c, n, l) /\ HasNext(c, n) => AtLevel(c, Following(c, n), l)
         /\ \A n \in Copies(c) : AtLevel(c, n, l) /\ HasNext(c, n) => IncludeAtLevel(c, Following(c, n), l + 1)
<1>1. AtLevel(c, 0, 1)
  BY DepthAssumption DEF AtLevel, Copies
<1>2. ASSUME NEW n \in Copies(c), IncludeAtLevel(c, n, l), HasNext(c, n)
      PROVE  AtLevel(c, Following(c, n), l)
  BY <1>2, NextCopy, DepthAssumption DEF AtLevel, IncludeAtLevel, HasNext, Following
<1>3. ASSUME NEW n \in Copies(c), AtLevel(c, n, l), HasNext(c, n)
      PROVE  IncludeAtLevel(c, Following(c, n), l + 1)
  BY <1>3, NextCopy, DepthAssumption DEF AtLevel, IncludeAtLevel, HasNext, Following
<1> QED BY <1>1, <1>2, <1>3

\* The arguments that an include names for a relation are meant for it.
LEMMA IncludeEnters ==
  ASSUME NEW c \in Configs, NEW m \in Models, NEW r \in Models, NEW f \in Relations(r), NEW l \in Nat,
         NEW n \in Copies(c), AtLevel(c, n, l)
  PROVE  Enters(c, Copy(RelationalArgsType(f, m), n), IncludePlace(f), l)
<1>0. n \in Nat
  BY NextCopy
<1>1. PICK x \in Models : x.name = f.type
  BY RelatedModel DEF Relations
<1>2. CASE f.list
  <2>1. Copy(RelationalArgsType(f, m), n) = Copy("FindMany" ++ x.name ++ "ArgsFrom" ++ m.name, n)
    BY <1>1, <1>2 DEF RelationalArgsType
  <2>2. IncludePlace(f) = Place("findArgs", x.name, "-")
    BY <1>1, <1>2 DEF IncludePlace
  <2>3. Placed(c, Copy("FindMany" ++ x.name ++ "ArgsFrom" ++ m.name, n), Place("findArgs", x.name, "-"), l)
    BY <1>0, IncludeNames
  <2>4. Deeper(Place("findArgs", x.name, "-"), l) = l
    BY DEF Deeper, Place
  <2> QED BY <2>1, <2>2, <2>3, <2>4 DEF Enters
<1>3. CASE ~f.list
  <2>1. Copy(RelationalArgsType(f, m), n) = Copy(x.name ++ "ArgsFrom" ++ m.name, n)
    BY <1>1, <1>3 DEF RelationalArgsType
  <2>2. IncludePlace(f) = Place("args", x.name, "-")
    BY <1>1, <1>3 DEF IncludePlace
  <2>3. Placed(c, Copy(x.name ++ "ArgsFrom" ++ m.name, n), Place("args", x.name, "-"), l)
    BY <1>0, IncludeNames
  <2>4. Deeper(Place("args", x.name, "-"), l) = l
    BY DEF Deeper, Place
  <2> QED BY <2>1, <2>2, <2>3, <2>4 DEF Enters
<1> QED BY <1>2, <1>3

\* All rows of an include follow.
LEMMA RelationRowsFollow ==
  ASSUME KeysApart, NEW c \in Configs, NEW m \in Models, NEW r \in Models, NEW l \in Nat,
         NEW n \in Copies(c), AtLevel(c, n, l)
  PROVE  \A row \in RelationRows(m, r, n) : Follows(c, row, Place("include", r.name, "-"), l)
<1> DEFINE p == Place("include", r.name, "-")
<1>1. p.kind = "include" /\ p.of = r.name
  BY DEF Place
<1>2. Takes(c, p) = {Slot(f.name, IncludePlace(f)) : f \in Relations(r)}
  <2> HIDE DEF p
  <2>1. Takes(c, p) = {Slot(f.name, IncludePlace(f)) : f \in Relations(ModelOf(p.of))}
    BY <1>1, Zenon DEF Takes
  <2> QED BY <1>1, <2>1, OfModel
<1> HIDE DEF p
<1>3. ASSUME NEW f \in Relations(r)
      PROVE  Follows(c, Row(f.name, {Copy(RelationalArgsType(f, m), n)}), p, l)
  <2> DEFINE row == Row(f.name, {Copy(RelationalArgsType(f, m), n)})
  <2>1. row.key = f.name /\ row.to = {Copy(RelationalArgsType(f, m), n)}
    BY DEF Row
  <2>2. Slot(f.name, IncludePlace(f)) \in Takes(c, p)
    BY <1>2
  <2>3. ASSUME NEW slot \in Takes(c, p), slot.key = f.name
        PROVE  slot.place = IncludePlace(f)
    <3>1. PICK g \in Relations(r) : slot = Slot(g.name, IncludePlace(g))
      BY <1>2
    <3> QED BY <3>1, <2>3 DEF Slot, KeysApart, Relations
  <2>4. OnlySlot(c, p, f.name, IncludePlace(f))
    BY <2>2, <2>3 DEF OnlySlot
  <2>5. Alias(f.name) = f.name
    BY FieldsRenamed DEF Relations
  <2>6. Enters(c, Copy(RelationalArgsType(f, m), n), IncludePlace(f), l)
    BY IncludeEnters
  <2> HIDE DEF row
  <2>7. Follows(c, row, p, l)
    BY <2>1, <2>4, <2>5, <2>6, FollowsIts
  <2> QED BY <2>7 DEF row
<1> QED BY <1>3 DEF RelationRows, p

\* An include offers what the engine takes there, in every copy.
LEMMA FromInclude ==
  ASSUME NamesApart, KeysApart, NEW c \in Configs, NEW m \in Models, NEW l \in Nat, NEW name,
         IsMeant(c, name, Place("include", m.name, "-"), l)
  PROVE  Right(c, name, Place("include", m.name, "-"), l)
<1> DEFINE p == Place("include", m.name, "-")
<1>1. CASE l = 1 /\ name = m.name ++ "Include"
  <2> DEFINE rows == IF c.scalarsOnly THEN {} ELSE RelationRows(m, m, 0)
  <2>1. 0 \in Copies(c) /\ AtLevel(c, 0, 1)
    BY Levels, FirstCopy
  <2>2. Defines(c, name, rows)
    BY <1>1, <2>1, IncludeDefined
  <2>3. \A row \in RelationRows(m, m, 0) : Follows(c, row, p, l)
    BY <1>1, <2>1, RelationRowsFollow
  <2> HIDE DEF p
  <2>4. \A row \in rows : Follows(c, row, p, l)
    BY <2>3
  <2> HIDE DEF rows
  <2> QED BY <2>2, <2>4 DEF Right, p
<1>2. ASSUME NEW x \in Models, NEW n \in Copies(c), IncludeAtLevel(c, n, l),
             name = Copy(m.name ++ "IncludeFrom" ++ x.name, n)
      PROVE  Right(c, name, p, l)
  <2> DEFINE rows == IF HasNext(c, n) THEN RelationRows(x, m, Following(c, n)) ELSE {}
  <2>1. Defines(c, name, rows)
    BY <1>2, IncludeDefined
  <2>2. HasNext(c, n) => Following(c, n) \in Copies(c) /\ AtLevel(c, Following(c, n), l)
    BY <1>2, NextCopy, Levels
  <2>3. HasNext(c, n) => \A row \in RelationRows(x, m, Following(c, n)) : Follows(c, row, p, l)
    BY <2>2, RelationRowsFollow
  <2> HIDE DEF p
  <2>4. \A row \in rows : Follows(c, row, p, l)
    BY <2>3
  <2> HIDE DEF rows
  <2> QED BY <2>1, <2>4 DEF Right
<1>3. \/ l = 1 /\ name = m.name ++ "Include"
      \/ \E x \in Models, n \in Copies(c) : IncludeAtLevel(c, n, l) /\ name = Copy(m.name ++ "IncludeFrom" ++ x.name, n)
  BY DEF IsMeant, Place
<1> QED BY <1>1, <1>2, <1>3

\* The include of the arguments of a relation follows.
LEMMA ArgsRowsFollow ==
  ASSUME NEW c \in Configs, NEW m \in Models, NEW l \in Nat, NEW p, NEW n \in Copies(c), AtLevel(c, n, l),
         OnlySlot(c, p, "include", Place("include", m.name, "-"))
  PROVE  \A row \in ArgsRows(c, m.name, n) : Follows(c, row, p, l)
<1> DEFINE deeper == Place("include", m.name, "-")
<1> DEFINE next == NextInclude(c, m.name, n)
<1>1. CASE HasNext(c, n)
  <2>1. /\ Following(c, n) \in Copies(c) /\ Following(c, n) \in Nat
        /\ IncludeAtLevel(c, Following(c, n), l + 1)
    BY <1>1, NextCopy, Levels
  <2>2. l + 1 \in Nat
    OBVIOUS
  <2>3. Placed(c, Copy(m.name ++ "IncludeFrom" ++ m.name, Following(c, n)), deeper, l + 1)
    BY <2>1, <2>2, IncludeNames
  <2>4. Deeper(deeper, l) = l + 1
    BY DEF Deeper, Place
  <2>5. Enters(c, next, deeper, l)
    BY <2>3, <2>4 DEF Enters, NextInclude
  <2> HIDE DEF deeper, next
  <2>6. \A key \in {"include"} : OnlySlot(c, p, Alias(key), deeper)
    BY Renamed DEF deeper
  <2>7. \A row \in To({"include"}, next) : Follows(c, row, p, l)
    BY <2>5, <2>6, ToFollows
  <2>8. ArgsRows(c, m.name, n) = To({"include"}, next)
    BY <1>1 DEF ArgsRows, next
  <2> QED BY <2>7, <2>8
<1>2. CASE ~HasNext(c, n)
  BY <1>2 DEF ArgsRows
<1> QED BY <1>1, <1>2

\* The arguments of a relation offer what the engine takes there.
LEMMA FromArgs ==
  ASSUME NamesApart, KeysApart, NEW c \in Configs, NEW m \in Models, NEW l \in Nat, NEW name,
         IsMeant(c, name, Place("args", m.name, "-"), l)
  PROVE  Right(c, name, Place("args", m.name, "-"), l)
<1> DEFINE p == Place("args", m.name, "-")
<1>1. p.kind = "args" /\ p.of = m.name
  BY DEF Place
<1>2. Takes(c, p) = Into({"include"}, Place("include", m.name, "-"))
  <2> HIDE DEF p
  <2>1. Takes(c, p) = Into({"include"}, Place("include", p.of, "-"))
    BY <1>1, Zenon DEF Takes
  <2> QED BY <1>1, <2>1
<1>3. PICK x \in Models : \E n \in Copies(c) : AtLevel(c, n, l) /\ name = Copy(m.name ++ "ArgsFrom" ++ x.name, n)
  BY DEF IsMeant, Place
<1>4. PICK n \in Copies(c) : AtLevel(c, n, l) /\ name = Copy(m.name ++ "ArgsFrom" ++ x.name, n)
  BY <1>3
<1>5. Defines(c, name, ArgsRows(c, m.name, n))
  BY <1>4, IncludeDefined
<1> HIDE DEF p
<1>6. OnlySlot(c, p, "include", Place("include", m.name, "-"))
  BY <1>2, HasSlot, SlotsOf DEF OnlySlot
<1>7. \A row \in ArgsRows(c, m.name, n) : Follows(c, row, p, l)
  BY <1>4, <1>6, ArgsRowsFollow
<1> QED BY <1>5, <1>7 DEF Right, p

\* All rows of the arguments of a list of a relation follow.
LEMMA FindManyFollows ==
  ASSUME NEW c \in Configs, NEW m \in Models, NEW l \in Nat, NEW n \in Copies(c), AtLevel(c, n, l)
  PROVE  \A row \in FindManyRows(c, m.name, n) : Follows(c, row, Place("findArgs", m.name, "-"), l)
<1> DEFINE p == Place("findArgs", m.name, "-")
<1> DEFINE known == {"take", "skip", "distinct"}
<1>1. p.kind = "findArgs" /\ p.of = m.name
  BY DEF Place
<1>2. Takes(c, p) = Known(known)
                    \cup Into({"orderBy"}, Place("orderBy", m.name, "-")) \cup Into({"where"}, Place("where", m.name, "-"))
                    \cup Into({"cursor"}, Place("unique", m.name, "-")) \cup Into({"include"}, Place("include", m.name, "-"))
  <2> HIDE DEF p
  <2>1. Takes(c, p) = Known({"take", "skip", "distinct"})
                      \cup Into({"orderBy"}, Place("orderBy", p.of, "-")) \cup Into({"where"}, Place("where", p.of, "-"))
                      \cup Into({"cursor"}, Place("unique", p.of, "-")) \cup Into({"include"}, Place("include", p.of, "-"))
    BY <1>1, Zenon DEF Takes
  <2> QED BY <1>1, <2>1
<1> HIDE DEF p
<1>3. /\ OnlySlot(c, p, "orderBy", Place("orderBy", m.name, "-"))
      /\ OnlySlot(c, p, "where", Place("where", m.name, "-"))
      /\ OnlySlot(c, p, "cursor", Place("unique", m.name, "-"))
      /\ OnlySlot(c, p, "include", Place("include", m.name, "-"))
  <2>1. \A slot \in Takes(c, p) : \/ slot.key \in known
                                  \/ slot.key = "orderBy" /\ slot.place = Place("orderBy", m.name, "-")
                                  \/ slot.key = "where" /\ slot.place = Place("where", m.name, "-")
                                  \/ slot.key = "cursor" /\ slot.place = Place("unique", m.name, "-")
                                  \/ slot.key = "include" /\ slot.place = Place("include", m.name, "-")
    BY <1>2, SlotsOf DEF Known
  <2>2. {Slot("orderBy", Place("orderBy", m.name, "-")), Slot("where", Place("where", m.name, "-")),
         Slot("cursor", Place("unique", m.name, "-")), Slot("include", Place("include", m.name, "-"))} \subseteq Takes(c, p)
    BY <1>2, HasSlot
  <2> QED BY <2>1, <2>2 DEF OnlySlot
<1>4. \A row \in Leaves(known) : Follows(c, row, p, l)
  <2>1. \A key \in known : Alias(key) \in known
    BY Renamed
  <2> HIDE DEF known
  <2>2. Known(known) \subseteq Takes(c, p)
    BY <1>2
  <2> QED BY <2>1, <2>2, KnownKey, LeavesFollow
<1>5. \A row \in To({"order_by"}, m.name ++ "OrderByInput") : Follows(c, row, p, l)
  BY <1>3, ToFollows, Renamed, WriteEnters
<1>6. \A row \in To({"where"}, m.name ++ "WhereInput") : Follows(c, row, p, l)
  BY <1>3, ToFollows, Renamed, FirstWhereEnters
<1>7. \A row \in To({"cursor"}, m.name ++ "WhereUniqueInput") : Follows(c, row, p, l)
  BY <1>3, ToFollows, Renamed, WriteEnters
<1>8. \A row \in ArgsRows(c, m.name, n) : Follows(c, row, p, l)
  BY <1>3, ArgsRowsFollow
<1> QED BY <1>4, <1>5, <1>6, <1>7, <1>8 DEF FindManyRows, p

\* The arguments of a list of a relation offer what the engine takes there.
LEMMA FromFindArgs ==
  ASSUME NamesApart, KeysApart, NEW c \in Configs, NEW m \in Models, NEW l \in Nat, NEW name,
         IsMeant(c, name, Place("findArgs", m.name, "-"), l)
  PROVE  Right(c, name, Place("findArgs", m.name, "-"), l)
<1> DEFINE p == Place("findArgs", m.name, "-")
<1>1. ASSUME NEW n \in Copies(c), AtLevel(c, n, l), Defines(c, name, FindManyRows(c, m.name, n))
      PROVE  Right(c, name, p, l)
  <2>1. \A row \in FindManyRows(c, m.name, n) : Follows(c, row, p, l)
    BY <1>1, FindManyFollows
  <2> HIDE DEF p
  <2> QED BY <1>1, <2>1 DEF Right
<1>2. CASE l = 1 /\ name \in {"FindMany" ++ m.name ++ "Args", "FindFirst" ++ m.name ++ "Args"}
  <2>1. 0 \in Copies(c) /\ AtLevel(c, 0, l)
    BY <1>2, Levels, FirstCopy
  <2>2. \A find \in {"FindMany", "FindFirst"} : Defines(c, find ++ m.name ++ "Args", FindManyRows(c, m.name, 0))
    BY <2>1, IncludeDefined
  <2>3. Defines(c, name, FindManyRows(c, m.name, 0))
    BY <1>2, <2>2
  <2> QED BY <1>1, <2>1, <2>3
<1>3. ASSUME NEW x \in Models, NEW n \in Copies(c), AtLevel(c, n, l),
             name = Copy("FindMany" ++ m.name ++ "ArgsFrom" ++ x.name, n)
      PROVE  Right(c, name, p, l)
  <2>1. Defines(c, name, FindManyRows(c, m.name, n))
    BY <1>3, IncludeDefined
  <2> QED BY <1>1, <1>3, <2>1
<1>4. \/ l = 1 /\ name \in {"FindMany" ++ m.name ++ "Args", "FindFirst" ++ m.name ++ "Args"}
      \/ \E x \in Models, n \in Copies(c) : AtLevel(c, n, l) /\ name = Copy("FindMany" ++ m.name ++ "ArgsFrom" ++ x.name, n)
  BY DEF IsMeant, Place
<1> QED BY <1>2, <1>3, <1>4

-----------------------------------------------------------------------------
(* Groups.                                                                 *)

\* A type of groups is defined, and leads to types of groups.
Grouped(c, name) == \E rows : Defines(c, name, rows) /\ \A row \in rows : row.to \subseteq GroupNames(c)

\* The filters of a group and their copies are types of groups.
LEMMA FilterNamed ==
  ASSUME NEW c \in Configs, NEW type \in FilterTypes \ {"BigInt"}
  PROVE  /\ FilterNames(c, type) \subseteq GroupNames(c)
         /\ type ++ "Filter" \in GroupNames(c)
         /\ type ++ "WithAggregatesFilter" \in GroupNames(c)
<1>1. FilterNames(c, type) \subseteq GroupNames(c) /\ type ++ "WithAggregatesFilter" \in GroupNames(c)
  BY DEF GroupNames
<1>2. 0 \in FilterCopies(c, type) /\ Copy(type ++ "Filter", 0) = type ++ "Filter"
  BY FirstCopy DEF FilterCopies
<1>3. type ++ "Filter" \in FilterNames(c, type)
  BY <1>2 DEF FilterNames
<1> QED BY <1>1, <1>3

\* The rows of a filter lead to types of groups.
LEMMA FilterRowsGrouped ==
  ASSUME NEW c \in Configs, NEW type \in FilterTypes \ {"BigInt"}, NEW n \in FilterCopies(c, type)
  PROVE  \A row \in FilterRows(c, type, n) : row.to \subseteq GroupNames(c)
<1>1. \A row \in Leaves(Operators(c, type)) : row.to \subseteq GroupNames(c)
  BY LeafRows
<1>2. CASE type # "Json" /\ HasNext(c, n)
  <2>1. Following(c, n) \in FilterCopies(c, type)
    BY <1>2, NextCopy DEF FilterCopies
  <2>2. Copy(type ++ "Filter", Following(c, n)) \in GroupNames(c)
    BY <2>1, FilterNamed DEF FilterNames
  <2>3. \A row \in To({"not"}, Copy(type ++ "Filter", Following(c, n))) : row.to \subseteq GroupNames(c)
    BY <2>2, RowsTo
  <2> QED BY <1>1, <1>2, <2>3 DEF FilterRows, Unrolled
<1>3. CASE ~(type # "Json" /\ HasNext(c, n))
  BY <1>1, <1>3 DEF FilterRows, Unrolled
<1> QED BY <1>2, <1>3

\* So do those of a filter of an aggregate.
LEMMA AggregateRowsGrouped ==
  ASSUME NEW c \in Configs, NEW type \in FilterTypes \ {"BigInt"}
  PROVE  \A row \in AggregateRows(c, type) : row.to \subseteq GroupNames(c)
<1> DEFINE base == IF type = "Decimal" THEN "String" ELSE type
<1>1. base \in FilterTypes \ {"BigInt"} /\ "Int" \in FilterTypes \ {"BigInt"}
  BY DEF FilterTypes, Numbers
<1>2. 0 \in FilterCopies(c, base)
  BY FirstCopy DEF FilterCopies
<1>3. type ++ "Filter" \in GroupNames(c) /\ "Int" ++ "Filter" \in GroupNames(c)
  BY <1>1, FilterNamed
<1>4. \A row \in FilterRows(c, base, 0) : row.to \subseteq GroupNames(c)
  BY <1>1, <1>2, FilterRowsGrouped
<1>5. \A row \in To({"_max", "_min", "_sum", "_avg"}, type ++ "Filter") : row.to \subseteq GroupNames(c)
  BY <1>3, RowsTo
<1>6. \A row \in To({"_count"}, "Int" ++ "Filter") : row.to \subseteq GroupNames(c)
  BY <1>3, RowsTo
<1> QED BY <1>4, <1>5, <1>6 DEF AggregateRows

\* The filters of groups are defined, and lead to types of groups.
LEMMA FilterGrouped ==
  ASSUME NamesApart, NEW c \in Configs, NEW type \in FilterTypes \ {"BigInt"}
  PROVE  /\ \A name \in FilterNames(c, type) : Grouped(c, name)
         /\ Grouped(c, type ++ "WithAggregatesFilter")
         /\ Grouped(c, "BigInt" ++ "Filter") /\ Grouped(c, "BigInt" ++ "WithAggregatesFilter")
<1>1. ASSUME NEW name \in FilterNames(c, type)
      PROVE  Grouped(c, name)
  <2>1. PICK n \in FilterCopies(c, type) : name = Copy(type ++ "Filter", n)
    BY DEF FilterNames
  <2>2. Defines(c, name, FilterRows(c, type, n))
    BY <2>1, FilterDefined
  <2> QED BY <2>2, FilterRowsGrouped DEF Grouped
<1>2. "Int" \in FilterTypes \ {"BigInt"} /\ 0 \in FilterCopies(c, "Int")
  BY FirstCopy DEF FilterTypes, Numbers, FilterCopies
<1>3. Grouped(c, "BigInt" ++ "Filter")
  BY <1>2, FilterDefined, FilterRowsGrouped DEF Grouped
<1>4. ASSUME NEW name, NEW rows, Type(name, rows) \in ScalarTypes(c)
      PROVE  Defines(c, name, rows)
  BY <1>4, ScalarDefined DEF Type
<1>5. Grouped(c, type ++ "WithAggregatesFilter")
  <2>1. Type(type ++ "WithAggregatesFilter", AggregateRows(c, type)) \in ScalarTypes(c)
    BY DEF ScalarTypes
  <2>2. Defines(c, type ++ "WithAggregatesFilter", AggregateRows(c, type))
    BY <1>4, <2>1
  <2> QED BY <2>2, AggregateRowsGrouped DEF Grouped
<1>6. Grouped(c, "BigInt" ++ "WithAggregatesFilter")
  <2>1. Type("BigInt" ++ "WithAggregatesFilter", AggregateRows(c, "Int")) \in ScalarTypes(c)
    BY DEF ScalarTypes
  <2>2. Defines(c, "BigInt" ++ "WithAggregatesFilter", AggregateRows(c, "Int"))
    BY <1>4, <2>1
  <2> QED BY <1>2, <2>2, AggregateRowsGrouped DEF Grouped
<1> QED BY <1>1, <1>3, <1>5, <1>6

\* A type of the aggregates of a model is what its name means.
LEMMA AggregatesDefined ==
  ASSUME NamesApart, NEW c \in Configs, NEW m \in Models, NEW t \in AggregateTypes(c, m)
  PROVE  Defines(c, t.name, t.rows)
<1>1. AggregateTypes(c, m) \subseteq ModelTypes(c, m)
  BY DEF ModelTypes
<1> QED BY <1>1, ModelDefined

\* The filter of groups is defined, and leads to types of groups.
LEMMA GroupWhere ==
  ASSUME NamesApart, NEW c \in Configs, NEW m \in Models, NEW n \in Copies(c)
  PROVE  Grouped(c, Copy(m.name ++ "ScalarWhereWithAggregatesInput", n))
<1> DEFINE base == m.name ++ "ScalarWhereWithAggregatesInput"
<1> DEFINE fields == {Row(f.name, WhereAggregatesInputType(f)) : f \in Scalars(m)}
<1> DEFINE rows == fields \cup Unrolled(c, base, n, {"AND", "OR", "NOT"})
<1>1. Type(Copy(base, n), rows) \in AggregateTypes(c, m)
  BY DEF AggregateTypes
<1>2. \A k \in Copies(c) : Copy(base, k) \in GroupNames(c)
  BY DEF GroupNames
<1>3. ASSUME NEW f \in Scalars(m)
      PROVE  Row(f.name, WhereAggregatesInputType(f)).to \subseteq GroupNames(c)
  <2>1. Row(f.name, WhereAggregatesInputType(f)).to = WhereAggregatesInputType(f)
    BY DEF Row
  <2>2. f.type \in FilterTypes => f.type ++ "WithAggregatesFilter" \in GroupNames(c)
    BY FilterNamed DEF GroupNames
  <2> QED BY <2>1, <2>2 DEF WhereAggregatesInputType
<1>4. \A row \in fields : row.to \subseteq GroupNames(c)
  BY <1>3
<1> HIDE DEF base
<1>5. \A row \in Unrolled(c, base, n, {"AND", "OR", "NOT"}) : row.to \subseteq GroupNames(c)
  BY <1>2, NextCopy, RowsTo DEF Unrolled
<1> HIDE DEF fields
<1>6. \A row \in rows : row.to \subseteq GroupNames(c)
  BY <1>4, <1>5
<1> HIDE DEF rows
<1>7. Defines(c, Copy(base, n), rows)
  BY <1>1, AggregatesDefined DEF Type
<1> QED BY <1>6, <1>7 DEF Grouped, base

\* The outputs of groups are defined, and lead to types of groups.
LEMMA GroupOutputs ==
  ASSUME NamesApart, NEW c \in Configs, NEW m \in Models
  PROVE  /\ Grouped(c, m.name ++ "GroupByOutput")
         /\ \A kind \in {"Sum", "Avg", "Min", "Max", "Count"} : Grouped(c, m.name ++ kind ++ "AggregateOutput")
<1> DEFINE output(kind) == m.name ++ kind ++ "AggregateOutput"
<1> DEFINE scalars == Leaves(Names(Scalars(m)))
<1> DEFINE numbers == Leaves(Names({f \in Scalars(m) : f.type \in Numbers}))
<1> DEFINE counted == scalars \cup Leaves({"_all"})
<1> DEFINE rows == scalars \cup To({"_sum"}, output("Sum")) \cup To({"_avg"}, output("Avg"))
                   \cup To({"_min"}, output("Min")) \cup To({"_max"}, output("Max")) \cup To({"_count"}, output("Count"))
<1>1. /\ Type(m.name ++ "GroupByOutput", rows) \in AggregateTypes(c, m)
      /\ \A kind \in {"Avg", "Sum"} : Type(output(kind), numbers) \in AggregateTypes(c, m)
      /\ \A kind \in {"Min", "Max"} : Type(output(kind), scalars) \in AggregateTypes(c, m)
      /\ Type(output("Count"), counted) \in AggregateTypes(c, m)
  BY DEF AggregateTypes
<1>2. \A kind \in {"Sum", "Avg", "Min", "Max", "Count"} : output(kind) \in GroupNames(c)
  BY DEF GroupNames
<1>3. /\ \A row \in scalars : row.to \subseteq GroupNames(c)
      /\ \A row \in numbers : row.to \subseteq GroupNames(c)
      /\ \A row \in counted : row.to \subseteq GroupNames(c)
  BY LeafRows
<1> HIDE DEF output, scalars, numbers, counted
<1>4. \A row \in rows : row.to \subseteq GroupNames(c)
  BY <1>2, <1>3, RowsTo
<1> HIDE DEF rows
<1>5. ASSUME NEW name, NEW all, Type(name, all) \in AggregateTypes(c, m), \A row \in all : row.to \subseteq GroupNames(c)
      PROVE  Grouped(c, name)
  <2>1. Defines(c, name, all)
    BY <1>5, AggregatesDefined DEF Type
  <2> QED BY <1>5, <2>1 DEF Grouped
<1>6. Grouped(c, m.name ++ "GroupByOutput")
  BY <1>1, <1>4, <1>5
<1>7. \A kind \in {"Avg", "Sum"} : Grouped(c, output(kind))
  BY <1>1, <1>3, <1>5
<1>8. \A kind \in {"Min", "Max"} : Grouped(c, output(kind))
  BY <1>1, <1>3, <1>5
<1>9. Grouped(c, output("Count"))
  BY <1>1, <1>3, <1>5
<1> QED BY <1>6, <1>7, <1>8, <1>9 DEF output

\* Every type of groups is defined, and leads to types of groups.
LEMMA FromGroup ==
  ASSUME NamesApart, NEW c \in Configs, NEW name \in GroupNames(c)
  PROVE  Grouped(c, name)
<1>1. ASSUME NEW type \in FilterTypes \ {"BigInt"}, name \in FilterNames(c, type) \cup {type ++ "WithAggregatesFilter"}
      PROVE  Grouped(c, name)
  BY <1>1, FilterGrouped
<1>2. CASE name \in {"BigInt" ++ "Filter", "BigInt" ++ "WithAggregatesFilter"}
  <2>1. "Int" \in FilterTypes \ {"BigInt"}
    BY DEF FilterTypes, Numbers
  <2> QED BY <1>2, <2>1, FilterGrouped
<1>3. ASSUME NEW m \in Models, NEW n \in Copies(c), name = Copy(m.name ++ "ScalarWhereWithAggregatesInput", n)
      PROVE  Grouped(c, name)
  BY <1>3, GroupWhere
<1>4. ASSUME NEW m \in Models, name = m.name ++ "GroupByOutput"
      PROVE  Grouped(c, name)
  BY <1>4, GroupOutputs
<1>5. ASSUME NEW m \in Models, NEW kind \in {"Sum", "Avg", "Min", "Max", "Count"}, name = m.name ++ kind ++ "AggregateOutput"
      PROVE  Grouped(c, name)
  BY <1>5, GroupOutputs
<1>6. \/ name \in UNION {FilterNames(c, type) \cup {type ++ "WithAggregatesFilter"} : type \in FilterTypes \ {"BigInt"}}
      \/ name \in {"BigInt" ++ "Filter", "BigInt" ++ "WithAggregatesFilter"}
      \/ name \in UNION {{Copy(m.name ++ "ScalarWhereWithAggregatesInput", n) : n \in Copies(c)} : m \in Models}
      \/ name \in {m.name ++ "GroupByOutput" : m \in Models}
      \/ name \in UNION {{m.name ++ kind ++ "AggregateOutput" : kind \in {"Sum", "Avg", "Min", "Max", "Count"}} : m \in Models}
  BY DEF GroupNames
<1>7. CASE name \in UNION {FilterNames(c, type) \cup {type ++ "WithAggregatesFilter"} : type \in FilterTypes \ {"BigInt"}}
  BY <1>1, <1>7
<1>8. CASE name \in UNION {{Copy(m.name ++ "ScalarWhereWithAggregatesInput", n) : n \in Copies(c)} : m \in Models}
  BY <1>3, <1>8
<1>9. CASE name \in {m.name ++ "GroupByOutput" : m \in Models}
  BY <1>4, <1>9
<1>10. CASE name \in UNION {{m.name ++ kind ++ "AggregateOutput" : kind \in {"Sum", "Avg", "Min", "Max", "Count"}} : m \in Models}
  BY <1>5, <1>10
<1> QED BY <1>2, <1>6, <1>7, <1>8, <1>9, <1>10

-----------------------------------------------------------------------------
(* The walk.                                                               *)

\* At each place of a model, the type that is meant offers what the engine takes.
LEMMA FromModelPlace ==
  ASSUME NamesApart, KeysApart, NEW c \in Configs, NEW m \in Models, NEW kind \in ModelKinds, NEW l \in Nat, NEW name,
         IsMeant(c, name, Place(kind, m.name, "-"), l)
  PROVE  Right(c, name, Place(kind, m.name, "-"), l)
<1>1. CASE kind = "create"
  BY <1>1, FromCreate
<1>2. CASE kind = "createMany"
  BY <1>2, FromCreateMany
<1>3. CASE kind = "update"
  BY <1>3, FromUpdate
<1>4. CASE kind = "updateAll"
  BY <1>4, FromUpdateAll
<1>5. CASE kind = "upsert"
  BY <1>5, FromUpsert
<1>6. CASE kind = "unique"
  BY <1>6, FromUnique
<1>7. CASE kind = "orderBy"
  BY <1>7, FromOrderBy
<1>8. CASE kind = "is"
  BY <1>8, FromRelation
<1>9. CASE kind = "some"
  BY <1>9, FromListRelation
<1>10. CASE kind = "where"
  BY <1>10, FromWhere
<1>11. CASE kind = "include"
  BY <1>11, FromInclude
<1>12. CASE kind = "args"
  BY <1>12, FromArgs
<1>13. CASE kind = "findArgs"
  BY <1>13, FromFindArgs
<1>14. CASE kind = "count"
  BY <1>14, FromCount
<1>15. CASE kind = "numbers"
  BY <1>15, FromNumbers
<1>16. CASE kind = "fields"
  BY <1>16, FromFields
<1> QED BY <1>1, <1>2, <1>3, <1>4, <1>5, <1>6, <1>7, <1>8, <1>9, <1>10, <1>11, <1>12, <1>13, <1>14, <1>15, <1>16
       DEF ModelKinds

\* So it is below a relation.
LEMMA FromNestedPlace ==
  ASSUME NamesApart, KeysApart, NEW c \in Configs, NEW m \in Models, NEW kind \in NestedKinds, NEW back \in Backs(m),
         NEW l \in Nat, NEW name, IsMeant(c, name, Place(kind, m.name, back), l)
  PROVE  Right(c, name, Place(kind, m.name, back), l)
<1>1. CASE kind = "create"
  BY <1>1, FromCreate
<1>2. CASE kind = "connectOrCreate"
  BY <1>2, FromConnectOrCreate
<1>3. CASE kind = "createNested"
  BY <1>3, FromCreateNested
<1>4. CASE kind = "updateMany"
  BY <1>4, FromUpdateMany
<1>5. CASE kind = "updateOne"
  BY <1>5, FromUpdateOne
<1>6. CASE kind = "updateRequired"
  BY <1>6, FromUpdateRequired
<1> QED BY <1>1, <1>2, <1>3, <1>4, <1>5, <1>6 DEF NestedKinds

\* At each place that is compared, the type that is meant offers what the
\* engine takes, and leads to types that are meant for what comes next.
LEMMA FromPlace ==
  ASSUME NamesApart, KeysApart, NEW c \in Configs, NEW p, p # Anything, NEW l, NEW name, Placed(c, name, p, l)
  PROVE  Right(c, name, p, l)
<1>0. l \in Nat /\ WellPlaced(p) /\ IsMeant(c, name, p, l)
  BY DEF Placed
<1>1. ASSUME NEW m \in Models, NEW kind \in ModelKinds, p = Place(kind, m.name, "-")
      PROVE  Right(c, name, p, l)
  BY <1>0, <1>1, FromModelPlace
<1>2. ASSUME NEW m \in Models, NEW k \in m.keys, p = Place("compound", m.name, k.name)
      PROVE  Right(c, name, p, l)
  BY <1>0, <1>2, FromCompound
<1>3. CASE p = Place("relevance", "-", "-")
  BY <1>0, <1>3, FromRelevance
<1>4. ASSUME NEW type \in FilterTypes \cup Enums, NEW kind \in {"list", "listUpdate"}, p = Place(kind, "-", type)
      PROVE  Right(c, name, p, l)
  <2>1. CASE kind = "list"
    BY <1>0, <1>4, <2>1, FromList
  <2>2. CASE kind = "listUpdate"
    BY <1>0, <1>4, <2>2, FromListUpdate
  <2> QED BY <2>1, <2>2
<1>5. ASSUME NEW type \in FilterTypes, NEW kind \in {"filter", "nestedFilter"}, p = Place(kind, "-", type)
      PROVE  Right(c, name, p, l)
  BY <1>0, <1>5, FromFilter
<1>6. ASSUME NEW type \in Numbers, p = Place("atomic", "-", type)
      PROVE  Right(c, name, p, l)
  BY <1>0, <1>6, FromAtomic
<1>7. ASSUME NEW m \in Models, NEW kind \in NestedKinds, NEW back \in Backs(m), p = Place(kind, m.name, back)
      PROVE  Right(c, name, p, l)
  BY <1>0, <1>7, FromNestedPlace
<1> QED BY <1>0, <1>1, <1>2, <1>3, <1>4, <1>5, <1>6, <1>7 DEF WellPlaced

\* The invariant of the walk.
WalkInv == config \in Configs /\ Placed(config, at, means, level)

\* A type of groups may be at a place that is not compared.
LEMMA GroupPlaced ==
  ASSUME NEW c, NEW name \in GroupNames(c), NEW l \in Nat
  PROVE  Placed(c, name, Anything, l)
BY DEF Placed, WellPlaced, IsMeant, Anything, Place

\* The parameters of the methods have the types that are meant for them.
LEMMA WalkInvInit ==
  ASSUME WalkInit
  PROVE  WalkInv
<1>1. config \in Configs
  BY DEF WalkInit
<1>2. PICK m \in Models :
        \/ \E p \in Parameters : at = m.name ++ p[1] /\ means = Place(p[2], m.name, "-")
        \/ \E find \in {"FindMany", "FindFirst"} : at = find ++ m.name ++ "Args" /\ means = Place("findArgs", m.name, "-")
        \/ \E p \in Uncompared : at = m.name ++ p /\ means = Anything
  BY DEF WalkInit
<1>3. level = IF means.kind \in {"include", "findArgs"} THEN 1 ELSE 0
  BY DEF WalkInit
<1>4. ASSUME NEW p \in Parameters, at = m.name ++ p[1], means = Place(p[2], m.name, "-")
      PROVE  Placed(config, at, means, level)
  <2>1. means.kind = p[2]
    BY <1>4 DEF Place
  <2>2. CASE p = <<"Include", "include">>
    BY <1>1, <1>3, <1>4, <2>1, <2>2, IncludeNames
  <2>3. CASE p = <<"WhereInput", "where">>
    <3>1. level = 0 /\ 0 \in Copies(config) /\ Copy(m.name ++ "WhereInput", 0) = m.name ++ "WhereInput"
      BY <1>1, <1>3, <2>1, <2>3, FirstCopy
    <3> QED BY <1>1, <1>4, <2>3, <3>1, WriteNames
  <2>4. CASE p \notin {<<"Include", "include">>, <<"WhereInput", "where">>}
    <3>1. level = 0
      BY <1>3, <2>1, <2>4 DEF Parameters
    <3>2. CASE p \in {<<"CountAggregateInput", "count">>, <<"AvgAggregateInput", "numbers">>, <<"SumAggregateInput", "numbers">>,
                      <<"MinAggregateInput", "fields">>, <<"MaxAggregateInput", "fields">>}
      BY <1>1, <1>4, <3>1, <3>2, AggregateNames
    <3>3. CASE p \in {<<"CreateInput", "create">>, <<"CreateWithoutRelationsInput", "createMany">>, <<"UpdateInput", "update">>,
                      <<"UpdateManyMutationInput", "updateAll">>, <<"UpsertInput", "upsert">>,
                      <<"WhereUniqueInput", "unique">>, <<"OrderByInput", "orderBy">>}
      BY <1>1, <1>4, <3>1, <3>3, WriteNames
    <3> QED BY <2>4, <3>2, <3>3 DEF Parameters
  <2> QED BY <2>2, <2>3, <2>4
<1>5. ASSUME NEW find \in {"FindMany", "FindFirst"}, at = find ++ m.name ++ "Args", means = Place("findArgs", m.name, "-")
      PROVE  Placed(config, at, means, level)
  <2>1. level = 1
    BY <1>3, <1>5 DEF Place
  <2> QED BY <1>1, <1>5, <2>1, IncludeNames
<1>6. ASSUME NEW p \in Uncompared, at = m.name ++ p, means = Anything
      PROVE  Placed(config, at, means, level)
  <2>1. level = 0
    BY <1>3, <1>6 DEF Anything, Place
  <2>2. CASE p = "ScalarWhereWithAggregatesInput"
    <3>1. 0 \in Copies(config) /\ Copy(at, 0) = at
      BY <1>1, FirstCopy
    <3>2. Copy(m.name ++ "ScalarWhereWithAggregatesInput", 0) \in GroupNames(config)
      BY <3>1 DEF GroupNames
    <3>3. at \in GroupNames(config)
      BY <1>6, <2>2, <3>1, <3>2
    <3> QED BY <1>1, <1>6, <2>1, <3>3, GroupPlaced
  <2>3. CASE p = "GroupByOutput"
    <3>1. at \in GroupNames(config)
      BY <1>6, <2>3 DEF GroupNames
    <3> QED BY <1>1, <1>6, <2>1, <3>1, GroupPlaced
  <2> QED BY <2>2, <2>3 DEF Uncompared
<1> QED BY <1>1, <1>2, <1>4, <1>5, <1>6 DEF WalkInv

\* A value that is written under a key is of the type that is meant there.
LEMMA WalkInvNext ==
  ASSUME NamesApart, KeysApart, WalkInv, [WalkNext]_walkVars
  PROVE  WalkInv'
<1>1. CASE UNCHANGED walkVars
  BY <1>1 DEF WalkInv, walkVars
<1>2. CASE WalkNext
  <2>1. PICK row \in Offered(config, at) : \E to \in row.to : Write(row.key, to)
    BY <1>2 DEF WalkNext
  <2>2. PICK to \in row.to : Write(row.key, to)
    BY <2>1
  <2>3. config' = config /\ at' = to /\ config \in Configs /\ level \in Nat
    BY <2>2 DEF Write, WalkInv, Placed
  <2>4. level' = Deeper(means', level)
    BY <2>2 DEF Write, Deeper
  <2>5. CASE means = Anything
    <3>1. means' = Anything
      BY <2>2, <2>5 DEF Write
    <3>2. at \in GroupNames(config)
      BY <2>5 DEF WalkInv, Placed, IsMeant, Anything, Place
    <3>3. to \in GroupNames(config)
      BY <2>3, <3>2, FromGroup DEF Grouped, Defines
    <3>4. level' = level
      BY <2>4, <3>1 DEF Deeper, Anything, Place
    <3>5. Placed(config, to, Anything, level)
      BY <2>3, <3>3, GroupPlaced
    <3> QED BY <2>3, <3>1, <3>4, <3>5 DEF WalkInv
  <2>6. CASE means # Anything
    <3>1. PICK slot \in Takes(config, means) : slot.key = Alias(row.key) /\ means' = slot.place
      BY <2>2, <2>6 DEF Write
    <3>2. Right(config, at, means, level)
      BY <2>6, FromPlace DEF WalkInv
    <3>3. Follows(config, row, means, level)
      BY <2>1, <3>2 DEF Right, Defines
    <3>4. Enters(config, to, slot.place, level)
      BY <2>2, <3>1, <3>3 DEF Follows
    <3> QED BY <2>3, <2>4, <3>1, <3>4 DEF Enters, WalkInv
  <2> QED BY <2>5, <2>6
<1> QED BY <1>1, <1>2

\* The invariant implies the property.
LEMMA WalkIsTyped ==
  ASSUME NamesApart, KeysApart, WalkInv
  PROVE  TypedKeysAreTaken
<1>1. CASE means = Anything
  <2>1. at \in GroupNames(config)
    BY <1>1 DEF WalkInv, Placed, IsMeant, Anything, Place
  <2>2. Bound(config, at) # {}
    BY <2>1, FromGroup DEF WalkInv, Grouped, Defines
  <2> QED BY <1>1, <2>2 DEF TypedKeysAreTaken
<1>2. CASE means # Anything
  <2>1. Right(config, at, means, level)
    BY <1>2, FromPlace DEF WalkInv
  <2>2. Bound(config, at) # {} /\ \A row \in Offered(config, at) : Follows(config, row, means, level)
    BY <2>1 DEF Right, Defines
  <2>3. \A row \in Offered(config, at) : Alias(row.key) \in KeysTaken \cup Overoffered(means)
    BY <2>2 DEF Follows, KeysTaken
  <2> QED BY <2>2, <2>3 DEF TypedKeysAreTaken, KeysOffered
<1> QED BY <1>1, <1>2

\* For every schema whose names are apart: wherever a program gets to by
\* following the generated types, the type exists, and the engine takes each of
\* its keys but for the six families that Types names (TypedKeysAreTaken:
\* types.py.jinja, the macro `recursive`).
THEOREM WalkTyped ==
  ASSUME NamesApart, KeysApart
  PROVE  WalkSpec => []TypedKeysAreTaken
<1>1. WalkInit => WalkInv
  BY WalkInvInit
<1>2. WalkInv /\ [WalkNext]_walkVars => WalkInv'
  BY WalkInvNext
<1>3. WalkInv => TypedKeysAreTaken
  BY WalkIsTyped
<1> QED BY <1>1, <1>2, <1>3, PTL DEF WalkSpec

\* The include of a level has relations as long as the documentation says.
LEMMA HasNextByLevel ==
  ASSUME NEW c \in Configs, NEW l \in Nat, NEW n \in Copies(c), IncludeAtLevel(c, n, l)
  PROVE  HasNext(c, n) <=> (c.depth = -1 \/ l <= 1 + ((c.depth - 1) \div 2))
<1>1. CASE c.depth = -1
  BY <1>1 DEF HasNext
<1>2. CASE c.depth # -1
  <2>1. c.depth \in Int /\ c.depth > 1 /\ n = 2 * l - 3 /\ l >= 2
    BY <1>2, DepthAssumption DEF IncludeAtLevel
  <2> DEFINE d == c.depth
  <2> HIDE DEF d
  <2>2. d \in Int /\ n = 2 * l - 3
    BY <2>1 DEF d
  <2>3. (2 * l - 3 < d - 1) <=> l <= 1 + ((d - 1) \div 2)
    BY <2>2
  <2> QED BY <1>2, <2>2, <2>3 DEF HasNext, d
<1> QED BY <1>1, <1>2

\* The keys of an include are the relations of its model.
LEMMA RelationKeys ==
  ASSUME NEW m, NEW r, NEW n
  PROVE  {row.key : row \in RelationRows(m, r, n)} = Names(Relations(r))
<1> DEFINE row(f) == Row(f.name, {Copy(RelationalArgsType(f, m), n)})
<1>1. \A f \in Relations(r) : row(f).key = f.name
  BY DEF Row
<1>2. RelationRows(m, r, n) = {row(f) : f \in Relations(r)}
  BY DEF RelationRows
<1> HIDE DEF row
<1>3. \A key \in {x.key : x \in RelationRows(m, r, n)} : key \in Names(Relations(r))
  BY <1>1, <1>2 DEF Names
<1>4. \A key \in Names(Relations(r)) : key \in {x.key : x \in RelationRows(m, r, n)}
  BY <1>1, <1>2 DEF Names
<1> QED BY <1>3, <1>4

\* The invariant implies the documented depth of includes.
LEMMA WalkIsNested ==
  ASSUME NamesApart, WalkInv
  PROVE  IncludesNestAsDocumented
<1> SUFFICES ASSUME means.kind = "include"
             PROVE  {row.key : row \in Offered(config, at)} =
                      IF config.scalarsOnly /\ level = 1 THEN {}
                      ELSE IF config.depth = -1 \/ level <= 1 + ((config.depth - 1) \div 2) THEN Names(Relations(ModelOf(means.of)))
                      ELSE {}
  BY DEF IncludesNestAsDocumented
<1>1. config \in Configs /\ level \in Nat /\ WellPlaced(means) /\ IsMeant(config, at, means, level)
  BY DEF WalkInv, Placed
<1>2. PICK m \in Models : means = Place("include", m.name, "-")
  BY <1>1 DEF WellPlaced, Place, Anything, NestedKinds
<1>3. ModelOf(means.of) = m
  BY <1>2, OfModel DEF Place
<1>4. \/ level = 1 /\ at = m.name ++ "Include"
      \/ \E x \in Models, n \in Copies(config) :
           IncludeAtLevel(config, n, level) /\ at = Copy(m.name ++ "IncludeFrom" ++ x.name, n)
  BY <1>1, <1>2 DEF IsMeant, Place
<1>5. CASE level = 1 /\ at = m.name ++ "Include"
  <2>1. 0 \in Copies(config)
    BY <1>1, FirstCopy
  <2>2. Offered(config, at) = IF config.scalarsOnly THEN {} ELSE RelationRows(m, m, 0)
    BY <1>1, <1>5, <2>1, IncludeDefined DEF Defines
  <2>3. config.depth = -1 \/ 1 <= 1 + ((config.depth - 1) \div 2)
    <3>1. config.depth \in Int /\ (config.depth = -1 \/ config.depth > 1)
      BY <1>1, DepthAssumption
    <3> DEFINE d == config.depth
    <3> HIDE DEF d
    <3>2. d \in Int /\ d > 1 => 1 <= 1 + ((d - 1) \div 2)
      OBVIOUS
    <3> QED BY <3>1, <3>2 DEF d
  <2>4. {row.key : row \in RelationRows(m, m, 0)} = Names(Relations(m))
    BY RelationKeys
  <2> QED BY <1>3, <1>5, <2>2, <2>3, <2>4
<1>6. ASSUME NEW x \in Models, NEW n \in Copies(config), IncludeAtLevel(config, n, level),
             at = Copy(m.name ++ "IncludeFrom" ++ x.name, n)
      PROVE  {row.key : row \in Offered(config, at)} =
               IF config.scalarsOnly /\ level = 1 THEN {}
               ELSE IF config.depth = -1 \/ level <= 1 + ((config.depth - 1) \div 2) THEN Names(Relations(ModelOf(means.of)))
               ELSE {}
  <2>1. Offered(config, at) = IF HasNext(config, n) THEN RelationRows(x, m, Following(config, n)) ELSE {}
    BY <1>1, <1>6, IncludeDefined DEF Defines
  <2>2. level # 1
    BY <1>1, <1>6 DEF IncludeAtLevel
  <2>3. HasNext(config, n) <=> (config.depth = -1 \/ level <= 1 + ((config.depth - 1) \div 2))
    BY <1>1, <1>6, HasNextByLevel
  <2>4. {row.key : row \in RelationRows(x, m, Following(config, n))} = Names(Relations(m))
    BY RelationKeys
  <2> HIDE DEF Offered
  <2> QED BY <1>3, <2>1, <2>2, <2>3, <2>4
<1> QED BY <1>4, <1>5, <1>6

\* For every such schema and every recursive_type_depth, includes nest as deep
\* as the documentation says, and no deeper (IncludesNestAsDocumented).
THEOREM WalkNests ==
  ASSUME NamesApart, KeysApart
  PROVE  WalkSpec => []IncludesNestAsDocumented
<1>1. WalkInit => WalkInv
  BY WalkInvInit
<1>2. WalkInv /\ [WalkNext]_walkVars => WalkInv'
  BY WalkInvNext
<1>3. WalkInv => IncludesNestAsDocumented
  BY WalkIsNested
<1> QED BY <1>1, <1>2, <1>3, PTL DEF WalkSpec

-----------------------------------------------------------------------------
(* The options of a request.                                               *)

\* A validator moves the value under one key to another, and no other.
LEMMA RenameAt ==
  ASSUME NEW values, NEW option \in DOMAIN CamelCase, CamelCase[option] # option
  PROVE  /\ At(Rename(values, option), CamelCase[option]) = {}
         /\ At(Rename(values, option), option) = First(At(values, CamelCase[option]), At(values, option))
         /\ \A k : k # option /\ k # CamelCase[option] => At(Rename(values, option), k) = At(values, k)
<1> DEFINE camel == CamelCase[option]
           moved == Drop(Put(values, option, values[camel]), camel)
<1>1. CASE camel \notin DOMAIN values
  BY <1>1 DEF Rename, At, First
<1>2. CASE camel \in DOMAIN values
  <2>1. Rename(values, option) = moved
    BY <1>2 DEF Rename
  <2>2. DOMAIN moved = (DOMAIN values \cup {option}) \ {camel}
    BY DEF Put, Drop
  <2>3. \A k \in DOMAIN moved : moved[k] = IF k = option THEN values[camel] ELSE values[k]
    BY DEF Put, Drop
  <2>4. moved[option] = values[camel] /\ option \in DOMAIN moved
    BY <2>2, <2>3
  <2>5. At(moved, option) = {values[camel]} /\ At(values, camel) = {values[camel]}
    BY <2>4, <1>2 DEF At
  <2>6. At(moved, camel) = {}
    BY <2>2 DEF At
  <2>7. ASSUME NEW k, k # option, k # camel PROVE At(moved, k) = At(values, k)
    <3>1. k \in DOMAIN moved <=> k \in DOMAIN values
      BY <2>2, <2>7
    <3>2. k \in DOMAIN moved => moved[k] = values[k]
      BY <2>3, <2>7
    <3> QED BY <3>1, <3>2 DEF At
  <2>8. At(moved, option) = First(At(values, camel), At(values, option))
    BY <2>5 DEF First
  <2> QED BY <2>1, <2>6, <2>7, <2>8
<1> QED BY <1>1, <1>2

\* The environment comes before what is there.
LEMMA EnvAt ==
  ASSUME NEW r, NEW values, NEW k
  PROVE  At(ResolveEnv(r, values), k) = First(At(r.env, k), At(values, k))
<1> DEFINE resolved == ResolveEnv(r, values)
<1>1. DOMAIN resolved = DOMAIN values \cup DOMAIN r.env
  BY DEF ResolveEnv
<1>2. k \in DOMAIN resolved => resolved[k] = IF k \in DOMAIN r.env THEN r.env[k] ELSE values[k]
  BY DEF ResolveEnv
<1> QED BY <1>1, <1>2 DEF At, First

\* The options that a validator renames.
Moved == {"model_backend", "lazy_actions", "recursive_validation_models", "scalar_fields_only",
          "separate_model_files", "minimal_runtime"}

\* One of them, as RenameAt says of it.
Moves(before, after, camel, option) ==
  /\ At(after, camel) = {}
  /\ At(after, option) = First(At(before, camel), At(before, option))
  /\ \A k : k # option /\ k # camel => At(after, k) = At(before, k)

\* All the validators that rename, one after the other.
LEMMA TransformedAt ==
  ASSUME NEW values
  PROVE  /\ \A option \in Moved :
              /\ At(Transformed(values), CamelCase[option]) = {}
              /\ At(Transformed(values), option) = First(At(values, CamelCase[option]), At(values, option))
         /\ \A k : k \notin Moved /\ k \notin {CamelCase[option] : option \in Moved} =>
              At(Transformed(values), k) = At(values, k)
<1> DEFINE v1 == Rename(values, "model_backend")
           v2 == Rename(v1, "lazy_actions")
           v3 == Rename(v2, "recursive_validation_models")
           v4 == Rename(v3, "scalar_fields_only")
           v5 == Rename(v4, "separate_model_files")
           v6 == Rename(v5, "minimal_runtime")
<1>0. \A option \in Moved : \A before : Moves(before, Rename(before, option), CamelCase[option], option)
  <2>1. \A option \in Moved : option \in DOMAIN CamelCase /\ CamelCase[option] # option
    BY DEF Moved, CamelCase
  <2> QED BY <2>1, RenameAt DEF Moves
<1>1. Moves(values, v1, "modelBackend", "model_backend")
  BY <1>0 DEF CamelCase, Moved
<1>2. Moves(v1, v2, "lazyActions", "lazy_actions")
  BY <1>0 DEF CamelCase, Moved
<1>3. Moves(v2, v3, "recursiveValidationModels", "recursive_validation_models")
  BY <1>0 DEF CamelCase, Moved
<1>4. Moves(v3, v4, "scalarFieldsOnly", "scalar_fields_only")
  BY <1>0 DEF CamelCase, Moved
<1>5. Moves(v4, v5, "separateModelFiles", "separate_model_files")
  BY <1>0 DEF CamelCase, Moved
<1>6. Moves(v5, v6, "minimalRuntime", "minimal_runtime")
  BY <1>0 DEF CamelCase, Moved
<1>7. Transformed(values) = v6
  BY DEF Transformed
<1>8. /\ CamelCase["model_backend"] = "modelBackend" /\ CamelCase["lazy_actions"] = "lazyActions"
      /\ CamelCase["recursive_validation_models"] = "recursiveValidationModels"
      /\ CamelCase["scalar_fields_only"] = "scalarFieldsOnly"
      /\ CamelCase["separate_model_files"] = "separateModelFiles"
      /\ CamelCase["minimal_runtime"] = "minimalRuntime"
  BY DEF CamelCase
<1> HIDE DEF v1, v2, v3, v4, v5, v6
<1>9. ASSUME NEW option \in Moved
      PROVE  /\ At(v6, CamelCase[option]) = {}
             /\ At(v6, option) = First(At(values, CamelCase[option]), At(values, option))
  <2>1. CASE option = "model_backend"
    BY <2>1, <1>1, <1>2, <1>3, <1>4, <1>5, <1>6, <1>8 DEF Moves
  <2>2. CASE option = "lazy_actions"
    BY <2>2, <1>1, <1>2, <1>3, <1>4, <1>5, <1>6, <1>8 DEF Moves
  <2>3. CASE option = "recursive_validation_models"
    BY <2>3, <1>1, <1>2, <1>3, <1>4, <1>5, <1>6, <1>8 DEF Moves
  <2>4. CASE option = "scalar_fields_only"
    BY <2>4, <1>1, <1>2, <1>3, <1>4, <1>5, <1>6, <1>8 DEF Moves
  <2>5. CASE option = "separate_model_files"
    BY <2>5, <1>1, <1>2, <1>3, <1>4, <1>5, <1>6, <1>8 DEF Moves
  <2>6. CASE option = "minimal_runtime"
    BY <2>6, <1>1, <1>2, <1>3, <1>4, <1>5, <1>6, <1>8 DEF Moves
  <2> QED BY <2>1, <2>2, <2>3, <2>4, <2>5, <2>6 DEF Moved
<1>10. ASSUME NEW k, k \notin Moved, k \notin {CamelCase[option] : option \in Moved}
       PROVE  At(v6, k) = At(values, k)
  <2>1. /\ k # "model_backend" /\ k # "lazy_actions" /\ k # "recursive_validation_models"
        /\ k # "scalar_fields_only" /\ k # "separate_model_files" /\ k # "minimal_runtime"
    BY <1>10 DEF Moved
  <2>2. /\ k # "modelBackend" /\ k # "lazyActions" /\ k # "recursiveValidationModels"
        /\ k # "scalarFieldsOnly" /\ k # "separateModelFiles" /\ k # "minimalRuntime"
    BY <1>10, <1>8 DEF Moved
  <2> QED BY <2>1, <2>2, <1>1, <1>2, <1>3, <1>4, <1>5, <1>6 DEF Moves
<1> QED BY <1>7, <1>9, <1>10

\* transform_engine_type.
LEMMA EngineTypeAt ==
  ASSUME NEW r, IsRequest(r), NEW values
  PROVE  LET t == TransformEngineType(r, values)
         IN /\ At(t, "engine_type") =
                 First(r.engineVariable, First(At(values, "engineType"), At(values, "engine_type")))
            /\ r.engineVariable = {} => At(t, "engineType") = {}
            /\ \A k : k # "engine_type" /\ k # "engineType" => At(t, k) = At(values, k)
            /\ At(t, "engineType") = {}
<1> DEFINE chosen == First(r.engineVariable, At(values, "engineType"))
           t == TransformEngineType(r, values)
           moved == Put(Drop(values, "engineType"), "engine_type", The(chosen))
<1>1. CASE chosen = {}
  <2>1. t = values
    BY <1>1 DEF TransformEngineType
  <2>2. r.engineVariable = {} /\ At(values, "engineType") = {}
    BY <1>1 DEF First
  <2> QED BY <2>1, <2>2 DEF First
<1>2. CASE chosen # {}
  <2>1. t = moved
    BY <1>2 DEF TransformEngineType
  <2>2. chosen = {The(chosen)}
    <3>1. \E v : chosen = {v}
      BY <1>2 DEF First, At, IsRequest
    <3> QED BY <3>1 DEF The
  <2> DEFINE x == The(chosen)
  <2> HIDE DEF x
  <2>3. DOMAIN moved = (DOMAIN values \ {"engineType"}) \cup {"engine_type"}
    BY DEF Put, Drop
  <2>4. \A k \in DOMAIN moved : moved[k] = IF k = "engine_type" THEN The(chosen) ELSE values[k]
    BY DEF Put, Drop
  <2> HIDE DEF moved, chosen
  <2>5. At(moved, "engine_type") = {The(chosen)} /\ At(moved, "engineType") = {}
    BY <2>3, <2>4 DEF At
  <2>6. ASSUME NEW k, k # "engine_type", k # "engineType" PROVE At(moved, k) = At(values, k)
    <3>1. /\ k \in DOMAIN moved <=> k \in DOMAIN values
          /\ k \in DOMAIN moved => moved[k] = values[k]
      BY <2>3, <2>4, <2>6
    <3> QED BY <3>1 DEF At
  <2>7. chosen = First(r.engineVariable, First(At(values, "engineType"), At(values, "engine_type")))
    BY <1>2 DEF First, chosen
  <2> QED BY <2>1, <2>2, <2>5, <2>6, <2>7
<1> QED BY <1>1, <1>2

\* partial_type_generator_converter.
LEMMA ScriptAt ==
  ASSUME NEW r
  PROVE  /\ At(WithScript(r), "partial_type_generator") =
              First(At(r.env, "partial_type_generator"),
                First(At(r.block, "partial_type_generator"),
                      IF Found(r, DefaultScript.text) THEN {DefaultScript} ELSE {}))
         /\ \A k : k # "partial_type_generator" =>
              At(WithScript(r), k) = First(At(r.env, k), At(r.block, k))
<1> DEFINE values == ResolveEnv(r, r.block)
           script == "partial_type_generator"
           put    == Put(values, script, DefaultScript)
<1>1. \A k : At(values, k) = First(At(r.env, k), At(r.block, k))
  BY EnvAt
<1>2. script \in DOMAIN values <=> At(values, script) # {}
  BY DEF At
<1>3. WithScript(r) = IF script \notin DOMAIN values /\ Found(r, DefaultScript.text) THEN put ELSE values
  BY DEF WithScript
<1>4. /\ DOMAIN put = DOMAIN values \cup {script}
      /\ \A k \in DOMAIN put : put[k] = IF k = script THEN DefaultScript ELSE values[k]
  BY DEF Put
<1> HIDE DEF put, values
<1>5. At(put, script) = {DefaultScript} /\ \A k : k # script => At(put, k) = At(values, k)
  BY <1>4 DEF At
<1>6. CASE script \notin DOMAIN values /\ Found(r, DefaultScript.text)
  BY <1>1, <1>2, <1>3, <1>5, <1>6 DEF First
<1>7. CASE script \in DOMAIN values
  BY <1>1, <1>2, <1>3, <1>7 DEF First
<1>8. CASE script \notin DOMAIN values /\ ~Found(r, DefaultScript.text)
  BY <1>1, <1>2, <1>3, <1>8 DEF First
<1> QED BY <1>6, <1>7, <1>8

\* What each option comes to, under whatever key.
LEMMA PreparedAt ==
  ASSUME NEW r, IsRequest(r)
  PROVE  LET p == Prepared(r)
         IN /\ \A option \in Moved :
                 /\ At(p, CamelCase[option]) = {}
                 /\ At(p, option) = Sources(r, option)
            /\ At(p, "engine_type") = Sources(r, "engine_type")
            /\ At(p, "partial_type_generator") = Sources(r, "partial_type_generator")
            /\ At(p, "schemaMetadata") = At(r.block, "schemaMetadata")
            /\ At(p, "schema_metadata") = First(At(r.env, "schema_metadata"), At(r.block, "schema_metadata"))
            /\ \A option \in {"interface", "recursive_type_depth", "enable_experimental_decimal"} :
                 At(p, option) = Sources(r, option)
            /\ \A k : /\ k \notin OptionNames /\ k # "engineType"
                     /\ k \notin {CamelCase[option] : option \in Moved}
                     => At(p, k) = At(r.block, k)
<1> DEFINE w == WithScript(r)
           t == Transformed(w)
           e == TransformEngineType(r, t)
           p == Prepared(r)
<1>1. \A k : At(p, k) = First(At(r.env, k), At(e, k))
  BY EnvAt DEF Prepared
<1>2. /\ At(e, "engine_type") = First(r.engineVariable, First(At(t, "engineType"), At(t, "engine_type")))
      /\ \A k : k # "engine_type" /\ k # "engineType" => At(e, k) = At(t, k)
  BY EngineTypeAt
<1>3. /\ \A option \in Moved :
          /\ At(t, CamelCase[option]) = {}
          /\ At(t, option) = First(At(w, CamelCase[option]), At(w, option))
     /\ \A k : k \notin Moved /\ k \notin {CamelCase[option] : option \in Moved} => At(t, k) = At(w, k)
  BY TransformedAt
<1>4. /\ At(w, "partial_type_generator") =
          First(At(r.env, "partial_type_generator"),
            First(At(r.block, "partial_type_generator"),
                  IF Found(r, DefaultScript.text) THEN {DefaultScript} ELSE {}))
     /\ \A k : k # "partial_type_generator" => At(w, k) = First(At(r.env, k), At(r.block, k))
  BY ScriptAt
<1>5. \A k : k \notin OptionNames => At(r.env, k) = {}
  BY DEF IsRequest, At
<1>6. /\ DOMAIN CamelCase = Moved \cup {"schema_metadata"}
      /\ {CamelCase[option] : option \in Moved} =
           {"modelBackend", "lazyActions", "recursiveValidationModels", "scalarFieldsOnly",
            "separateModelFiles", "minimalRuntime"}
      /\ CamelCase["schema_metadata"] = "schemaMetadata"
  BY DEF CamelCase, Moved
<1>7. /\ OptionNames \cap {CamelCase[option] : option \in Moved} = {}
      /\ "engineType" \notin OptionNames /\ "schemaMetadata" \notin OptionNames
      /\ Moved \subseteq OptionNames
  BY <1>6 DEF OptionNames, Switches, Moved
<1>8. \A a, b, c : /\ First(a, First(b, First(a, c))) = First(a, First(b, c))
                   /\ First(a, First(a, c)) = First(a, c)
  BY DEF First
<1>9. \A a : First({}, a) = a
  BY DEF First
<1> HIDE DEF w, t, e, p
<1>10. ASSUME NEW option \in Moved
       PROVE  At(p, CamelCase[option]) = {} /\ At(p, option) = Sources(r, option)
  <2> DEFINE camel == CamelCase[option]
  <2>1. /\ camel \in {CamelCase[o] : o \in Moved} /\ camel \notin OptionNames
        /\ camel # "engine_type" /\ camel # "engineType" /\ camel # "partial_type_generator"
    BY <1>6, <1>7
  <2>2. option # "engine_type" /\ option # "engineType" /\ option # "partial_type_generator"
    BY DEF Moved
  <2>3. option \in DOMAIN CamelCase
    BY <1>6
  <2>4. Sources(r, option) = First(At(r.env, option), First(At(r.block, camel), At(r.block, option)))
    BY <2>2, <2>3 DEF Sources, InBlock
  <2> HIDE DEF camel
  <2>5. At(t, camel) = {} /\ At(t, option) = First(At(w, camel), At(w, option))
    BY <1>3 DEF camel
  <2>6. At(w, camel) = At(r.block, camel) /\ At(w, option) = First(At(r.env, option), At(r.block, option))
    BY <2>1, <2>2, <1>4, <1>5, <1>9
  <2>7. At(p, camel) = First({}, At(t, camel)) /\ At(p, option) = First(At(r.env, option), At(t, option))
    BY <2>1, <2>2, <1>1, <1>2, <1>5
  <2>8. At(p, camel) = {}
    BY <2>5, <2>7 DEF First
  <2>9. At(p, option) =
          First(At(r.env, option),
            First(At(r.block, camel), First(At(r.env, option), At(r.block, option))))
    BY <2>5, <2>6, <2>7
  <2> QED BY <2>4, <2>8, <2>9, <1>8 DEF camel
<1>11. ASSUME NEW k, k \notin Moved, k \notin {CamelCase[option] : option \in Moved},
              k # "engine_type", k # "engineType"
       PROVE  At(p, k) = First(At(r.env, k), At(w, k))
  BY <1>1, <1>2, <1>3, <1>11
<1>12. ASSUME NEW k, k \notin Moved, k \notin {CamelCase[option] : option \in Moved},
              k # "engine_type", k # "engineType", k # "partial_type_generator"
       PROVE  At(p, k) = First(At(r.env, k), At(r.block, k))
  BY <1>4, <1>8, <1>11, <1>12
<1>13. At(p, "engine_type") = Sources(r, "engine_type")
  <2>1. /\ "engine_type" \notin Moved /\ "engineType" \notin Moved
        /\ "engine_type" \notin {CamelCase[option] : option \in Moved}
        /\ "engineType" \notin {CamelCase[option] : option \in Moved}
    BY <1>6 DEF Moved
  <2>2. At(t, "engine_type") = First(At(r.env, "engine_type"), At(r.block, "engine_type"))
    BY <2>1, <1>3, <1>4
  <2>3. At(t, "engineType") = At(r.block, "engineType")
    BY <2>1, <1>3, <1>4, <1>5, <1>7, <1>9
  <2>4. Sources(r, "engine_type") =
          First(At(r.env, "engine_type"),
            First(r.engineVariable, First(At(r.block, "engineType"), At(r.block, "engine_type"))))
    BY DEF Sources
  <2>5. At(p, "engine_type") =
          First(At(r.env, "engine_type"),
            First(r.engineVariable,
              First(At(r.block, "engineType"), First(At(r.env, "engine_type"), At(r.block, "engine_type")))))
    BY <2>2, <2>3, <1>1, <1>2
  <2> QED BY <2>4, <2>5 DEF First
<1>14. At(p, "partial_type_generator") = Sources(r, "partial_type_generator")
  <2>1. /\ "partial_type_generator" \notin Moved
        /\ "partial_type_generator" \notin {CamelCase[option] : option \in Moved}
    BY <1>6 DEF Moved
  <2> QED BY <2>1, <1>4, <1>8, <1>11 DEF Sources
<1>15. At(p, "schemaMetadata") = At(r.block, "schemaMetadata")
  <2>1. "schemaMetadata" \notin Moved /\ "schemaMetadata" \notin {CamelCase[option] : option \in Moved}
    BY <1>6 DEF Moved
  <2> QED BY <2>1, <1>5, <1>7, <1>9, <1>12
<1>16. At(p, "schema_metadata") = First(At(r.env, "schema_metadata"), At(r.block, "schema_metadata"))
  <2>1. "schema_metadata" \notin Moved /\ "schema_metadata" \notin {CamelCase[option] : option \in Moved}
    BY <1>6 DEF Moved
  <2> QED BY <2>1, <1>12
<1>17. ASSUME NEW option \in {"interface", "recursive_type_depth", "enable_experimental_decimal"}
       PROVE  At(p, option) = Sources(r, option)
  <2>1. /\ option \notin Moved /\ option \notin {CamelCase[o] : o \in Moved}
        /\ option # "engine_type" /\ option # "engineType" /\ option # "partial_type_generator"
    BY <1>6 DEF Moved
  <2>2. option \notin DOMAIN CamelCase
    BY <1>6 DEF Moved
  <2>3. Sources(r, option) = First(At(r.env, option), First({}, At(r.block, option)))
    BY <2>1, <2>2 DEF Sources, InBlock
  <2> QED BY <2>1, <2>3, <1>9, <1>12
<1>18. ASSUME NEW k, k \notin OptionNames, k # "engineType", k \notin {CamelCase[option] : option \in Moved}
       PROVE  At(p, k) = At(r.block, k)
  <2>1. k \notin Moved /\ k # "engine_type" /\ k # "partial_type_generator"
    BY <1>7, <1>18 DEF OptionNames
  <2> QED BY <2>1, <1>5, <1>9, <1>12, <1>18
<1> QED BY <1>10, <1>13, <1>14, <1>15, <1>16, <1>17, <1>18 DEF p

\* A value that is found under a key is the one that is read there.
LEMMA AtKey ==
  ASSUME NEW values, NEW k
  PROVE  /\ k \in DOMAIN values <=> At(values, k) # {}
         /\ k \in DOMAIN values => The(At(values, k)) = values[k]
<1>1. k \in DOMAIN values => At(values, k) = {values[k]}
  BY DEF At
<1>2. k \notin DOMAIN values => At(values, k) = {}
  BY DEF At
<1>3. \A v : The({v}) = v
  BY DEF The
<1> QED BY <1>1, <1>2, <1>3

\* An accepted request has an option under one key, where its value is found.
LEMMA KeyAt ==
  ASSUME NEW r, IsRequest(r), ConfigAccepted(r), NEW option \in OptionNames
  PROVE  At(Prepared(r), Key(Prepared(r), option)) = Sources(r, option)
<1> DEFINE p == Prepared(r)
<1>1. DOMAIN CamelCase = Moved \cup {"schema_metadata"} /\ CamelCase["schema_metadata"] = "schemaMetadata"
  BY DEF CamelCase, Moved
<1>2. DOMAIN p \subseteq {Key(p, o) : o \in OptionNames}
  BY DEF ConfigAccepted
<1>3. CASE option \in Moved
  <2>1. CamelCase[option] \notin DOMAIN p
    BY <1>3, PreparedAt, AtKey
  <2>2. Key(p, option) = option
    BY <2>1 DEF Key
  <2> QED BY <1>3, <2>2, PreparedAt
<1>4. CASE option = "schema_metadata"
  <2>1. Sources(r, option) =
          First(At(r.env, option), First(At(r.block, "schemaMetadata"), At(r.block, option)))
    BY <1>1, <1>4 DEF Sources, InBlock
  <2>2. /\ At(p, "schemaMetadata") = At(r.block, "schemaMetadata")
        /\ At(p, option) = First(At(r.env, option), At(r.block, option))
    BY <1>4, PreparedAt
  <2>3. CASE "schemaMetadata" \in DOMAIN p
    <3>1. Key(p, option) = "schemaMetadata"
      BY <1>1, <1>4, <2>3 DEF Key
    <3>2. option \notin DOMAIN p
      <4>1. SUFFICES ASSUME NEW o \in OptionNames, Key(p, o) = option PROVE FALSE
        BY <1>2
      <4>2. CASE o = option
        BY <4>1, <4>2, <3>1, <1>4
      <4>3. CASE o # option
        <5>1. o \in DOMAIN CamelCase => o \in Moved
          BY <4>3, <1>1, <1>4
        <5>2. o \in Moved => CamelCase[o] # option
          BY <1>4 DEF Moved, CamelCase
        <5> QED BY <4>1, <4>3, <5>1, <5>2 DEF Key
      <4> QED BY <4>2, <4>3
    <3>3. At(p, option) = {} /\ At(p, "schemaMetadata") # {}
      BY <2>3, <3>2, AtKey
    <3>4. At(r.env, option) = {}
      BY <2>2, <3>3 DEF First
    <3> QED BY <2>1, <2>2, <3>1, <3>3, <3>4 DEF First
  <2>4. CASE "schemaMetadata" \notin DOMAIN p
    <3>1. Key(p, option) = option
      BY <1>1, <1>4, <2>4 DEF Key
    <3>2. At(r.block, "schemaMetadata") = {}
      BY <2>2, <2>4, AtKey
    <3> QED BY <2>1, <2>2, <3>1, <3>2 DEF First
  <2> QED BY <2>3, <2>4
<1>5. CASE option \notin DOMAIN CamelCase
  <2>1. Key(p, option) = option
    BY <1>5 DEF Key
  <2>2. option \in {"interface", "recursive_type_depth", "enable_experimental_decimal", "engine_type",
                    "partial_type_generator"}
    BY <1>1, <1>5 DEF OptionNames, Switches, Moved
  <2> QED BY <2>1, <2>2, PreparedAt
<1> QED BY <1>1, <1>3, <1>4, <1>5

\* Whatever the block holds and whatever variables are set, the nine validators
\* give each option the value that the precedence says.
THEOREM ConfigIsAsDocumented ==
  ASSUME NEW r, IsRequest(r)
  PROVE  ConfigAsDocumented(r)
<1> DEFINE p == Prepared(r)
<1>1. SUFFICES ASSUME Accepted(r), NEW option \in OptionNames
               PROVE  Config(r)[option] = Documented(r, option)
  BY DEF ConfigAsDocumented
<1> DEFINE key == Key(p, option)
<1>2. At(p, key) = Sources(r, option)
  BY <1>1, KeyAt DEF Accepted
<1>3. Config(r)[option] = IF key \in DOMAIN p THEN Read(option, p[key]) ELSE Default(option)
  BY DEF Config
<1>4. Documented(r, option) =
        IF Sources(r, option) = {} THEN Default(option) ELSE Read(option, The(Sources(r, option)))
  BY DEF Documented
<1>5. CASE key \in DOMAIN p
  <2>1. At(p, key) # {} /\ The(At(p, key)) = p[key]
    BY AtKey, <1>5
  <2>2. Sources(r, option) # {}
    BY <1>2, <2>1
  <2>3. The(Sources(r, option)) = p[key]
    BY <1>2, <2>1
  <2> QED BY <2>2, <2>3, <1>3, <1>4, <1>5
<1>6. CASE key \notin DOMAIN p
  <2>1. At(p, key) = {}
    BY AtKey, <1>6
  <2>2. Sources(r, option) = {}
    BY <1>2, <2>1
  <2> QED BY <2>2, <1>3, <1>4, <1>6
<1> QED BY <1>5, <1>6

\* A block with a key that is none of the options' is refused.
THEOREM NoKeyIsIgnored ==
  ASSUME NEW r, IsRequest(r)
  PROVE  NoKeyIgnored(r)
<1> DEFINE p == Prepared(r)
           Camels == {CamelCase[option] : option \in DOMAIN CamelCase}
<1>1. SUFFICES ASSUME Accepted(r), NEW k \in DOMAIN r.block,
                      k \notin OptionNames \cup Camels \cup {"engineType"}
               PROVE  FALSE
  BY DEF NoKeyIgnored
<1>2. k \notin {CamelCase[option] : option \in Moved}
  BY <1>1 DEF Moved, CamelCase
<1>3. At(p, k) = At(r.block, k)
  BY <1>1, <1>2, PreparedAt
<1>4. k \in DOMAIN p
  BY <1>3, AtKey
<1>5. PICK o \in OptionNames : k = Key(p, o)
  BY <1>1, <1>4 DEF Accepted, ConfigAccepted
<1> QED BY <1>1, <1>5 DEF Key

\* A backend that no template knows comes from the variable alone, and only
\* where the schema names another.
THEOREM BackendIsKnown ==
  ASSUME NEW r, IsRequest(r)
  PROVE  BackendsAreKnown(r)
<1> DEFINE w == WithScript(r)
           checked == Rename(w, "model_backend")
           known == {"pydantic", "slim", "msgspec"}
<1>1. SUFFICES ASSUME Accepted(r), ~("model_backend" \in DOMAIN r.env /\ "modelBackend" \in DOMAIN r.block)
               PROVE  Config(r)["model_backend"] \in known
  BY DEF BackendsAreKnown
<1>2. "model_backend" \in DOMAIN CamelCase /\ CamelCase["model_backend"] = "modelBackend"
  BY DEF CamelCase
<1>3. At(checked, "model_backend") = First(At(w, "modelBackend"), At(w, "model_backend"))
  BY <1>2, RenameAt
<1>4. /\ At(w, "modelBackend") = First(At(r.env, "modelBackend"), At(r.block, "modelBackend"))
      /\ At(w, "model_backend") = First(At(r.env, "model_backend"), At(r.block, "model_backend"))
  BY ScriptAt
<1>5. At(r.env, "modelBackend") = {}
  BY DEF IsRequest, At, OptionNames, Switches
<1>6. Sources(r, "model_backend") =
        First(At(r.env, "model_backend"), First(At(r.block, "modelBackend"), At(r.block, "model_backend")))
  BY <1>2 DEF Sources, InBlock
<1>7. At(r.env, "model_backend") = {} \/ At(r.block, "modelBackend") = {}
  BY <1>1 DEF At
<1>8. At(checked, "model_backend") = Sources(r, "model_backend")
  BY <1>3, <1>4, <1>5, <1>6, <1>7 DEF First
<1>9. Config(r)["model_backend"] = Documented(r, "model_backend")
  BY <1>1, ConfigIsAsDocumented DEF ConfigAsDocumented, OptionNames
<1>10. BackendKnown(checked)
  BY <1>1 DEF Accepted, ConfigAccepted
<1> HIDE DEF checked
<1>11. CASE Sources(r, "model_backend") = {}
  BY <1>9, <1>11 DEF Documented, Default, Switches
<1>12. CASE Sources(r, "model_backend") # {}
  <2>1. "model_backend" \in DOMAIN checked /\ The(Sources(r, "model_backend")) = checked["model_backend"]
    BY <1>8, <1>12, AtKey
  <2>2. The(Sources(r, "model_backend")).text \in known
    BY <2>1, <1>10 DEF BackendKnown
  <2>3. \A v : Read("model_backend", v) = v.text
    BY DEF Read, Switches
  <2> QED BY <1>9, <1>12, <2>2, <2>3 DEF Documented
<1> QED BY <1>11, <1>12

=============================================================================
