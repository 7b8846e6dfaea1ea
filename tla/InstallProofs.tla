---------------------------- MODULE InstallProofs ---------------------------
(***************************************************************************)
(* Theorems about Install, for every set of commands, versions and         *)
(* machines, and both settings of the cache directory.                     *)
(***************************************************************************)
EXTENDS Install, SequenceTheorems, TLAPS

Where == INSTANCE Locations

LEMMA DirIsDir == ASSUME TypeOK, NEW c \in Commands PROVE Dir(c) \in Dirs
  BY DEF TypeOK, Dir, CacheDir, Dirs

LEMMA TypeStep == TypeOK /\ [Next]_vars => TypeOK'
<1> USE InstallAssumption, DirIsDir
    DEF TypeOK, Label, Stages, diskVars, histVars, At, Goto
<1> SUFFICES ASSUME TypeOK, [Next]_vars PROVE TypeOK'
  OBVIOUS
<1>1. ASSUME NEW c \in Commands, Command(c) PROVE TypeOK'
  <2>1. CASE Begin(c)
    BY <2>1 DEF Begin
  <2>2. CASE Clear(c)
    <3>1. CASE exists[Dir(c)]
      BY <2>2, <3>1 DEF Clear
    <3>2. CASE ~exists[Dir(c)]
      BY <2>2, <3>2 DEF Clear
    <3> QED
      BY <3>1, <3>2
  <2>3. CASE Look(c) \/ Finish(c)
    BY <2>3 DEF Look, Finish
  <2>4. CASE MakeDir(c)
    BY <2>4 DEF MakeDir
  <2>5. CASE WritePackage(c)
    BY <2>5 DEF WritePackage
  <2>6. CASE Check(c) \/ Recheck(c)
    BY <2>6 DEF Check, Recheck, Targets
  <2> QED
    BY <1>1, <2>1, <2>2, <2>3, <2>4, <2>5, <2>6 DEF Command
<1>2. ASSUME NEW c \in Commands, Nodeenv(c) PROVE TypeOK'
  BY <1>2 DEF Nodeenv, ResolveElsewhere, ResolveNodeenv, StartNodeenv, NodeenvWrites,
              NodeenvDone, NodeenvFails, Failed, Ready
<1>3. ASSUME NEW c \in Commands, Npm(c) PROVE TypeOK'
  <2>1. CASE NpmWrites(c)
    BY <2>1 DEF NpmWrites
  <2>2. CASE NpmDone(c)
    BY <2>2 DEF NpmDone
  <2>3. CASE NpmFails(c) \/ Unlink(c)
    BY <2>3 DEF NpmFails, Unlink
  <2> QED
    BY <1>3, <2>1, <2>2, <2>3 DEF Npm
<1>4. ASSUME NEW c \in Commands, Interrupt(c) \/ Upgrade(c) PROVE TypeOK'
  BY <1>4 DEF Interrupt, Upgrade
<1>5. CASE UNCHANGED vars
  BY <1>5 DEF vars
<1> QED
  BY <1>1, <1>2, <1>3, <1>4, <1>5 DEF Next

(* What ensure_cached and the Node strategies share keeps its types, and a *)
(* directory that is gone holds no file.                                   *)
THEOREM TypeCorrect == Spec => []TypeOK
<1>1. Init => TypeOK
  BY InstallAssumption DEF Init, TypeOK, Targets, Label, Stages
<1> QED
  BY <1>1, TypeStep, PTL DEF Spec

-----------------------------------------------------------------------------
(* A command that has written package.json has it until it ends or is      *)
(* disturbed, and that is why npm installs where the entrypoint is.        *)
Past(c) == pc[c] \in {"check", "resolve", "nodeenv", "npm", "unlink", "recheck", "node"}
HasPackage == ~disturbed => \A c \in Commands : Past(c) => package[Dir(c)]
Whole == TypeOK /\ HasPackage /\ EntrypointMeansInstalled

LEMMA WholeStep == Whole /\ [Next]_vars => Whole'
<1> SUFFICES ASSUME Whole, [Next]_vars PROVE HasPackage' /\ EntrypointMeansInstalled'
  BY TypeStep DEF Whole
<1> USE InstallAssumption, DirIsDir
    DEF Whole, TypeOK, HasPackage, EntrypointMeansInstalled, Past, diskVars, histVars,
        At, Goto
<1>0. ASSUME UNCHANGED version PROVE \A c \in Commands : Dir(c)' = Dir(c)
  BY <1>0 DEF Dir, CacheDir
<1>1. ASSUME NEW c \in Commands, Command(c) PROVE HasPackage' /\ EntrypointMeansInstalled'
  <2>0. \A o \in Commands : Dir(o)' = Dir(o)
    BY <1>0, <1>1 DEF Command, Begin, Clear, Look, MakeDir, WritePackage, Check, Recheck, Finish
  <2>1. CASE Begin(c)
    BY <2>0, <2>1 DEF Begin
  <2>2. CASE Clear(c)
    <3>1. CASE exists[Dir(c)]
      BY <2>0, <2>2, <3>1 DEF Clear
    <3>2. CASE ~exists[Dir(c)]
      BY <2>0, <2>2, <3>2 DEF Clear
    <3> QED
      BY <3>1, <3>2
  <2>3. CASE Look(c) \/ Finish(c)
    BY <2>0, <2>3 DEF Look, Finish
  <2>4. CASE MakeDir(c)
    BY <2>0, <2>4 DEF MakeDir
  <2>5. CASE WritePackage(c)
    BY <2>0, <2>5 DEF WritePackage
  <2>6. CASE Check(c) \/ Recheck(c)
    BY <2>0, <2>6 DEF Check, Recheck
  <2> QED
    BY <1>1, <2>1, <2>2, <2>3, <2>4, <2>5, <2>6 DEF Command
<1>2. ASSUME NEW c \in Commands, Nodeenv(c) PROVE HasPackage' /\ EntrypointMeansInstalled'
  <2>0. \A o \in Commands : Dir(o)' = Dir(o)
    BY <1>0, <1>2 DEF Nodeenv, ResolveElsewhere, ResolveNodeenv, StartNodeenv,
                      NodeenvWrites, NodeenvDone, NodeenvFails
  <2> QED
    BY <1>2, <2>0 DEF Nodeenv, ResolveElsewhere, ResolveNodeenv, StartNodeenv,
                NodeenvWrites, NodeenvDone, NodeenvFails, Failed, Ready
<1>3. ASSUME NEW c \in Commands, Npm(c) PROVE HasPackage' /\ EntrypointMeansInstalled'
  <2>0. \A o \in Commands : Dir(o)' = Dir(o)
    BY <1>0, <1>3 DEF Npm, NpmWrites, NpmDone, NpmFails, Unlink
  <2>1. CASE NpmWrites(c)
    BY <2>0, <2>1 DEF NpmWrites
  <2>2. CASE NpmDone(c)
    BY <2>0, <2>2 DEF NpmDone
  <2>3. CASE NpmFails(c) \/ Unlink(c)
    BY <2>0, <2>3 DEF NpmFails, Unlink
  <2> QED
    BY <1>3, <2>1, <2>2, <2>3 DEF Npm
<1>4. ASSUME NEW c \in Commands, Interrupt(c) \/ Upgrade(c)
      PROVE HasPackage' /\ EntrypointMeansInstalled'
  <2>1. \A o \in Commands : pc[o] # "idle" => Dir(o)' = Dir(o)
    BY <1>4 DEF Interrupt, Upgrade, Dir, CacheDir
  <2> QED
    BY <1>4, <2>1 DEF Interrupt, Upgrade
<1>5. CASE UNCHANGED vars
  BY <1>5, <1>0 DEF vars
<1> QED
  BY <1>1, <1>2, <1>3, <1>4, <1>5 DEF Next

LEMMA WholeInit == Init => Whole
  BY TypeCorrect, InstallAssumption
     DEF Init, Whole, TypeOK, HasPackage, EntrypointMeansInstalled, Past, Targets, Label, Stages

(* ensure_cached: however many commands overlap and whatever fails, an     *)
(* entrypoint nobody is installing belongs to a whole installation.        *)
THEOREM EntrypointCorrect == Spec => []EntrypointMeansInstalled
<1>1. Whole => EntrypointMeansInstalled
  BY DEF Whole
<1> QED
  BY <1>1, WholeInit, WholeStep, PTL DEF Spec

-----------------------------------------------------------------------------
(* Commands that do not overlap: what one of them has looked at is still   *)
(* so when it runs Node.                                                   *)
ForNode(c) == At(c, "node") \/ (pc[c] \in {"resolve", "nodeenv"} /\ target[c] = "node")
OneAtATime ==
  alone => \A c, o \in Commands : c = o \/ At(c, "idle") \/ At(o, "idle")
OwnVersion == ~Custom => \A d \in Versions : installed[d] \in {d, NoVersion}
Looked ==
  alone /\ ~disturbed => \A c \in Commands : ForNode(c) => installed[Dir(c)] # NoVersion
Ran == OneAtATime /\ OwnVersion /\ Looked

LEMMA RanStep == Whole /\ Ran /\ [Next]_vars => Ran'
<1> SUFFICES ASSUME Whole, Ran, [Next]_vars PROVE Ran'
  OBVIOUS
<1> USE InstallAssumption, DirIsDir
    DEF Whole, Ran, TypeOK, OneAtATime, OwnVersion, Looked, ForNode, diskVars, histVars,
        At, Goto
<1>0. ASSUME UNCHANGED version PROVE \A c \in Commands : Dir(c)' = Dir(c)
  BY <1>0 DEF Dir, CacheDir
<1>a. ~Custom => \A c \in Commands : Dir(c) = version[c]
  BY DEF Dir, CacheDir
<1>1. ASSUME NEW c \in Commands, Command(c) PROVE Ran'
  <2>0. \A o \in Commands : Dir(o)' = Dir(o)
    BY <1>0, <1>1 DEF Command, Begin, Clear, Look, MakeDir, WritePackage, Check, Recheck, Finish
  <2>1. CASE Begin(c)
    <3>1. OwnVersion'
      BY <2>1 DEF Begin
    <3>2. OneAtATime' /\ Looked'
      <4>1. alone' => \A o \in Commands \ {c} : pc'[o] = "idle"
        BY <2>1 DEF Begin
      <4>2. pc'[c] \in {"clear", "look"}
        BY <2>1 DEF Begin
      <4> QED
        BY <2>0, <2>1, <4>1, <4>2 DEF Begin
    <3> QED
      BY <3>1, <3>2
  <2>2. CASE Clear(c)
    <3>1. CASE exists[Dir(c)]
      <4>1. OneAtATime'
        BY <2>2, <3>1 DEF Clear
      <4>2. OwnVersion'
        <5>1. \A d \in Dirs : installed'[d] \in {installed[d], NoVersion}
          BY <2>2, <3>1 DEF Clear
        <5> QED
          BY <5>1 DEF Dirs
      <4>3. Looked'
        BY <2>0, <2>2, <3>1 DEF Clear
      <4> QED
        BY <4>1, <4>2, <4>3
    <3>2. CASE ~exists[Dir(c)]
      BY <2>0, <2>2, <3>2 DEF Clear
    <3> QED
      BY <3>1, <3>2
  <2>3. CASE Look(c) \/ Finish(c)
    BY <2>0, <2>3 DEF Look, Finish
  <2>4. CASE MakeDir(c) \/ WritePackage(c)
    BY <2>0, <2>4 DEF MakeDir, WritePackage
  <2>5. CASE Check(c)
    BY <2>0, <2>5 DEF Check
  <2>6. CASE Recheck(c)
    <3>1. alone /\ ~disturbed /\ entrypoint[Dir(c)] => installed[Dir(c)] # NoVersion
      BY <2>6 DEF Recheck, EntrypointMeansInstalled
    <3> QED
      BY <2>0, <2>6, <3>1 DEF Recheck
  <2> QED
    BY <1>1, <2>1, <2>2, <2>3, <2>4, <2>5, <2>6 DEF Command
<1>2. ASSUME NEW c \in Commands, Nodeenv(c) PROVE Ran'
  <2>0. \A o \in Commands : Dir(o)' = Dir(o)
    BY <1>0, <1>2 DEF Nodeenv, ResolveElsewhere, ResolveNodeenv, StartNodeenv,
                      NodeenvWrites, NodeenvDone, NodeenvFails
  <2>a. ASSUME UNCHANGED <<diskVars, version, target, histVars>>,
               pc[c] # "idle", NEW l \in Label, pc' = [pc EXCEPT ![c] = l],
               target[c] = "npm" => l # "node",
               l \in {"npm", "unlink", "node", "idle"}, l = "node" => ForNode(c)
        PROVE Ran'
    <3>1. OneAtATime' /\ OwnVersion'
      BY <2>a
    <3>2. Looked'
      BY <2>0, <2>a
    <3> QED
      BY <3>1, <3>2
  <2>1. CASE ResolveElsewhere(c)
    BY <2>a, <2>1 DEF ResolveElsewhere, Ready, Label, Targets
  <2>4. CASE ResolveNodeenv(c)
    BY <2>a, <2>4 DEF ResolveNodeenv, Failed, Ready, Label, Targets
  <2>2. CASE StartNodeenv(c) \/ NodeenvWrites(c)
    BY <2>0, <2>2 DEF StartNodeenv, NodeenvWrites
  <2>3. CASE NodeenvDone(c) \/ NodeenvFails(c)
    BY <2>a, <2>3 DEF NodeenvDone, NodeenvFails, Failed, Ready, Label, Targets
  <2> QED
    BY <1>2, <2>1, <2>2, <2>3, <2>4 DEF Nodeenv
<1>3. ASSUME NEW c \in Commands, Npm(c) PROVE Ran'
  <2>0. \A o \in Commands : Dir(o)' = Dir(o)
    BY <1>0, <1>3 DEF Npm, NpmWrites, NpmDone, NpmFails, Unlink
  <2>1. CASE NpmWrites(c) \/ NpmFails(c)
    BY <2>0, <2>1 DEF NpmWrites, NpmFails
  <2>2. CASE NpmDone(c)
    BY <1>a, <2>0, <2>2 DEF NpmDone
  <2>3. CASE Unlink(c)
    BY <2>0, <2>3 DEF Unlink
  <2> QED
    BY <1>3, <2>1, <2>2, <2>3 DEF Npm
<1>4. ASSUME NEW c \in Commands, Interrupt(c) \/ Upgrade(c) PROVE Ran'
  <2>1. \A o \in Commands : pc[o] # "idle" => Dir(o)' = Dir(o)
    BY <1>4 DEF Interrupt, Upgrade, Dir, CacheDir
  <2> QED
    BY <1>4, <2>1 DEF Interrupt, Upgrade
<1>5. CASE UNCHANGED vars
  BY <1>5, <1>0 DEF vars
<1> QED
  BY <1>1, <1>2, <1>3, <1>4, <1>5 DEF Next

(* One command after the other: each runs the CLI of the version it is     *)
(* configured for, as Config.from_base gives each version a directory.     *)
THEOREM RunsItsVersionCorrect == Spec => []RunsItsVersion
<1>1. Init => Ran
  BY DEF Init, Ran, OneAtATime, OwnVersion, Looked, ForNode, At, Dirs
<1>2. Whole /\ Ran => RunsItsVersion
  BY DirIsDir DEF Whole, Ran, OwnVersion, Looked, ForNode, RunsItsVersion, TypeOK, Dir, CacheDir
<1> QED
  BY <1>1, <1>2, WholeInit, WholeStep, RanStep, PTL DEF Spec

-----------------------------------------------------------------------------
(* What Install takes for granted of the configuration, and what is started *)
(* from it.                                                                *)

(* At most one value is under a key.                                       *)
LEMMA AtIsOne == ASSUME NEW f, NEW key PROVE \A v, w \in Where!At(f, key) : v = w
  BY Zenon DEF Where!At

LEMMA SettingIsOne ==
  ASSUME NEW m, NEW setting \in {"home_dir", "prisma_version", "expected_engine_version"}
  PROVE  \E v : Where!Setting(m, setting) = {v}
<1> DEFINE given == Where!At(m.env, Where!Variable[setting])
           configured == Where!At(m.toml, setting)
<1>1. \E v : Where!BuiltIn(m, setting) = {v}
  BY DEF Where!BuiltIn
<1>2. CASE given # {}
  <2>1. PICK v \in given : TRUE
    BY <1>2
  <2>2. given = {v}
    BY <2>1, AtIsOne
  <2> QED
    BY <1>2, <2>2 DEF Where!Setting, Where!First
<1>3. CASE given = {} /\ configured # {}
  <2>1. PICK v \in configured : TRUE
    BY <1>3
  <2>2. configured = {v}
    BY <2>1, AtIsOne
  <2> QED
    BY <1>3, <2>2 DEF Where!Setting, Where!First
<1> QED
  BY <1>1, <1>2, <1>3 DEF Where!Setting, Where!First

LEMMA TheOfOne == ASSUME NEW v PROVE Where!The({v}) = v
  BY DEF Where!The

(* A path that five names were added to says which names, and to what.     *)
\* Concatenation, under a name that the provers leave alone.
Below(p, s) == p \o s
Names5(a, b, c, d, e) == <<a, b, c, d, e>>

LEMMA SameEnds ==
  ASSUME NEW S, NEW p \in Seq(S), NEW q \in Seq(S), NEW s \in Seq(S), NEW t \in Seq(S),
         Len(s) = Len(t), Below(p, s) = Below(q, t)
  PROVE  p = q /\ s = t
<1>1. Len(p) \in Nat /\ Len(q) \in Nat /\ Len(s) \in Nat
  BY LenProperties
<1>2. Len(Below(p, s)) = Len(p) + Len(s) /\ Len(Below(q, t)) = Len(q) + Len(t)
  BY ConcatProperties DEF Below
<1>3. Len(p) = Len(q)
  BY <1>1, <1>2
<1>4. ASSUME NEW i \in 1..Len(p) PROVE p[i] = q[i]
  <2>1. i \in 1..(Len(p) + Len(s)) /\ i <= Len(p)
    BY <1>1
  <2>2. Below(p, s)[i] = p[i] /\ Below(q, t)[i] = q[i]
    BY <2>1, <1>3, ConcatProperties DEF Below
  <2> QED
    BY <2>2
<1>5. ASSUME NEW i \in 1..Len(s) PROVE s[i] = t[i]
  <2> DEFINE j == Len(p) + i
  <2>1. j \in 1..(Len(p) + Len(s)) /\ ~(j <= Len(p)) /\ j - Len(p) = i
    BY <1>1
  <2> HIDE DEF j
  <2>2. Below(p, s)[j] = s[i]
    BY <2>1, ConcatProperties DEF Below
  <2>3. Below(q, t)[j] = t[i]
    BY <2>1, <1>3, ConcatProperties DEF Below
  <2> QED
    BY <2>2, <2>3
<1> QED
  BY <1>3, <1>4, <1>5, SeqEqual

LEMMA FiveNames ==
  ASSUME NEW N, NEW a \in N, NEW b \in N, NEW c \in N, NEW d \in N, NEW e \in N
  PROVE  /\ Names5(a, b, c, d, e) \in Seq(N)
         /\ Len(Names5(a, b, c, d, e)) = 5
         /\ Names5(a, b, c, d, e)[4] = d /\ Names5(a, b, c, d, e)[5] = e
  BY DEF Names5

LEMMA SettingsAre ==
  ASSUME NEW Names, NEW m, Where!SettingsTyped(m, Names)
  PROVE  /\ Where!The(Where!Setting(m, "home_dir")) \in Seq(Names)
         /\ Where!The(Where!Setting(m, "prisma_version")) \in Names
         /\ Where!The(Where!Setting(m, "expected_engine_version")) \in Names
<1>1. PICK home : Where!Setting(m, "home_dir") = {home}
  BY SettingIsOne
<1>2. PICK cli : Where!Setting(m, "prisma_version") = {cli}
  BY SettingIsOne
<1>3. PICK engine : Where!Setting(m, "expected_engine_version") = {engine}
  BY SettingIsOne
<1> QED
  BY <1>1, <1>2, <1>3, TheOfOne DEF Where!SettingsTyped

LEMMA CacheDirectoryOf ==
  ASSUME NEW m, Where!Setting(m, "binary_cache_dir") = {}
  PROVE  Where!CacheDirectory(m) =
           Where!The(Where!Setting(m, "home_dir"))
             \o <<".cache", "prisma-python", "binaries", Where!The(Where!Setting(m, "prisma_version")),
                  Where!The(Where!Setting(m, "expected_engine_version"))>>
  BY TheOfOne DEF Where!CacheDirectory, Where!First

(* The directory per version of CacheDir in Install is what                *)
(* Config.from_base makes of the configuration: two programs that share a  *)
(* cache agree on the home directory, on the CLI and on the engine.        *)
THEOREM CacheDirectoryIsOwn ==
  ASSUME NEW Names, NEW m, NEW n, Where!SettingsTyped(m, Names), Where!SettingsTyped(n, Names)
  PROVE  Where!CacheIsOfOneVersion(m, n)
<1> SUFFICES ASSUME Where!Setting(m, "binary_cache_dir") = {},
                    Where!Setting(n, "binary_cache_dir") = {},
                    Where!CacheDirectory(m) = Where!CacheDirectory(n)
             PROVE  \A setting \in {"home_dir", "prisma_version", "expected_engine_version"} :
                      Where!The(Where!Setting(m, setting)) = Where!The(Where!Setting(n, setting))
  BY DEF Where!CacheIsOfOneVersion
<1> DEFINE p == Where!The(Where!Setting(m, "home_dir"))
           q == Where!The(Where!Setting(n, "home_dir"))
           d == Where!The(Where!Setting(m, "prisma_version"))
           f == Where!The(Where!Setting(n, "prisma_version"))
           e == Where!The(Where!Setting(m, "expected_engine_version"))
           g == Where!The(Where!Setting(n, "expected_engine_version"))
           s == Names5(".cache", "prisma-python", "binaries", d, e)
           t == Names5(".cache", "prisma-python", "binaries", f, g)
<1>1. ".cache" \in Names /\ "prisma-python" \in Names /\ "binaries" \in Names
  BY DEF Where!SettingsTyped
<1>2. /\ p \in Seq(Names) /\ d \in Names /\ e \in Names
      /\ q \in Seq(Names) /\ f \in Names /\ g \in Names
  BY SettingsAre
<1>3. Below(p, s) = Below(q, t)
  BY CacheDirectoryOf DEF Below, Names5
<1> HIDE DEF p, q, d, e, f, g
<1>4. /\ s \in Seq(Names) /\ Len(s) = 5 /\ s[4] = d /\ s[5] = e
      /\ t \in Seq(Names) /\ Len(t) = 5 /\ t[4] = f /\ t[5] = g
  BY <1>1, <1>2, FiveNames
<1> HIDE DEF s, t
<1>5. p = q /\ s = t
  BY <1>2, <1>3, <1>4, SameEnds
<1>6. p = q /\ d = f /\ e = g
  BY <1>4, <1>5
<1> QED
  BY <1>6 DEF p, q, d, e, f, g

(* ensure() starts a file that is there and, unless a variable names one,  *)
(* of the engine's version that the client was made for.                   *)
THEOREM EngineIsTheExpected ==
  ASSUME NEW m, NEW binaries PROVE Where!EngineIsExpected(m, binaries)
<1> SUFFICES ASSUME NEW path \in Where!Ensure(m, binaries, FALSE)
             PROVE  /\ Where!Exists(m, path)
                    /\ Where!Named(m) = {} =>
                         m.versions[Where!Join(m.cwd, path)]
                           = Where!The(Where!Setting(m, "expected_engine_version"))
  BY DEF Where!EngineIsExpected
<1>1. /\ path \in Where!EngineFile(m, binaries)
      /\ \/ Where!Named(m) # {}
         \/ m.versions[Where!Join(m.cwd, path)] \in Where!Setting(m, "expected_engine_version")
  BY Zenon DEF Where!Ensure
<1>2. Where!Exists(m, path)
  BY <1>1, Zenon DEF Where!EngineFile, Where!First
<1>3. PICK v : Where!Setting(m, "expected_engine_version") = {v}
  BY SettingIsOne
<1> QED
  BY <1>1, <1>2, <1>3, TheOfOne

(* A path below an absolute one is absolute, and starts nowhere else.      *)
LEMMA JoinAbsolute ==
  ASSUME NEW Names, NEW from \in Seq(Names), NEW path \in Seq(Names), Where!Absolute(from)
  PROVE  Where!Absolute(Where!Join(from, path))
<1>1. CASE Where!Absolute(path)
  BY <1>1 DEF Where!Join
<1>2. CASE ~Where!Absolute(path)
  <2>1. Len(from) > 0 /\ from[1] = "/"
    BY DEF Where!Absolute
  <2>2. from \o path # <<>> /\ Head(from \o path) = "/"
    BY <2>1
  <2> QED
    BY <1>2, <2>2 DEF Where!Join, Where!Absolute
<1> QED
  BY <1>1, <1>2

LEMMA SqliteUrlStays ==
  ASSUME NEW Names, NEW m, NEW n, NEW url, url.path \in Seq(Names),
         NEW directory \in Seq(Names), Where!Absolute(directory)
  PROVE  Where!SqliteUrl(m, url, directory) = Where!SqliteUrl(n, url, directory)
<1>1. Where!Absolute(Where!Join(directory, url.path))
  BY JoinAbsolute
<1>2. Where!Join(m.cwd, Where!Join(directory, url.path)) = Where!Join(n.cwd, Where!Join(directory, url.path))
  BY <1>1 DEF Where!Join
<1> QED
  BY <1>2, Zenon DEF Where!SqliteUrl

(* connect() opens the SQLite database that the schema names, wherever the *)
(* program was started.                                                    *)
THEOREM DatabaseStays ==
  ASSUME NEW Names, NEW m, NEW n, NEW client, Where!ClientTyped(m, client, Names)
  PROVE  Where!DatabaseStaysPut(m, n, client)
<1> SUFFICES ASSUME Where!LoadEnv(m) = Where!LoadEnv(n),
                    Where!Absolute(client.schemaDirectory),
                    \A directory \in client.sourceDirectory : Where!Absolute(directory)
             PROVE  Where!ConnectDatasources(m, client) = Where!ConnectDatasources(n, client)
  BY DEF Where!DatabaseStaysPut
<1> DEFINE directory == Where!The(Where!First(client.sourceDirectory, {client.schemaDirectory}))
<1>1. directory \in client.sourceDirectory \cup {client.schemaDirectory}
  BY DEF Where!The, Where!First
<1>2. directory \in Seq(Names) /\ Where!Absolute(directory)
  BY <1>1 DEF Where!ClientTyped
<1>3. Where!Resolve(m, client.url) = Where!Resolve(n, client.url)
  BY DEF Where!Resolve
<1>4. \A url \in Where!Resolve(m, client.url) :
        Where!SqliteUrl(m, url, directory) = Where!SqliteUrl(n, url, directory)
  BY <1>2, SqliteUrlStays DEF Where!ClientTyped
<1> HIDE DEF directory
<1>5. {[name |-> client.defaultName, url |-> Where!SqliteUrl(m, url, directory)] :
         url \in Where!Resolve(m, client.url)}
      = {[name |-> client.defaultName, url |-> Where!SqliteUrl(n, url, directory)] :
         url \in Where!Resolve(n, client.url)}
  BY <1>3, <1>4
<1> QED
  BY <1>5, Zenon DEF Where!ConnectDatasources, directory
=============================================================================
