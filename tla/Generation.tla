----------------------------- MODULE Generation -----------------------------
(***************************************************************************)
(* The generator process (generator/generator.py) that Prisma starts for   *)
(* `prisma generate`: its request loop, the files it renders one by one    *)
(* into the package, and what is left in the package when it fails, is     *)
(* interrupted or is killed.                                               *)
(*                                                                         *)
(* A file is represented by the schema it was made from.  Four templates   *)
(* stand for all: the one the package imports first (client), one more     *)
(* with a stub (types), the one that may become a package of its own       *)
(* (models), and the deferred one (partials).  The output is the default   *)
(* one, the installed package itself: nothing is copied.                   *)
(***************************************************************************)
EXTENDS Sequences

CONSTANTS
  Schemas,   \* schema files: contents and generator block
  Separate,  \* those with separateModelFiles = true
  Minimal,   \* those with minimalRuntime = true
  Rejected,  \* those whose modelBackend does not go with separateModelFiles
  Absent     \* what a file that does not exist holds

ASSUME GenerationAssumption ==
  /\ Separate \subseteq Schemas /\ Minimal \subseteq Schemas
  /\ Rejected \subseteq Schemas
  /\ Absent \notin Schemas

VARIABLES
  disk,     \* disk[f]: the schema the file f was made from
  pc,       \* where the generator process stands
  request,  \* the schema of the generate request it works on
  todo,     \* the files it still has to render, in order
  torn,     \* ghost: a generator was killed while it changed the package
  reply     \* the last answer to a generate request

vars == <<disk, pc, request, todo, torn, reply>>

-----------------------------------------------------------------------------
(* The package.                                                            *)

\* What cleanup_templates finds by name, and what it does not know of.
Templates == {"client.py", "types.py", "models.py", "partials.py",
              "models/__init__.py"}
Others    == {"client.pyi", "types.pyi", "models.pyi", "models/_user.py",
              "schema.prisma"}
Files     == Templates \cup Others

\* none: no process;   read: waiting for a line;   render: in generate().
Label == {"none", "read", "render"}

TypeOK ==
  /\ disk \in [Files -> Schemas \cup {Absent}]
  /\ pc \in Label
  /\ request \in Schemas \cup {Absent}
  /\ todo \in Seq(Files \ {"schema.prisma"})
  /\ torn \in BOOLEAN
  /\ reply \in {"none", "ok", "error"}

Init ==
  /\ disk = [f \in Files |-> Absent]
  /\ pc = "none"
  /\ request = Absent
  /\ todo = <<>>
  /\ torn = FALSE
  /\ reply = "none"

\* A template with a stub: the stub is rendered first.
WithStub(s, stub, file) == (IF s \in Minimal THEN <<stub>> ELSE <<>>) \o <<file>>

\* The main loop of generate(), and all it renders, in order.
\* (Slip: the deferred templates are forgotten.)
MainLoop(s) ==
  (IF s \in Separate THEN <<"models/__init__.py", "models/_user.py">> ELSE <<>>)
  \o WithStub(s, "client.pyi", "client.py")
  \o (IF s \in Separate THEN <<>> ELSE WithStub(s, "models.pyi", "models.py"))
  \o WithStub(s, "types.pyi", "types.py")
PlanWithoutDeferred(s) == MainLoop(s)
Plan(s) == MainLoop(s) \o <<"partials.py">>

\* cleanup_templates.
Cleaned == [f \in Files |-> IF f \in Templates THEN Absent ELSE disk[f]]

-----------------------------------------------------------------------------
(* The request loop.                                                       *)

\* Prisma starts the generator.
Invoke ==
  /\ pc = "none"
  /\ pc' = "read"
  /\ UNCHANGED <<disk, request, todo, torn, reply>>

\* A line that does not parse, or data that does not validate: an exception
\* leaves the loop, before the package was touched.  So does the end of input.
Leave ==
  /\ pc = "read"
  /\ pc' = "none"
  /\ reply' \in {reply, "error"}
  /\ UNCHANGED <<disk, request, todo, torn>>

\* generate(): the schema is packaged first ...
Begin(s) ==
  /\ pc = "read" /\ s \notin Rejected
  /\ disk' = [disk EXCEPT !["schema.prisma"] = s]
  /\ request' = s
  /\ todo' = Plan(s)
  /\ pc' = "render"
  /\ UNCHANGED <<torn, reply>>

\* ... then options that exclude each other are refused, outside the `try`.
Refuse(s) ==
  /\ pc = "read" /\ s \in Rejected
  /\ disk' = [disk EXCEPT !["schema.prisma"] = s]
  /\ pc' = "none"
  /\ reply' = "error"
  /\ UNCHANGED <<request, todo, torn>>

Render ==
  /\ pc = "render" /\ todo # <<>>
  /\ disk' = [disk EXCEPT ![Head(todo)] = request]
  /\ todo' = Tail(todo)
  /\ UNCHANGED <<pc, request, torn, reply>>

\* The answer, and the loop reads on.
Succeed ==
  /\ pc = "render" /\ todo = <<>>
  /\ pc' = "read"
  /\ request' = Absent
  /\ torn' = FALSE
  /\ reply' = "ok"
  /\ UNCHANGED <<disk, todo>>

\* A template, a write or the partial type generator raises, or the user
\* presses Ctrl-C: `except:` cleans up, and only an Exception is answered.
\* (Slip: no clean-up.)
FailDirty ==
  /\ pc = "render" /\ todo # <<>>
  /\ pc' = "none"
  /\ request' = Absent
  /\ todo' = <<>>
  /\ reply' \in {reply, "error"}
  /\ torn' = FALSE
  /\ UNCHANGED disk
Fail ==
  /\ pc = "render" /\ todo # <<>>
  /\ disk' = Cleaned
  /\ pc' = "none"
  /\ request' = Absent
  /\ todo' = <<>>
  /\ torn' = FALSE
  /\ reply' \in {reply, "error"}

\* The process is killed: no handler runs.
Kill ==
  /\ pc # "none"
  /\ pc' = "none"
  /\ request' = Absent
  /\ todo' = <<>>
  /\ torn' = (torn \/ pc = "render")
  /\ UNCHANGED <<disk, reply>>

\* python -m prisma_cleanup.
Cleanup ==
  /\ pc = "none"
  /\ disk' = Cleaned
  /\ torn' = FALSE
  /\ UNCHANGED <<pc, request, todo, reply>>

Next ==
  \/ Invoke \/ Leave \/ Render \/ Succeed \/ Fail \/ Kill \/ Cleanup
  \/ \E s \in Schemas : Begin(s) \/ Refuse(s)

Spec == Init /\ [][Next]_vars

-----------------------------------------------------------------------------
(* Properties.                                                             *)

\* What a client made from s consists of: the modules of a running program, and
\* the stubs its type checker reads instead.
Runtime(s) == {"client.py", "types.py", "partials.py"} \cup
              (IF s \in Separate THEN {"models/__init__.py", "models/_user.py"}
                                 ELSE {"models.py"})
Stubs(s) == IF s \notin Minimal THEN {}
            ELSE {"client.pyi", "types.pyi"} \cup
                 (IF s \in Separate THEN {} ELSE {"models.pyi"})

AtRest == pc # "render" /\ ~torn
Importable == disk["client.py"] # Absent

\* What a program loads, whoever made it: a directory with an __init__.py goes
\* before a module of its name.
Package == {"models/__init__.py", "models/_user.py"}
Loaded  == {"client.py", "types.py", "partials.py"} \cup
           (IF disk["models/__init__.py"] # Absent THEN Package
                                                   ELSE {"models.py"})

\* The models/ package of an earlier client hides the models.py of this one:
\* generate() renders the files of its own layout and removes no other.
Leftover == disk["models/__init__.py"] # Absent /\ disk["client.py"] \notin Separate

\* "Template runtime errors do not result in a partially generated module":
\* whatever succeeded, failed or was interrupted before, in a package whose
\* client.py is there each module that is loaded was made with it, but for the
\* models of a leftover package.  (A killed generator cannot clean up; the next
\* success or clean-up repairs what it left.)
WholeClient ==
  AtRest /\ Importable =>
    \A f \in Loaded :
      disk[f] = disk["client.py"] \/ (Leftover /\ f \in Package)

\* Prisma is told that the client was generated only when each of its modules
\* and stubs, and the packaged schema, are those of the request, however many
\* runs failed or were killed before.
SuccessMeansComplete ==
  [][pc = "render" /\ pc' = "read" =>
       /\ reply' = "ok"
       /\ \A f \in Runtime(request) \cup Stubs(request) \cup {"schema.prisma"} :
            disk'[f] = request]_vars

-----------------------------------------------------------------------------
(* What a document promises and the code does not keep: no run checks it,  *)
(* and TLC refutes it when one does (see README.md, "Disagreements").      *)

\* "copy the Prisma Schema file used to generate the client to the package so
\* we can use it to instantiate the query engine".
PackagedSchemaMatches ==
  AtRest /\ Importable => disk["schema.prisma"] = disk["client.py"]

\* What regenerating after a change of options is taken to do: the program
\* loads, and a type checker reads, the client of one schema.  (The model
\* package and the stubs of an earlier layout stay, and hide the new files.)
ClientIsOfOneSchema ==
  AtRest /\ Importable => \A f \in Loaded : disk[f] = disk["client.py"]
StubsAreOfOneSchema ==
  AtRest /\ Importable =>
    \A f \in {"client.pyi", "types.pyi"} :
      disk[f] \in {Absent, disk["client.py"]}

=============================================================================
