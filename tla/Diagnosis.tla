----------------------------- MODULE Diagnosis ------------------------------
(***************************************************************************)
(* The report of `prisma py sqlalchemy doctor` about a whole code base     *)
(* (sa/_doctor.py, the files of sa/_scan.py, cli/commands/sqlalchemy.py):  *)
(* what is read, what is said of the schema, and how the verdicts on the   *)
(* calls of all files (module Report) are grouped, counted and qualified.  *)
(* A finding f is a record; what may be missing is a set of at most one:   *)
(*   f.path, f.model    where it is, and the model it is on                *)
(*   f.status, f.code   the verdict, and the reason that is given          *)
(*   f.entry, f.resolution, f.block  how it was found; block 0 is none     *)
(***************************************************************************)
EXTENDS Naturals, FiniteSets, Sequences

Statuses == {"verified", "stop", "unknown"}

-----------------------------------------------------------------------------
(* What is read. A source path is a file or a directory with its files; a  *)
(* file has an absolute path and the names of the path as it was reached.  *)

EXCLUDED_DIRECTORIES ==
  {".git", ".hg", ".svn", ".mypy_cache", ".pytest_cache", ".ruff_cache", ".tox", ".nox", ".venv",
   "__pycache__", "build", "dist", "env", "node_modules", "site-packages", "venv"}

\* Each file once, however many of the paths lead to it.
PythonFiles(paths) ==
  {f \in UNION {path.files : path \in paths} : f.parts \cap EXCLUDED_DIRECTORIES = {}}

ScanPaths(paths) ==
  LET read(f) == f.decodes /\ f.parses
      files   == PythonFiles(paths)
  IN [scanned  |-> {f.absolute : f \in {g \in files : read(g)}},
      unparsed |-> {f.absolute : f \in {g \in files : ~read(g)}}]

\* The first of the usual places that has a schema, unless one is named.
Discover(places) ==
  LET there == {i \in DOMAIN places : places[i].file \/ places[i].files # {}}
  IN {places[i] : i \in {j \in there : \A k \in there : j <= k}}
DiscoverSchema(named, places) == IF named # {} THEN named ELSE Discover(places)

-----------------------------------------------------------------------------
(* The schema: the scope check on the text of its files, in their order,   *)
(* and the facts that the metadata of the client holds.                    *)

\* A string ends with its line; "//" outside of one hides what is left of the
\* line. What is read before and after each character of the text.
Reading(text) ==
  LET mode[i \in 0..Len(text)] ==
        IF i = 0 \/ (i > 0 /\ text[i] = "newline") THEN "code"
        ELSE IF mode[i - 1] = "comment" THEN "comment"
        ELSE IF text[i] = "quote" THEN (IF mode[i - 1] = "string" THEN "code" ELSE "string")
        ELSE IF mode[i - 1] = "code" /\ text[i] = "slash" /\ i < Len(text) /\ text[i + 1] = "slash"
             THEN "comment" ELSE mode[i - 1]
  IN mode
StripComments(text) == {i \in DOMAIN text : Reading(text)[i] # "comment"}

\* A file below the root is named from there.
Relative(path, root) ==
  IF Len(root) <= Len(path) /\ SubSeq(path, 1, Len(root)) = root
  THEN SubSeq(path, Len(root) + 1, Len(path)) ELSE path

LastOf(files, Found(_)) ==
  LET hits == {i \in DOMAIN files : files[i].decodes /\ Found(files[i]) # {}}
  IN UNION {Found(files[i]) : i \in {j \in hits : \A k \in hits : k <= j}}

ProviderCheck(files) ==
  LET provider == LastOf(files, LAMBDA f : f.provider)
  IN IF provider = {} THEN "unknown" ELSE IF provider = {"postgresql"} THEN "pass" ELSE "fail"

\* Files that could not be decoded count as files that were seen.
RelationModeCheck(files) ==
  IF LastOf(files, LAMBDA f : f.relationMode) = {"prisma"} THEN "fail"
  ELSE IF files = <<>> THEN "unknown" ELSE "pass"

\* What the text of the files says, with the annotations of all of them.
ScopeCheck(files, root) ==
  LET read    == {i \in DOMAIN files : files[i].decodes}
      natives == UNION {{<<i, at>> : at \in DOMAIN files[i].natives} : i \in read}
      name(at) == files[at[1]].natives[at[2]]
  IN [paths        |-> [i \in DOMAIN files |-> Relative(files[i].path, root)],
      native_types |-> [n \in {name(at) : at \in natives} |-> Cardinality({at \in natives : name(at) = n})],
      checks       |-> <<ProviderCheck(files), RelationModeCheck(files)>>]

\* The attribute of a client names a model unless two models share it.
ModelNames(models) ==
  LET own == {m \in models : \A n \in models : n.lower = m.lower => n = m}
  IN [a \in {m.lower : m \in own} |-> (CHOOSE m \in own : m.lower = a).name]

\* A failure to build the metadata is itself the finding.
Unavailable ==
  [available |-> FALSE, models |-> 0, model_names |-> <<>>, shapes |-> <<>>, join_tables |-> {}, blockers |-> {}]
SchemaFacts(s) ==
  LET models    == s.models
      relations == UNION {{<<m.name, r>> : r \in m.relations} : m \in models}
  IN IF ~(s.available /\ s.builds) THEN Unavailable ELSE
     [available   |-> TRUE,
      models      |-> Cardinality(models),
      model_names |-> ModelNames(models),
      shapes      |-> [shape \in {r[2].shape : r \in relations} |->
                         Cardinality({r \in relations : r[2].shape = shape})],
      join_tables |-> UNION {r[2].join_table : r \in relations},
      blockers    |-> {<<r[1], r[2].name>> : r \in {q \in relations : q[2].join_ambiguous}}]

-----------------------------------------------------------------------------
(* Findings: a call site and one of its verdicts, and what a code base     *)
(* makes of all of them.                                                   *)

\* What classify() looks at first, and what it looks at last.
Earliest == <<{"dynamic-model", "unresolved-client"}, {"aggregate", "not-covered"}, {"opaque-arguments"}>>
Latest   == {"argument-not-covered"}

\* A visible STOP outranks what could not be read; of several verdicts of the
\* same kind, the code is that of the first.
Codes(verdicts, status) ==
  LET found == {v.code : v \in {w \in verdicts : w.verdict = status}}
      early == {i \in DOMAIN Earliest : Earliest[i] \cap found # {}}
  IN IF found = {} THEN {"verified"}
     ELSE IF early # {} THEN UNION {Earliest[i] \cap found : i \in {j \in early : \A k \in early : j <= k}}
     ELSE IF found \ Latest # {} THEN found \ Latest ELSE found

\* classify(), for a call site with its verdicts.
Winner(verdicts) ==
  LET kinds == {v.verdict : v \in verdicts}
  IN IF "stop" \in kinds THEN "stop" ELSE IF "unknown" \in kinds THEN "unknown" ELSE "verified"
Findings(site) ==
  {[path |-> {site.path}, model |-> site.model, entry |-> site.entry, resolution |-> site.resolution,
    block |-> site.block, status |-> Winner(site.verdicts), code |-> code] :
     code \in Codes(site.verdicts, Winner(site.verdicts))}

\* The name of the model, where the schema has one for the attribute.
NameOf(f, names) == {IF a \in DOMAIN names THEN names[a] ELSE a : a \in f.model}
Resolved(findings, names) == [i \in DOMAIN findings |-> [findings[i] EXCEPT !.model = NameOf(findings[i], names)]]

\* One STOP takes the rest of its block with it.
Blocked(findings, block) == \E i \in DOMAIN findings : findings[i].block = block /\ findings[i].status = "stop"
BlockTransactions(findings) ==
  [i \in DOMAIN findings |->
     LET f == findings[i]
     IN IF f.block # 0 /\ f.status = "verified" /\ Blocked(findings, f.block)
        THEN [f EXCEPT !.status = "stop", !.code = "transaction-blocked"] ELSE f]

Blocks(findings) == {findings[i].block : i \in DOMAIN findings} \ {0}
TransactionBlocks(findings) ==
  {[block |-> b, members |-> Cardinality({i \in DOMAIN findings : findings[i].block = b}),
    blocked |-> Blocked(findings, b)] : b \in Blocks(findings)}

\* diagnose(): what every table of the report is made from.
Diagnose(findings, names) == BlockTransactions(Resolved(findings, names))

-----------------------------------------------------------------------------
(* Tables. A table is by module, key "path", or by model, key "model".     *)

Members(findings, key, k) == {i \in DOMAIN findings : k \in findings[i][key]}
Count(findings, I, status) == Cardinality({i \in I : findings[i].status = status})
Keys(findings, key)       == UNION {findings[i][key] : i \in DOMAIN findings}

\* What a first slice would cost.
Phase(verified, stop, unknown) ==
  IF stop = 0 /\ unknown = 0 THEN "migratable-now"
  ELSE IF stop = 1 /\ unknown = 0 /\ verified > 0 THEN "one-blocker"
  ELSE IF stop > verified + unknown THEN "blocked"
  ELSE "mixed"

Group(findings, key, k) ==
  LET of(status) == Count(findings, Members(findings, key, k), status)
  IN [call_sites |-> of("verified") + of("stop") + of("unknown"),
      verified |-> of("verified"), stop |-> of("stop"), unknown |-> of("unknown"),
      phase |-> Phase(of("verified"), of("stop"), of("unknown"))]

Headings == <<"migratable-now", "one-blocker", "mixed", "blocked">>
Listed(findings, heading) ==
  {k \in Keys(findings, "path") : Group(findings, "path", k).phase = heading}

\* What the report says it could not analyse, by code.
Counted(f, code) ==
  CASE code = "convention-client"            -> f.resolution = "convention"
    [] code = "transaction-body-not-visible" -> f.entry = "transaction" /\ f.block = 0
    [] OTHER                                 -> f.status = "unknown" /\ f.code = code
CaveatCodes(findings) ==
  {findings[i].code : i \in DOMAIN findings} \cup {"convention-client", "transaction-body-not-visible"}
Caveats(findings, unparsed) ==
  LET counted(code) == {i \in DOMAIN findings : Counted(findings[i], code)}
      codes == {c \in CaveatCodes(findings) : counted(c) # {}}
  IN [c \in codes \cup (IF unparsed = {} THEN {} ELSE {"unparsed-file"}) |->
        IF c = "unparsed-file" THEN Cardinality(unparsed) ELSE Cardinality(counted(c))]

\* to_json(): the two halves of the summary.
Summary(findings, scan) ==
  LET all == DOMAIN findings
  IN [call_sites |-> Len(findings),
      verified |-> Count(findings, all, "verified"), stop |-> Count(findings, all, "stop"),
      unknown |-> Count(findings, all, "unknown"),
      files_scanned |-> Cardinality(scan.scanned),
      files_with_call_sites |-> Cardinality(Keys(findings, "path")),
      not_analysed |-> [call_sites |-> Count(findings, all, "unknown"),
                        files |-> Cardinality(scan.unparsed),
                        codes |-> Caveats(findings, scan.unparsed)]]

-----------------------------------------------------------------------------
(* The text of the report lists at most max of everything, and says how    *)
(* many it left out; MAX_LISTED is the program's own bound.                *)

MAX_LISTED == 40
Least(m, n) == IF m < n THEN m ELSE n
Short(listed, max) ==
  [lines |-> SubSeq(listed, 1, Least(Len(listed), max)), more |-> Len(listed) - Least(Len(listed), max)]
RenderCallSites(findings, max) ==
  [status \in Statuses |->
     LET selected == SelectSeq(findings, LAMBDA f : f.status = status)
     IN [heading |-> Len(selected), list |-> Short(selected, max)]]
RenderTransactions(blocks, max) ==
  Short([n \in DOMAIN blocks |->
           [block |-> blocks[n].block, members |-> blocks[n].members,
            state |-> IF blocks[n].blocked THEN "stays on Prisma" ELSE "migratable whole"]], max)
RenderCaveats(caveats) ==
  IF DOMAIN caveats = {} THEN "every call site found was read in full" ELSE "some were not"

-----------------------------------------------------------------------------
(* Properties.                                                             *)

\* What the verdicts on call sites come to.
Reserved == {"convention-client", "transaction-body-not-visible", "unparsed-file"}
IsReport(findings) ==
  /\ IsFiniteSet(DOMAIN findings)
  /\ \A i \in DOMAIN findings :
       /\ DOMAIN findings[i] = {"path", "model", "entry", "resolution", "block", "status", "code"}
       /\ findings[i].status \in Statuses /\ findings[i].code \notin Reserved
       /\ \E path : findings[i].path = {path}

\* The tables and the summary count every call, and each once: what one says of
\* the whole is what the other says of its parts.
TablesAddUp(findings) ==
  /\ Cardinality(DOMAIN findings) =
       Count(findings, DOMAIN findings, "verified") + Count(findings, DOMAIN findings, "stop")
         + Count(findings, DOMAIN findings, "unknown")
  /\ \A k \in Keys(findings, "path") :
       Group(findings, "path", k).call_sites = Cardinality(Members(findings, "path", k))
  /\ \A i \in DOMAIN findings : \E k \in Keys(findings, "path") :
       \A l \in Keys(findings, "path") : i \in Members(findings, "path", l) <=> l = k
  /\ \A k \in Keys(findings, "path") :
       Cardinality({h \in DOMAIN Headings : k \in Listed(findings, Headings[h])}) = 1

\* "A summary that only reports what was understood reads as more complete than
\* the scan was": what is not verified, before or after its block is looked at,
\* is a STOP or is counted by a caveat under its own code; so is every client
\* that only its name gives away, and every file that was not read.
NothingIsRoundedUp(findings, unparsed) ==
  LET after   == BlockTransactions(findings)
      caveats == DOMAIN Caveats(after, unparsed)
  IN /\ \A i \in DOMAIN findings :
          /\ findings[i].status # "verified" => after[i].status = findings[i].status
          /\ after[i].status = "unknown" => after[i].code \in caveats
          /\ findings[i].resolution = "convention" => "convention-client" \in caveats
     /\ unparsed # {} => "unparsed-file" \in caveats

\* The text accounts for what it does not list: the headings count every call,
\* and a list with what it leaves out is as long as its heading says.
TextAddsUp(findings, max) ==
  LET text == RenderCallSites(findings, max)
  IN /\ \A status \in Statuses :
          text[status].heading = Len(text[status].list.lines) + text[status].list.more
     /\ \A i \in DOMAIN findings : Len(findings) <= max =>
          \E n \in DOMAIN text[findings[i].status].list.lines :
            text[findings[i].status].list.lines[n] = findings[i]

\* A block is blocked with all its calls, or with none.
BlocksAreWhole(findings) ==
  LET after == BlockTransactions(findings)
  IN \A b \in TransactionBlocks(findings) : \A i \in DOMAIN findings :
       findings[i].block = b.block =>
         IF b.blocked THEN after[i].status # "verified" ELSE after[i].status # "stop"

\* "keeps the report from naming the wrong one": a name in the report is that of
\* the only model whose attribute was written.
NamesAreRight(models) ==
  \A a \in DOMAIN ModelNames(models) :
    {m \in models : m.lower = a} = {m \in models : m.lower = a /\ m.name = ModelNames(models)[a]}

-----------------------------------------------------------------------------
(* What the text of the report says and its verdicts do not (see README.md, *)
(* "Disagreements").                                                       *)

\* "migratable whole": no call of such a block waits for a human to look at it.
WholeIsMigratable(findings) ==
  \A b \in TransactionBlocks(findings) : \A i \in DOMAIN findings :
    RenderTransactions(<<b>>, MAX_LISTED).lines[1].state = "migratable whole" /\ findings[i].block = b.block =>
      findings[i].status = "verified"

\* "Every call site found was read in full": nothing about this one was unknown.
ReadInFull(site) ==
  \A f \in Findings(site) :
    RenderCaveats(Caveats(<<f>>, {})) = "every call site found was read in full" =>
      \A v \in site.verdicts : v.verdict # "unknown"

\* "Leaving `//` inside a string alone": a character of the text between two
\* quotes that belong together stays; an escaped quote is no end of a string.
StringsStay(text, first, last) ==
  (/\ text[first] = "quote" /\ text[last] = "quote" /\ Reading(text)[first - 1] = "code"
   /\ \A i \in (first + 1)..(last - 1) :
        text[i] # "newline" /\ (text[i] = "quote" => text[i - 1] = "backslash"))
    => first..last \subseteq StripComments(text)

\* "Reads the codebase": a file is only left out for a directory below the paths
\* that were asked for.
EveryFileIsRead(paths) ==
  \A path \in paths : \A f \in path.files :
    (f.parts \ path.parts) \cap EXCLUDED_DIRECTORIES = {} =>
      f.absolute \in ScanPaths(paths).scanned \cup ScanPaths(paths).unparsed

=============================================================================
