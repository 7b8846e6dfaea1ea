------------------------------ MODULE MCDoctor ------------------------------
(* Files of four calls in two blocks, and 2000 single calls of every action  *)
(* with nested literals for their arguments.                                *)
EXTENDS Doctor

Whole == INSTANCE Diagnosis

One == Leaf("one")
Two == Leaf("two")
Pair(k, e) == <<k, e>>

MCNames == {"db", "tx", "batcher", "conn", "get_client()"}
Withs == {[form |-> "with", target |-> "tx", call |-> "tx"],
          [form |-> "with", target |-> "batcher", call |-> "batch_"]}
Assign == [form |-> "assign", target |-> "conn", call |-> "DB"]
Import == [form |-> "import", name |-> "Prisma", asname |-> "DB"]
MCFiles == {{Assign, Import} \cup Withs, {Assign} \cup Withs}

ACall(action, via, name, args, keywords) ==
  [action |-> action, via |-> via, name |-> name, args |-> args, keywords |-> keywords]
Given(k, e) == <<Pair(k, e)>>
Arg(star, e) == [star |-> star, value |-> e]

Where1 == Dict(Given("id", One))
Data1  == Dict(Given("name", One))
Atomic == Dict(Given("name", Dict(Given("increment", One))))
MCCalls ==
  {ACall("create", "attribute", n, <<>>, Given("data", d)) :
     n \in {"db", "tx", "batcher"}, d \in {Data1, Atomic}}
  \cup {ACall(a, "client", n, <<>>, <<>>) : a \in {"tx", "batch_"},
          n \in {"conn", "tx", "get_client()"}}
  \cup {ACall("find_many", "accessor", "tx", <<>>, Given("where", Unread))}

\* Filters up to a relation filter under a connective.
Operators == {"not", "has", "path", "search", "equals", "lt", Computed}
FieldValues ==
  {One, Unread} \cup {Dict(Given(k, One)) : k \in Operators}
    \cup {Dict(<<Pair(k, One), Pair(l, Unread)>>) : k, l \in Operators}
Filters0 == {Unread, Dict(<<>>)} \cup
            {Dict(Given(f, v)) : f \in {"id", Computed}, v \in FieldValues}
Filters ==
  Filters0 \cup {Dict(Given("AND", List(<<Where1, w>>))) : w \in Filters0}
    \cup {Dict(Given("NOT", w)) : w \in Filters0}
    \cup {Dict(Given("posts", Dict(<<Pair(r, w), Pair(k, One)>>))) :
            r \in {"some", "is_not"}, k \in {"every", "has"}, w \in Filters0}

Payloads0 == {One, Unread} \cup
  {Dict(Given(k, One)) : k \in {"increment", "set", "create", "path", Computed}}
Payloads == {Unread, Dict(<<>>)} \cup
  {Dict(<<Pair(f, v), Pair("name", w)>>) : f \in {"id", Computed}, v, w \in Payloads0}

Upserts ==
  {<<Pair("where", w), Pair("data", Dict(<<Pair("create", c), Pair("update", u)>>))>> :
     w \in {Where1, Unread, Dict(Given("id_name", Dict(<<Pair("id", One), Pair("name", Two)>>))),
            Dict(Given("id", Unread))},
     c \in {Unread, Dict(Given("id", One)), Dict(<<Pair("id", One), Pair("name", Two)>>),
            Dict(<<Pair("id", Unread), Pair("posts", Dict(Given("create", One)))>>)},
     u \in Payloads}

KnownCall(a, args, keywords) == ACall(a, "attribute", "db", args, keywords)
MCProbes ==
  {KnownCall(a, <<>>, Given("where", w)) :
     a \in {"find_unique", "find_many", "delete_many", "group_by"}, w \in Filters}
  \cup {KnownCall("update", <<Arg(s, d), Arg(FALSE, w)>>, <<>>) :
          s \in BOOLEAN, d \in Payloads, w \in {Where1, Unread, Atomic}}
  \cup {KnownCall("create_many", <<Arg(FALSE, List(<<Data1, d>>))>>, <<>>) : d \in Payloads}
  \cup {KnownCall("upsert", <<>>, u) : u \in Upserts}
  \cup {KnownCall("upsert", <<>>, Append(u, Pair("include", Unread))) : u \in Upserts}
  \cup {ACall(a, via, n, <<Arg(FALSE, One)>>, Given(k, One)) :
          a \in AllActions \ {"create_many"}, n \in {"db", "conn", "get_client()"},
          k \in {"cursor", "sum", "timeout", "take", Computed},
          via \in {"attribute", "accessor", "runtime accessor", "getattr", "client"}}

-----------------------------------------------------------------------------
(* The report of a code base, for every three findings in two modules.     *)

MCFindings ==
  UNION {[1..n -> [path : {{"a"}, {"b"}}, model : {{"user"}}, status : {"verified", "stop"},
                   code : {"own"}, entry : {"client"}, resolution : {"binding"}, block : 0..1]
            \cup [path : {{"a"}}, model : {{}}, status : {"unknown"}, code : {"not-covered", "opaque-where"},
                   entry : {"client", "transaction"}, resolution : {"convention"}, block : {0, 2}]] :
           n \in 0..3}
MCSites ==
  {[path |-> "a", model |-> {}, entry |-> "client", resolution |-> "binding", block |-> 0, verdicts |-> v] :
     v \in SUBSET (Unknown("dynamic-model") \cup Unknown("opaque-where") \cup Unknown("argument-not-covered")
                  \cup Stop("aggregate") \cup Stop("json-filter"))}
MCModels ==
  {[name |-> "User", lower |-> "user"], [name |-> "USER", lower |-> "user"], [name |-> "Post", lower |-> "post"]}
MCPaths ==
  {[parts |-> {"work", "env"}, files |-> {[absolute |-> "/work/env/a.py", parts |-> {"work", "env", "a.py"},
                                          decodes |-> TRUE, parses |-> TRUE]}]}

\* Lines of a schema file, of up to seven characters; with an escaped quote.
Line == {"quote", "slash", "newline", "letter"}
MCTexts == UNION {[1..n -> Line] : n \in 2..7}
Escaped == <<"quote", "backslash", "quote", "slash", "slash", "quote">>

(* The properties of Diagnosis hold of them, and what the text of the      *)
(* report says does not.                                                   *)
ASSUME DiagnosisAssumption ==
  /\ \A findings \in MCFindings :
       /\ Whole!TablesAddUp(findings) /\ Whole!BlocksAreWhole(findings)
       /\ \A unparsed \in {{}, {"c"}} : Whole!NothingIsRoundedUp(findings, unparsed)
  /\ \A site \in MCSites : \A f \in Whole!Findings(site) : Whole!NothingIsRoundedUp(<<f>>, {})
  /\ \A models \in SUBSET MCModels : Whole!NamesAreRight(models)
  /\ \A findings \in MCFindings, max \in 1..3 : Whole!TextAddsUp(findings, max)
  /\ \A text \in MCTexts : \A first, last \in DOMAIN text :
       first < last => Whole!StringsStay(text, first, last)
  /\ \A text \in MCTexts : {i \in DOMAIN text : text[i] = "newline"} \subseteq Whole!StripComments(text)
  /\ ~Whole!StringsStay(Escaped, 1, 6)
  /\ \E site \in MCSites : ~Whole!ReadInFull(site)
  /\ \E findings \in MCFindings : ~Whole!WholeIsMigratable(findings)
  /\ ~Whole!EveryFileIsRead(MCPaths)
=============================================================================
