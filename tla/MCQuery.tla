------------------------------- MODULE MCQuery -------------------------------
(* A client of two models for TLC, with partial types of both: every type    *)
(* of field, lists, absent values, relations in both directions and, for     *)
(* each method, calls whose arguments nest dicts and lists.                  *)
EXTENDS Query, Rendering, TLC

CONSTANTS u1, u2, p1, p2

Field(type, list, required) == [type |-> type, relation |-> FALSE, list |-> list, required |-> required]
Relation(model, list) == [type |-> model, relation |-> TRUE, list |-> list, required |-> FALSE]

TwoModels ==
  [User |-> [id |-> Field("BigInt", FALSE, TRUE), at |-> Field("DateTime", FALSE, FALSE),
             meta |-> Field("Json", FALSE, TRUE), tags |-> Field("Decimal", TRUE, TRUE),
             role |-> Field("Role", FALSE, TRUE), posts |-> Relation("Post", TRUE)],
   Post |-> [id |-> Field("Int", FALSE, TRUE), body |-> Field("Bytes", FALSE, FALSE),
             score |-> Field("Float", FALSE, FALSE), author |-> Relation("User", FALSE)]]

PartialType(name, from) ==
  [name |-> name, from |-> from, include |-> None, exclude |-> None, required |-> None,
   optional |-> None, relations |-> <<>>, scalarsOnly |-> FALSE]

\* The last four are refused.
PartialTypes ==
  <<[PartialType("Sheet", "Post") EXCEPT !.include = {"body", "author"}, !.required = {"body"}],
    [PartialType("Card", "User") EXCEPT !.exclude = {"meta"}, !.optional = {"role"}, !.relations = [posts |-> "Sheet"]],
    [PartialType("Bare", "User") EXCEPT !.scalarsOnly = TRUE],
    [PartialType("Card", "User") EXCEPT !.exclude = {"id"}],
    [PartialType("Odd", "User") EXCEPT !.include = {"id"}, !.scalarsOnly = TRUE],
    [PartialType("Lost", "User") EXCEPT !.include = {"id"}, !.relations = [posts |-> "Sheet"]],
    [PartialType("Early", "User") EXCEPT !.relations = [posts |-> "Later"]]>>

ASSUME PartialsAssumption == PartialNames = {"Sheet", "Card", "Bare"}

AllClients ==
  [backend : Backends, raw : {FALSE}, provider : {"sqlite"}]
  \cup [backend : {"msgspec"}, raw : {TRUE}, provider : {"postgresql"}]

KeyAliases == [startswith |-> "startsWith", order_by |-> "orderBy", has_every |-> "hasEvery"]

Rows ==
  (u1 :> [model |-> "User", links |-> [posts |-> <<p1, p2>>],
          values |-> [id |-> "1", at |-> "noon", meta |-> "object", tags |-> <<"0.5", "1">>, role |-> "ADMIN"]]) @@
  (u2 :> [model |-> "User", links |-> [posts |-> <<>>],
          values |-> [id |-> "2", at |-> None, meta |-> "array", tags |-> None, role |-> "USER"]]) @@
  (p1 :> [model |-> "Post", links |-> [author |-> <<u1>>],
          values |-> [id |-> "3", body |-> "bytes", score |-> "1.0"]]) @@
  (p2 :> [model |-> "Post", links |-> [author |-> <<u1>>],
          values |-> [id |-> "4", body |-> "more", score |-> None]])

-----------------------------------------------------------------------------
X    == [leaf |-> "x"]
Yes  == [leaf |-> "True"]
No   == [leaf |-> "False"]
D(f) == [dict |-> f]

Filter == D([OR |-> [list |-> <<D([name |-> D([startswith |-> X])]), D([at |-> None])>>],
             tags |-> D([has_every |-> [list |-> <<X>>]])])
Unique == D([id |-> X])
Values == D([meta |-> X, at |-> None, posts |-> D([create |-> [list |-> <<D([id |-> X])>>]])])

Authors == D([author |-> Yes])
Includes(class) ==
  IF ModelOf(class) = "User"
  THEN {None, D([posts |-> Yes]), D([posts |-> No]),
        D([posts |-> D([order_by |-> D([id |-> X]), take |-> None, include |-> Authors])]),
        D([posts |-> D([include |-> D([author |-> D([include |-> D([posts |-> Yes])])])])]),
        D([posts |-> X]), D([nothing |-> Yes])}
  ELSE {None, Authors, D([author |-> D([include |-> D([posts |-> D([where |-> Filter])])])])}

With(given, include) ==
  IF include = None THEN given
  ELSE [k \in DOMAIN given \cup {"include"} |-> IF k = "include" THEN include ELSE given[k]]

RecordCalls ==
  {[api |-> a[1], class |-> class, given |-> With(a[2], include)] :
     a \in {<<"create", [data |-> Values]>>, <<"delete", [where |-> Unique]>>,
            <<"find_unique", [where |-> Unique]>>, <<"find_unique_or_raise", [where |-> Unique]>>,
            <<"find_first", [where |-> Filter, order |-> D([id |-> X])]>>,
            <<"find_first_or_raise", [where |-> Filter, skip |-> X]>>,
            <<"find_many", [where |-> Filter, take |-> X, order |-> [list |-> <<D([id |-> X])>>]]>>,
            <<"update", [where |-> Unique, data |-> Values]>>,
            <<"upsert", [where |-> Unique, data |-> D([create |-> Values, update |-> Values])]>>},
     class \in {"User", "Card"}, include \in Includes("User")}
  \cup {[api |-> a, class |-> class, given |-> With([where |-> Filter], include)] :
     a \in {"find_many", "find_first"}, class \in {"Post", "Sheet", "Bare"}, include \in Includes("Post")}

OtherCalls ==
  {[api |-> "count", class |-> "User", given |-> g] :
     g \in {<<>>, [where |-> Filter], [select |-> D(<<>>)], [select |-> D([id |-> Yes, at |-> No, _all |-> Yes])]}}
  \cup {[api |-> "group_by", class |-> "User", given |-> g] :
     g \in {[by |-> [list |-> <<[leaf |-> "role"]>>], count |-> Yes, avg |-> D([id |-> Yes])],
            [by |-> [list |-> <<[leaf |-> "role"]>>], take |-> X]}}
  \cup {[api |-> "create_many", class |-> "User",
         given |-> [data |-> [list |-> <<Values>>], skip_duplicates |-> skip]] : skip \in {None, Yes}}
  \cup {[api |-> "update_many", class |-> "User", given |-> [data |-> Values, where |-> Filter]],
        [api |-> "delete_many", class |-> "User", given |-> <<>>],
        [api |-> "execute_raw", class |-> None, given |-> [query |-> X, parameters |-> [list |-> <<X>>]]]}
  \cup {[api |-> a, class |-> class, given |-> [query |-> X, parameters |-> [list |-> <<X>>]]] :
        a \in {"query_raw", "query_first"}, class \in {"User", "Card", "Post"}}

AllCalls == RecordCalls \cup OtherCalls

NoEntry == Entry(None, None)
Lists ==
  {<<NoEntry>>, <<Entry("P2025", None)>>, <<Entry("P9999", None)>>, <<NoEntry, Entry("P2002", None)>>,
   <<[Entry("P2028", None) EXCEPT !.closed = TRUE]>>, <<[Entry("P2012", None) EXCEPT !.valueMissing = TRUE]>>,
   <<[Entry("P2009", "UnknownInputField") EXCEPT !.fits = FALSE], Entry("P2025", None)>>,
   <<Entry("P2010", "UnknownSelectionField")>>}

-----------------------------------------------------------------------------
(* The text of the queries. The value x is a string of everything that JSON  *)
(* escapes or that looks like layout.                                        *)

Str(chars) == [type |-> "str", of |-> chars]
Word(word) == [type |-> "word", of |-> word]
LeafValues ==
  [x |-> Str(<<Space, "x", NewLine, Space, NewLine, Quote, Backslash, "n", "}", ",">>), True |-> Word("true"),
   False |-> Word("false"), json |-> [type |-> "Json", of |-> Str(<<"x", NewLine>>)], role |-> Word("role"),
   broken |-> Str(<<"x", Separator, "y">>)]

\* One method of each sort of arguments.
Rendered == {"find_many", "upsert", "count", "group_by", "create_many", "query_raw"}

Queries ==
  {Build(WithClass(MethodRequest(k, c), c.class)) :
     k \in {[backend |-> "slim", raw |-> FALSE, provider |-> "postgresql"]},
     c \in {x \in AllCalls : /\ x.class \in {"User", None} /\ x.api \in Rendered
                             /\ "raises" \notin DOMAIN MethodRequest([provider |-> "postgresql"], x)
                             /\ QueryRefusals([backend |-> "slim", provider |-> "postgresql"], x) = {}}}

ASSUME LayoutAssumption == \A q \in Queries : LayoutSaysNothing(q)

ASSUME StringsAssumption ==
  \A chars \in SeqOf({"x", NewLine, Separator, Space, Quote, Backslash}, 3) : StringsAreKept(chars)

ASSUME InstantsAssumption == \A clock \in {0, 999, 1000, 123456}, zone \in {-3600000, 0, 500} : InstantsAgree(clock, zone)

\* A value of a class that nobody registered.
ASSUME SerializersAssumption ==
  DumpsErrors([type |-> "Decimal"]) = {} /\ DumpsErrors([type |-> "set"]) = {"TypeError"}

\* What the code does to a string that has a line break that JSON does not
\* escape: it arrives changed (README.md, "Disagreements").
ASSUME SeparatorAssumption ==
  ~LayoutSaysNothing([operation |-> "query", action |-> "findUnique", model |-> "User",
                      args |-> [where |-> [dict |-> [name |-> [leaf |-> "broken"]]]], node |-> [id |-> [leaf |-> {}]]])

=============================================================================
