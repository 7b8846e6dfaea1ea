------------------------------- MODULE Doctor -------------------------------
(***************************************************************************)
(* The verdicts of sa/_doctor.py on the arguments of a call: what section  *)
(* 5 of the runbook lists, looked for at every depth of their literals.    *)
(***************************************************************************)
EXTENDS Report

-----------------------------------------------------------------------------
(* Names, by what the runbook says of them.  A representative stands for   *)
(* the operators that are treated alike.                                   *)

WHERE_ACTIONS == Reads \cup {"update", "update_many", "delete", "delete_many",
                             "count", "group_by"}
DATA_ACTIONS == {"create", "update", "update_many"}

CONNECTIVES             == {"AND", "OR", "NOT"}
ATOMIC_OPERATIONS       == {"increment", "decrement", "multiply", "divide"}
CONNECT_OPERATIONS      == {"connect", "disconnect", "set", "connect_or_create"}
NESTED_WRITE_OPERATIONS == {"create", "create_many", "update", "update_many",
                            "upsert", "delete", "delete_many"}
RELATION_FILTERS        == {"some", "none", "every", "is"}
UNCOVERED_OPERATORS     == {"equals", "not_in", "is_not", "is_empty"}
JSON_FILTERS            == {"path", "string_contains", "array_contains"}
SCALAR_LIST_FILTERS     == {"has", "has_every", "has_some"}
GROUP_BY_AGGREGATES     == {"sum", "avg", "min", "max"}

Each(Op(_), items) == UNION {Op(items[i]) : i \in DOMAIN items}

-----------------------------------------------------------------------------
(* _check_arguments() and what it calls.                                   *)

RECURSIVE CheckWhere(_), CheckWhereValue(_)
CheckWhere(e) ==
  IF ~IsMapping(e) THEN Unknown("opaque-where")
  ELSE Each(LAMBDA i :
         CASE Key(i) = Computed -> Unknown("opaque-where")
           [] Key(i) \in CONNECTIVES ->
                IF IsSequence(Value(i))
                THEN Each(LAMBDA el : CheckWhere(Value(el)), Value(i).items)
                ELSE CheckWhere(Value(i))
           [] OTHER -> IF IsMapping(Value(i)) THEN CheckWhereValue(Value(i).items)
                                              ELSE {},
         e.items)

\* The operators on one field; the first that decides ends the loop.
CheckWhereValue(items) ==
  IF items = <<>> THEN {}
  ELSE LET k == Key(Head(items)) IN
    CASE k = Computed -> Unknown("opaque-where")
      [] k \in JSON_FILTERS -> Stop("json-filter")
      [] k \in SCALAR_LIST_FILTERS -> Stop("scalar-list-filter")
      [] k = "search" -> Stop("full-text-search")
      [] k \in RELATION_FILTERS ->
           CheckWhere(Value(Head(items))) \cup CheckWhereValue(Tail(items))
      [] k \in UNCOVERED_OPERATORS ->
           Unknown("where-operator-not-covered") \cup CheckWhereValue(Tail(items))
      [] OTHER -> CheckWhereValue(Tail(items))

CheckWriteOperations(ops) ==
  IF ops \cap ATOMIC_OPERATIONS # {} THEN Stop("atomic-update")
  ELSE IF ops \cap CONNECT_OPERATIONS # {} THEN Stop("relation-connect")
  ELSE IF ops \cap NESTED_WRITE_OPERATIONS # {} THEN Stop("nested-write")
  ELSE {}

\* Slip: what is inside the payload is not looked at.
CheckDataShallow(e) == IF IsMapping(e) THEN {} ELSE Unknown("opaque-data")
CheckData(e) ==
  IF ~IsMapping(e) THEN Unknown("opaque-data")
  ELSE Each(LAMBDA i :
         CASE Key(i) = Computed -> Unknown("opaque-data")
           [] OTHER -> IF ~IsMapping(Value(i)) THEN {}
                       ELSE IF Computed \in KeysOf(Value(i)) THEN Unknown("opaque-data")
                       ELSE CheckWriteOperations(KeysOf(Value(i))),
         e.items)

CheckCreateMany(e) ==
  IF ~IsSequence(e) THEN Unknown("opaque-data")
  ELSE Each(LAMBDA el : CheckData(Value(el)), e.items)

\* create must give the fields of where the values where gives them.
Flat(items) ==
  FlattenSeq([n \in DOMAIN items |->
    IF IsMapping(Value(items[n])) THEN Value(items[n]).items ELSE <<items[n]>>])
CheckUpsertPrecondition(where, create) ==
  IF ~IsMapping(where) \/ ~IsMapping(create) THEN Unknown("opaque-data")
  ELSE LET required == Dict(Flat(where.items)) IN
    IF Computed \in KeysOf(where) \cup KeysOf(required) THEN Unknown("opaque-where")
    ELSE IF \E k \in KeysOf(required) :
              \/ k \notin KeysOf(create)
              \/ ValueAt(create, k) # ValueAt(required, k)
    THEN Stop("upsert-where-mismatch")
    ELSE {}

CheckUpsert(args) ==
  (IF "include" \in DOMAIN args THEN Stop("upsert-include") ELSE {}) \cup
  (IF ~({"where", "data"} \subseteq DOMAIN args) THEN Unknown("opaque-data")
   ELSE IF ~IsMapping(args["data"]) THEN Unknown("opaque-data")
   ELSE IF ~({"create", "update"} \subseteq KeysOf(args["data"])) THEN Unknown("opaque-data")
   ELSE LET create == ValueAt(args["data"], "create")
            update == ValueAt(args["data"], "update")
        IN  (IF IsMapping(update) /\ update.items = <<>> THEN Stop("upsert-empty-update")
             ELSE CheckData(update))
            \cup CheckData(create) \cup CheckWhere(args["where"])
            \cup CheckUpsertPrecondition(args["where"], create))

CheckArguments(action, args) ==
  LET given == DOMAIN args IN
  UNION {
    IF action = "upsert" THEN CheckUpsert(args) ELSE {},
    IF action \in WHERE_ACTIONS /\ "where" \in given THEN CheckWhere(args["where"]) ELSE {},
    IF action \in DATA_ACTIONS /\ "data" \in given THEN CheckData(args["data"]) ELSE {},
    IF action = "create_many" /\ "data" \in given THEN CheckCreateMany(args["data"]) ELSE {},
    IF action = "group_by" /\ given \cap GROUP_BY_AGGREGATES # {} THEN Stop("aggregate") ELSE {},
    IF action = "tx" /\ "timeout" \in given THEN Stop("transaction-timeout") ELSE {}}

-----------------------------------------------------------------------------
(* Section 5 of the runbook, said of the places of an expression: a place  *)
(* is the path of keys that leads to it.                                   *)

RECURSIVE Places(_)
Places(e) ==
  {<<<<>>, e>>} \cup UNION {{<<(IF e.kind = "list" THEN <<>> ELSE <<Key(i)>>) \o p[1], p[2]>> :
                             p \in Places(Value(i))} : i \in ToSet(e.items)}

\* Fields and operators alternate in a filter, under any connectives; a
\* relation filter starts a new filter, and what `not` negates is not read.
FilterStops(e) ==
  \E place \in Places(e) :
    LET p == SelectSeq(place[1], LAMBDA k : k \notin CONNECTIVES)
        n == Len(p)
    IN  /\ \A i \in 1..(n - 1) : i % 2 = 0 => p[i] \in RELATION_FILTERS
        /\ \/ n > 0 /\ p[n] = Computed
           \/ n > 0 /\ n % 2 = 0 /\ p[n] \in JSON_FILTERS \cup SCALAR_LIST_FILTERS \cup {"search"}
           \/ n % 2 = 0 /\ (n > 0 => p[n] \in RELATION_FILTERS)
                /\ place[2].kind \notin {"dict", "list"}

DataStops(e) ==
  \E place \in Places(e) :
    LET p == place[1] IN
    \/ p = <<>> /\ place[2].kind \notin {"dict", "list"}
    \/ Len(p) \in {1, 2} /\ p[Len(p)] = Computed
    \/ Len(p) = 2 /\ p[2] \in ATOMIC_OPERATIONS \cup CONNECT_OPERATIONS
                               \cup NESTED_WRITE_OPERATIONS

\* The places of where that name a column, and what create puts there.
UpsertStops(args) ==
  LET all == Places(args["data"])
      create == {<<p[1][2], p[2]>> : p \in {q \in all : Len(q[1]) = 2 /\ q[1][1] = "create"}}
  IN  \/ "include" \in DOMAIN args
      \/ <<<<"update">>, Dict(<<>>)>> \in all
      \/ \E p \in all : Len(p[1]) = 3 /\ p[1][3] \in NESTED_WRITE_OPERATIONS \cup
                            ATOMIC_OPERATIONS \cup CONNECT_OPERATIONS
      \/ \E w \in Places(args["where"]) :
           w[1] # <<>> /\ w[2].kind # "dict" /\ <<w[1][Len(w[1])], w[2]>> \notin create

Section5(s) ==
  LET args == s.arguments IN
  \/ s.action \in STOP_ACTIONS
  \/ s.action = "tx" /\ "timeout" \in DOMAIN args
  \/ s.action = "group_by" /\ \E n \in GROUP_BY_AGGREGATES : n \in DOMAIN args
  \/ s.action \notin Bulk \ {"update_many", "delete_many"} /\ "where" \in DOMAIN args
       /\ FilterStops(args["where"])
  \/ s.action = "upsert" /\ UpsertStops(args)
  \/ s.action \notin {"upsert"} /\ "data" \in DOMAIN args /\ DataStops(args["data"])

-----------------------------------------------------------------------------
(* Properties.                                                             *)

\* "An argument the scanner cannot see cannot be certified": a call reported as
\* verified is visible, and nothing it says, at any depth of its literals, is on
\* the STOP list or may be.  (Except for the value of a field, which is taken for
\* a scalar.)
VerifiedHidesNoStop ==
  /\ VerifiedIsVisible
  /\ \A s \in ToSet(sites) : s.status = "verified" => ~Section5(s.call)

-----------------------------------------------------------------------------
(* What a document promises and the code does not keep: no run checks it,  *)
(* and TLC refutes it when one does (see README.md, "Disagreements").      *)

\* The same of transactions rather than blocks, which is what section 5 asks
\* for; not so of a batch inside a transaction, and of a transaction opened on
\* get_client().
TransactionsMigrateWhole ==
  \A s, o \in ToSet(sites) :
    ~(/\ s.transaction # 0 /\ s.transaction = o.transaction
      /\ s.status = "stop" /\ Status(o) = "verified")

\* "cannot certify": a filter or payload with an expression in it that the
\* scanner cannot read is not reported as verified.
UnreadIsNotCertified ==
  \A s \in ToSet(sites) : s.status = "verified" =>
    \A n \in {"where", "data"} \cap DOMAIN s.call.arguments :
      \A place \in Places(s.call.arguments[n]) : place[2].kind # "unread"

=============================================================================
