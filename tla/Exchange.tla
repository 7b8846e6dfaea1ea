------------------------------ MODULE Exchange ------------------------------
(***************************************************************************)
(* The way of a query through the client: the program calls a method, the  *)
(* query is built or refused, sent, answered by the engine, and the answer *)
(* is decoded or an exception raised (_base_client.py, engine/_http.py,    *)
(* engine/utils.py).  How queries are built, what the engine finds and how *)
(* a record is converted are parameters here; module Query says what they  *)
(* are.                                                                    *)
(***************************************************************************)
EXTENDS Records

CONSTANTS
  Options,           \* [backend, raw, provider]: the options of a client
  Calls,             \* calls of the program: [api, class, given]
  ErrorLists,        \* lists of errors that the engine may report
  Request(_, _),     \* what the method makes of a call: a query or [raises |-> class]
  Refusals(_, _),    \* the exceptions with which the query builder may refuse it
  Replies(_, _),     \* what the engine may say to it: [hits, errors, data]
  OnePass(_, _),     \* whether the answer may be decoded in one pass
  ParseRecord(_, _), \* the one-pass decoder: a class and a record on the wire
  Result(_, _, _)    \* what the method makes of the decoded answer

VARIABLES
  client,   \* how it was generated and is run
  phase,    \* idle, sent, answered, done
  call,     \* the last call
  hits,     \* ghost: the rows it was about, None when the engine did not run it
  reply,    \* the engine's answer: the HTTP status, data and errors of the body
  outcome   \* what the program gets: [returns |-> value] or [raises |-> class]

exchangeVars == <<client, phase, call, hits, reply, outcome>>

NoCall  == [api |-> "none", class |-> None, given |-> <<>>]
NoReply == [status |-> "none", big |-> FALSE, data |-> None, errors |-> <<>>]

Buildable(k, c) == "raises" \notin DOMAIN Request(k, c) /\ Refusals(k, c) = {}

\* Errors come as a JSON list.
ASSUME ExchangeAssumption ==
  /\ \A errors \in ErrorLists : DOMAIN errors = 1 .. Len(errors)
  /\ \A k \in Options, c \in Calls : Buildable(k, c) =>
       \A a \in Replies(k, c) : DOMAIN a.errors = 1 .. Len(a.errors)

-----------------------------------------------------------------------------
(* Errors.  An entry of the list: its code or None; whether a P2028 says   *)
(* that the transaction is closed already; whether the message is the one  *)
(* of a missing value; the kind of its meta or None; whether the exception *)
(* for the kind can be constructed from it.                                *)

ErrorMapping ==
  [P2002 |-> "UniqueViolationError", P2003 |-> "ForeignKeyViolationError", P2009 |-> "FieldNotFoundError",
   P2010 |-> "RawQueryError", P2012 |-> "MissingRequiredValueError", P2019 |-> "InputError",
   P2021 |-> "TableNotFoundError", P2025 |-> "RecordNotFoundError"]

MetaErrorMapping ==
  [UnknownArgument |-> "FieldNotFoundError", UnknownInputField |-> "FieldNotFoundError",
   UnknownSelectionField |-> "FieldNotFoundError"]

\* The exception that one entry raises, or None when the loop goes on.
EntryError(e) ==
  LET mapped == IF e.kind \in DOMAIN MetaErrorMapping THEN MetaErrorMapping[e.kind]
                ELSE IF e.code \in DOMAIN ErrorMapping THEN ErrorMapping[e.code] ELSE None
  IN CASE e.code = None              -> None
       [] e.code = "P2028"           -> IF e.closed THEN "TransactionExpiredError" ELSE "TransactionError"
       [] e.valueMissing             -> "MissingRequiredValueError"
       [] mapped = "FieldNotFoundError" /\ ~e.fits -> None
       [] OTHER                      -> mapped

HandleResponseErrors(errors) ==
  LET raising == {i \in DOMAIN errors : EntryError(errors[i]) # None}
  IN IF raising = {} THEN "DataError"
     ELSE EntryError(errors[CHOOSE i \in raising : \A j \in raising : i <= j])

ProcessResponseData(r) ==
  IF r.errors # <<>> THEN [raises |-> HandleResponseErrors(r.errors)]
                     ELSE [result |-> r.data]

\* The one-pass decoder types the result as a list of records, a record or
\* null; a small body takes the other path.  (Slip: the errors are not looked at.)
Typed(class, data) ==
  IF data = None THEN None
  ELSE IF "list" \in DOMAIN data
  THEN [list |-> [i \in DOMAIN data.list |-> ParseRecord(class, data.list[i])]]
  ELSE ParseRecord(class, data)
DecodeRawBlindly(class, r) ==
  IF ~r.big THEN ProcessResponseData(r) ELSE [result |-> Typed(class, r.data)]
DecodeRaw(class, r) ==
  IF ~r.big THEN ProcessResponseData(r)
  ELSE IF r.errors # <<>> THEN [raises |-> HandleResponseErrors(r.errors)]
  ELSE [result |-> Typed(class, r.data)]

ProcessResponseError(status) ==
  [raises |-> IF status = "unprocessable" THEN "UnprocessableEntityError" ELSE "EngineRequestError"]

\* request() of an HTTP engine: an answer with a 2xx status is decoded.
Response(decoder, class, r) ==
  IF r.status = "ok"
  THEN IF decoder THEN DecodeRaw(class, r) ELSE ProcessResponseData(r)
  ELSE ProcessResponseError(r.status)

\* update() and delete() answer None for the record that is missing.
Outcome(c, response) ==
  IF "result" \in DOMAIN response THEN Result(client, c, response.result)
  ELSE IF c.api \in {"update", "delete"} /\ response.raises = "RecordNotFoundError"
  THEN [returns |-> None]
  ELSE response

-----------------------------------------------------------------------------
(* The program and the engine.                                             *)

ExchangeInit ==
  /\ client \in Options
  /\ phase = "idle"
  /\ call = NoCall /\ hits = <<>> /\ reply = NoReply /\ outcome = [returns |-> None]

\* A call that its method or the builder refuses: nothing is sent.
Raise(c, class) ==
  /\ phase' = "done"
  /\ call' = c /\ hits' = <<>> /\ reply' = NoReply /\ outcome' = [raises |-> class]
  /\ UNCHANGED client

RefusedCall(c) ==
  /\ phase = "idle"
  /\ "raises" \in DOMAIN Request(client, c)
  /\ Raise(c, Request(client, c).raises)

RefusedQuery(c) ==
  /\ phase = "idle"
  /\ "raises" \notin DOMAIN Request(client, c)
  /\ \E class \in Refusals(client, c) : Raise(c, class)

Send(c) ==
  /\ phase = "idle"
  /\ Buildable(client, c)
  /\ phase' = "sent"
  /\ call' = c /\ hits' = <<>> /\ reply' = NoReply /\ outcome' = [returns |-> None]
  /\ UNCHANGED client

\* Whether the body is large matters to the one-pass decoder alone.
Sizes == IF client.raw THEN BOOLEAN ELSE {FALSE}

Answer ==
  /\ phase = "sent"
  /\ \E a \in Replies(client, call), big \in Sizes :
       /\ hits' = a.hits
       /\ reply' = [status |-> "ok", big |-> big, data |-> a.data, errors |-> a.errors]
  /\ phase' = "answered"
  /\ UNCHANGED <<client, call, outcome>>

\* The engine fails: it reports errors, or answers with another status.
Fault ==
  /\ phase = "sent"
  /\ \/ \E big \in Sizes, errors \in ErrorLists :
          reply' = [status |-> "ok", big |-> big, data |-> None, errors |-> errors]
     \/ \E status \in {"unprocessable", "error"} : reply' = [NoReply EXCEPT !.status = status]
  /\ hits' = None
  /\ phase' = "answered"
  /\ UNCHANGED <<client, call, outcome>>

Receive ==
  /\ phase = "answered"
  /\ outcome' = Outcome(call, Response(OnePass(client, call), call.class, reply))
  /\ phase' = "done"
  /\ UNCHANGED <<client, call, hits, reply>>

\* The program goes on with the next call.
Continue ==
  /\ phase = "done"
  /\ phase' = "idle"
  /\ call' = NoCall /\ hits' = <<>> /\ reply' = NoReply /\ outcome' = [returns |-> None]
  /\ UNCHANGED client

\* The slim backend has no create_partial().
Callable == {c \in Calls : client.backend = "slim" => c.class \notin PartialNames}

ExchangeNext ==
  \/ \E c \in Callable : RefusedCall(c) \/ RefusedQuery(c) \/ Send(c)
  \/ Answer \/ Fault \/ Receive \/ Continue

ExchangeSpec == ExchangeInit /\ [][ExchangeNext]_exchangeVars

-----------------------------------------------------------------------------
(* Properties.                                                             *)

\* The classes that the entries of the reply name.
Named == {EntryError(reply.errors[i]) : i \in DOMAIN reply.errors} \ {None}

\* What the engine reports as an error never comes back as a result, on
\* either way of decoding: the program gets an exception, of a class that one
\* of the entries names if any of them names one.  Only update() and delete()
\* turn the missing record into None.
ErrorsAreNeverResults ==
  phase = "done" /\ (reply.status \notin {"ok", "none"} \/ reply.errors # <<>>) =>
    IF "raises" \in DOMAIN outcome
    THEN outcome.raises \in
           (IF reply.status # "ok" THEN {"UnprocessableEntityError", "EngineRequestError"}
            ELSE IF Named = {} THEN {"DataError"} ELSE Named)
    ELSE /\ outcome = [returns |-> None]
         /\ call.api \in {"update", "delete"}
         /\ reply.status = "ok" /\ "RecordNotFoundError" \in Named

=============================================================================
