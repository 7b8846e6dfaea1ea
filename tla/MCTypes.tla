------------------------------- MODULE MCTypes -------------------------------
(* A schema of three models for TLC: relations in both directions, of a model *)
(* with itself, lists, enums, a compound key, and every depth that the        *)
(* documentation shows.                                                       *)
EXTENDS Types

F(name, type) ==
  [name |-> name, type |-> type, relation |-> FALSE, list |-> FALSE, required |-> TRUE, default |-> FALSE,
   readOnly |-> FALSE, unique |-> FALSE, back |-> "-", from |-> {}]
Key(name, type) == [F(name, type) EXCEPT !.readOnly = TRUE]

\* The sides of relations: one, that keeps foreign keys or not, and many.
One(name, type, back, from) == [F(name, type) EXCEPT !.relation = TRUE, !.back = back, !.from = from]
Many(name, type, back) == [One(name, type, back, {}) EXCEPT !.list = TRUE]

User ==
  [name |-> "User", keys |-> {[name |-> "name_at", fields |-> {"name", "at"}]},
   fields |-> {[F("id", "BigInt") EXCEPT !.unique = TRUE, !.default = TRUE], F("name", "String"), F("at", "DateTime"),
                [F("meta", "Json") EXCEPT !.required = FALSE], [F("tags", "Decimal") EXCEPT !.list = TRUE], F("role", "Role"),
                [F("roles", "Role") EXCEPT !.list = TRUE], Many("posts", "Post", "author"),
                [Key("boss_id", "BigInt") EXCEPT !.required = FALSE],
                [One("boss", "User", "staff", {"boss_id"}) EXCEPT !.required = FALSE], Many("staff", "User", "boss")}]
Post ==
  [name |-> "Post", keys |-> {},
   fields |-> {[F("id", "Int") EXCEPT !.unique = TRUE], [F("body", "Bytes") EXCEPT !.required = FALSE],
                F("score", "Float"), F("price", "Decimal"), F("open", "Boolean"),
                [F("marks", "Int") EXCEPT !.list = TRUE], Key("author_id", "BigInt"),
                One("author", "User", "posts", {"author_id"}), Many("topics", "Topic", "posts")}]
Topic ==
  [name |-> "Topic", keys |-> {},
   fields |-> {[F("name", "String") EXCEPT !.unique = TRUE], Many("posts", "Post", "topics")}]

Blog == <<User, Post, Topic>>

\* A schema that is as common: each name of a type is taken twice.
TodoLists ==
  <<[name |-> "Todo", keys |-> {},
     fields |-> {[F("id", "Int") EXCEPT !.unique = TRUE], Key("list_id", "Int"),
                 One("list", "TodoList", "todos", {"list_id"})}],
    [name |-> "TodoList", keys |-> {},
     fields |-> {[F("id", "Int") EXCEPT !.unique = TRUE], Many("todos", "Todo", "list")}]>>

Roles == {"Role"}
AllConfigs ==
  [depth : {-1, 2, 5}, provider : {"postgresql", "cockroachdb", "sqlite"}, scalarsOnly : {FALSE}]
  \cup [depth : {-1, 8}, provider : {"mysql"}, scalarsOnly : BOOLEAN]

\* The schema of the run is one that the theorems are about.
ASSUME BlogAssumption == Schema = Blog => NamesApart /\ KeysApart
=============================================================================
