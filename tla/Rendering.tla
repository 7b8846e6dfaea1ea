------------------------------ MODULE Rendering ------------------------------
(* The text of a query (_builder.py): the nodes that the query builder makes *)
(* of a query (Builder), how they are rendered, indented and joined, and how *)
(* values are serialized.  A text is a sequence of characters, where a name, *)
(* a number or a mark of punctuation counts as one.                          *)
EXTENDS Builder, Integers, SequencesExt, FiniteSetsExt

CONSTANT Leaves   \* Leaves[leaf]: [type, of], what a value given as a leaf is

-----------------------------------------------------------------------------
(* Serializing values.                                                      *)

NewLine   == "\n"
Separator == "U+2028"     \* a line break for Python, and for GraphQL just a character
Space     == " "
Quote     == "\""
Backslash == "\\"

\* JSON escapes what it must; no other character, with ensure_ascii=False.
Escaped(c) ==
  CASE c = NewLine                -> <<Backslash, "n">>
    [] c \in {Quote, Backslash}   -> <<Backslash, c>>
    [] OTHER                      -> <<c>>
JsonString(chars) == <<Quote>> \o FlattenSeq([i \in DOMAIN chars |-> Escaped(chars[i])]) \o <<Quote>>

\* serializer: what a value that JSON does not know becomes. An instant is what
\* a clock shows in microseconds, and how far it is ahead of UTC if it says so.
Serializable == {"datetime", "Json", "Base64", "Decimal"}
SerializeDatetime(moment) ==
  LET utc == IF "zone" \in DOMAIN moment THEN moment.clock - moment.zone ELSE moment.clock
  IN <<"Z", (utc \div 1000) * 1000>>

RECURSIVE Dumps(_)
Dumps(value) ==
  CASE value.type = "str"      -> JsonString(value.of)
    [] value.type = "word"     -> <<value.of>>        \* null, true, false, a number
    [] value.type = "datetime" -> <<Quote>> \o SerializeDatetime(value.of) \o <<Quote>>
    [] value.type = "Json"     -> JsonString(Dumps(value.of))
    [] value.type \in {"Base64", "Decimal"} -> JsonString(value.of)

\* A class nobody registered a serializer for.
DumpsErrors(value) ==
  IF value.type \in {"str", "word"} \cup Serializable THEN {} ELSE {"TypeError"}

-----------------------------------------------------------------------------
(* Nodes: what a node enters and departs with, its joiner, its indentation,  *)
(* its children, which are nodes, keys of nodes or texts, and whether it is  *)
(* rendered without any.                                                     *)

Node(enter, depart, children) ==
  [enter |-> enter, depart |-> depart, joiner |-> <<NewLine>>, width |-> 2, children |-> children,
   empty |-> TRUE]
IfAny(node)          == [node EXCEPT !.empty = FALSE]
Text(text)           == [text |-> text]
Key(key, sep, child) == [key |-> key, sep |-> sep, node |-> child]

\* A set, or the keys of a dict, in some order.
AsListed(S) == FoldSet(LAMBDA x, seq : Append(seq, x), <<>>, S)
Listed(dict) == AsListed(DOMAIN dict)

LeafText(value) == IF value = None THEN <<"null">> ELSE Dumps(Leaves[value.leaf])

RECURSIVE DataNode(_), ListNode(_)
Child(key, value) ==
  CASE Is("dict", value) -> Key(key, <<":", Space>>, DataNode(value.dict))
    [] Is("list", value) -> Key(key, <<":", Space>>, ListNode(value.list))
    [] OTHER             -> Text(<<key, ":", Space>> \o LeafText(value))
Children(dict) == [i \in DOMAIN Listed(dict) |-> Child(Listed(dict)[i], dict[Listed(dict)[i]])]
DataNode(dict) == Node(<<"{">>, <<"}">>, Children(dict))
ListNode(items) ==
  [Node(<<"[">>, <<"]">>,
        [i \in DOMAIN items |-> IF Is("dict", items[i]) THEN DataNode(items[i].dict) ELSE Text(LeafText(items[i]))])
   EXCEPT !.joiner = <<",", NewLine>>]

ArgumentsNode(args) == IfAny(Node(<<"(">>, <<")">>, Children(args)))

\* A root selection may ask for parts of a field.
FieldText(f, parts) == IF parts = {} THEN <<f>> ELSE <<f, "{">> \o AsListed(parts) \o <<"}">>

RECURSIVE SelectionNode(_)
SelectionNode(node) ==
  LET children(f) == IF "leaf" \in DOMAIN node[f] THEN <<Text(FieldText(f, node[f].leaf))>>
                     ELSE <<Key(f, <<>>, ArgumentsNode(node[f].args)), SelectionNode(node[f].node)>>
  IN IfAny(Node(<<"{">>, <<"}">>, FlattenSeq([i \in DOMAIN Listed(node) |-> children(Listed(node)[i])])))

ResultNode(q) ==
  [Node(<<"result", ":", Space, q.action>> \o (IF q.model = None THEN <<>> ELSE <<q.model>>), <<>>,
        <<ArgumentsNode(q.args)>>) EXCEPT !.width = 0]

RootNode(q) == Node(<<q.operation, Space, "{">>, <<"}">>, <<ResultNode(q), SelectionNode(q.node)>>)

-----------------------------------------------------------------------------
(* Rendering.                                                               *)

LineBreaks == {NewLine, Separator}

\* The line that starts at i is blank.
BlankFrom(text, i) ==
  \E j \in i .. Len(text) : /\ text[j] \in LineBreaks
                            /\ \A k \in i .. j : text[k] \in LineBreaks \cup {Space}

\* textwrap.indent: each line that is not blank moves to the right.
Indent(text, width) ==
  LET starts(i) == (i = 1 \/ text[i - 1] \in LineBreaks) /\ ~BlankFrom(text, i)
      prefix    == [i \in 1 .. width |-> Space]
  IN FlattenSeq([i \in DOMAIN text |-> (IF starts(i) THEN prefix ELSE <<>>) \o <<text[i]>>])

Join(parts, joiner) ==
  FlattenSeq([i \in DOMAIN parts |-> IF i = 1 THEN parts[i] ELSE joiner \o parts[i]])

ShouldRender(node) == node.empty \/ node.children # <<>>

RECURSIVE Render(_)
Render(child) ==
  CASE "text" \in DOMAIN child -> child.text
    [] "key" \in DOMAIN child  -> <<child.key>> \o child.sep \o Render(child.node)
    [] OTHER ->
         LET contents == [i \in DOMAIN child.children |-> Render(child.children[i])]
             kept     == SelectSeq(contents, LAMBDA text : text # <<>>)
             parts    == <<child.enter>> \o [i \in DOMAIN kept |-> Indent(kept[i], child.width)]
                           \o (IF child.depart = <<>> THEN <<>> ELSE <<child.depart>>)
         IN IF ShouldRender(child) THEN Join(parts, child.joiner) ELSE <<>>

BuildQuery(q) == Render(RootNode(q))

-----------------------------------------------------------------------------
(* The engine reads GraphQL: spaces, new lines and commas separate tokens,  *)
(* and a string is one token, of all its characters.                        *)

Reading == [tokens |-> <<>>, quoted |-> FALSE, escaped |-> FALSE, string |-> <<>>]

ReadCharacter(state, c) ==
  CASE state.quoted /\ state.escaped ->
         [state EXCEPT !.escaped = FALSE, !.string = Append(@, IF c = "n" THEN NewLine ELSE c)]
    [] state.quoted /\ ~state.escaped /\ c = Backslash -> [state EXCEPT !.escaped = TRUE]
    [] state.quoted /\ ~state.escaped /\ c = Quote ->
         [state EXCEPT !.quoted = FALSE, !.tokens = Append(@, [string |-> state.string]), !.string = <<>>]
    [] state.quoted /\ ~state.escaped /\ c \notin {Backslash, Quote} -> [state EXCEPT !.string = Append(@, c)]
    [] ~state.quoted /\ c = Quote -> [state EXCEPT !.quoted = TRUE]
    [] ~state.quoted /\ c \in {Space, NewLine, ","} -> state
    [] OTHER -> [state EXCEPT !.tokens = Append(@, c)]

Read(text) == FoldLeft(ReadCharacter, Reading, text).tokens

\* What a node says, however it is laid out.
RECURSIVE Says(_)
Says(child) ==
  CASE "text" \in DOMAIN child -> Read(child.text)
    [] "key" \in DOMAIN child  -> <<child.key>> \o Read(child.sep) \o Says(child.node)
    [] OTHER -> IF ~ShouldRender(child) THEN <<>>
                ELSE Read(child.enter) \o FlattenSeq([i \in DOMAIN child.children |-> Says(child.children[i])])
                       \o Read(child.depart)

-----------------------------------------------------------------------------
(* Properties.                                                              *)

\* A string reaches the engine as it is, whatever JSON has to escape in it, and
\* so does one inside a Json value.
StringsAreKept(chars) ==
  LET value == [type |-> "str", of |-> chars]
  IN /\ Read(Dumps(value)) = <<[string |-> chars]>>
     /\ Read(Dumps([type |-> "Json", of |-> value])) = <<[string |-> Dumps(value)]>>

\* The layout of a query says nothing: indenting and joining, at every depth,
\* leave the engine with the arguments and selections that the nodes were made
\* of, and nothing in a string is moved.
LayoutSaysNothing(q) == Read(BuildQuery(q)) = Says(RootNode(q))

\* One instant has one text, whatever the zone of the clock it was read from.
InstantsAgree(clock, zone) ==
  SerializeDatetime([clock |-> clock + zone, zone |-> zone]) = SerializeDatetime([clock |-> clock])

=============================================================================
