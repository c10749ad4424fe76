------------------------------ MODULE YamlParser ------------------------------
(* The parser of yaml.v1 (parserc.go), which turns the scanner's tokens into  *)
(* events, and the loop of decode.go that builds a tree of nodes from the     *)
(* events.  A step looks at one token, takes it or not, and may emit one      *)
(* event; the places in the middle of a parse function, after it has taken a  *)
(* token, have names of their own.  Values, marks and styles are left out.    *)
EXTENDS Naturals, SequencesExt

CONSTANTS Feeds,      \* what the scanner gives: Anything, or one sequence of tokens
          Anything,
          Alphabet,   \* the tokens it may give when it gives any
          MaxTokens,  \* bound: tokens between STREAM-START and STREAM-END then
          NoToken

VARIABLES feed,      \* the scanner's tokens
          ahead,     \* the token peek_token shows, or NoToken
          read,      \* history: the tokens taken
          state,     \* parser.state, or a place inside its function
          states,    \* parser.states
          marks,     \* how many parser.marks
          node,      \* the node parse_node is at: its properties and context
          tags,      \* handles of parser.tag_directives
          version,   \* a %YAML directive was seen in this document
          event,     \* the event emitted by this step, "none" if none
          failed,    \* parser.error
          keyLost,   \* history: a token was dropped for the empty key of a pair
          building   \* decode.go: the nodes under construction

parserVars == <<feed, ahead, read, state, states, marks, node, tags, version, event,
                failed, keyLost, building>>

NoNode == [block |-> FALSE, indentless |-> FALSE, anchor |-> FALSE, tag |-> FALSE]

ParserInit == /\ feed \in Feeds
              /\ ahead = NoToken /\ read = <<>>
              /\ state = "STREAM-START" /\ states = <<>> /\ marks = 0
              /\ node = NoNode /\ tags = {} /\ version = FALSE
              /\ event = "none" /\ failed = FALSE /\ keyLost = FALSE
              /\ building = <<>>

--------------------------------------------------------------------------------
(* Tokens.  "TAG" uses a handle every document has, "TAG-e" the one that      *)
(* "TAG-DIRECTIVE" declares; "VERSION-2" is a directive for another version.  *)

Directives == {"VERSION-DIRECTIVE", "VERSION-2", "TAG-DIRECTIVE"}

\* yaml_parser_fetch_more_tokens, as the parser sees it.
Given == IF feed # Anything THEN {feed[Len(read) + 1]}
         ELSE IF read = <<>> THEN {"STREAM-START"}
         ELSE IF Len(read) > MaxTokens THEN {"STREAM-END"}
         ELSE Alphabet \cup {"STREAM-END"}

PeekToken == /\ ahead = NoToken /\ ~failed /\ state # "END"
         /\ ahead' \in Given
         /\ event' = "none"
         /\ UNCHANGED <<feed, read, state, states, marks, node, tags, version, failed,
                        keyLost, building>>

\* skip_token and leaving the token for the next function.
Take == ahead' = NoToken /\ read' = Append(read, ahead)
Leave == UNCHANGED <<ahead, read>>

At(place) == state = place /\ ahead # NoToken /\ ~failed
Sees(T) == ahead \in T

--------------------------------------------------------------------------------
(* decode.go: parse, document, sequence and mapping call each other; building *)
(* is the stack of their loops.  "panic" is what they do with an event they   *)
(* do not expect.                                                             *)

\* One more child for the innermost node.
Counted(b) == CASE b = <<>> -> b
                [] Last(b) = "document" -> Front(b) \o <<"full">>
                [] Last(b) = "key" -> Front(b) \o <<"value">>
                [] Last(b) = "value" -> Front(b) \o <<"key">>
                [] Last(b) = "full" -> <<"panic">>
                [] OTHER -> b

Closes(e) == CASE e = "DOCUMENT-END" -> "full"
               [] e = "SEQUENCE-END" -> "sequence"
               [] e = "MAPPING-END" -> "key"

Built(b, e) ==
    CASE e \in {"none", "STREAM-START"} -> b
      [] e = "STREAM-END" -> IF b = <<>> THEN b ELSE <<"panic">>
      [] e = "DOCUMENT-START" -> IF b = <<>> THEN <<"document">> ELSE <<"panic">>
      [] e \in {"SCALAR", "ALIAS"} -> IF b = <<>> THEN <<"panic">> ELSE Counted(b)
      [] e = "SEQUENCE-START" -> IF b = <<>> THEN <<"panic">> ELSE Append(Counted(b), "sequence")
      [] e = "MAPPING-START" -> IF b = <<>> THEN <<"panic">> ELSE Append(Counted(b), "key")
      [] OTHER -> IF b = <<>> THEN <<"panic">>
                  ELSE IF Last(b) = Closes(e) THEN Front(b) ELSE <<"panic">>

Emit(e) == event' = e /\ building' = Built(building, e)
Silent == Emit("none")

Goto(place) == state' = place /\ UNCHANGED states
Call(place, return) == state' = place /\ states' = Append(states, return)
Return == state' = Last(states) /\ states' = Front(states)

document == <<tags, version>>
Fails == /\ failed' = TRUE
         /\ event' = "none"
         /\ UNCHANGED <<feed, ahead, read, state, states, node, document, keyLost, building>>

--------------------------------------------------------------------------------
(* Streams and documents.                                                     *)

StreamStart ==
    /\ At("STREAM-START")
    /\ Take /\ Emit("STREAM-START") /\ Goto("IMPLICIT-DOCUMENT-START")
    /\ UNCHANGED <<feed, marks, node, document, failed, keyLost>>

\* parse_document_start: extra ends, then a document with or without a start
\* of its own, or the end of the stream.
DocumentStart ==
    /\ At("IMPLICIT-DOCUMENT-START") \/ At("DOCUMENT-START")
    /\ \/ /\ Sees({"DOCUMENT-END"}) /\ state = "DOCUMENT-START"
          /\ Take /\ Silent /\ Goto(state)
          /\ UNCHANGED document
       \/ /\ Sees({"STREAM-END"})
          /\ Take /\ Emit("STREAM-END") /\ Goto("END")
          /\ UNCHANGED document
       \/ /\ state = "IMPLICIT-DOCUMENT-START"
          /\ ~Sees(Directives \cup {"DOCUMENT-START", "STREAM-END"})
          /\ Leave /\ Emit("DOCUMENT-START") /\ Call("BLOCK-NODE", "DOCUMENT-END")
          /\ tags' = {"TAG"} /\ UNCHANGED version
       \/ /\ ~Sees({"STREAM-END"})
          /\ state = "DOCUMENT-START" => ~Sees({"DOCUMENT-END"})
          /\ state = "IMPLICIT-DOCUMENT-START" => Sees(Directives \cup {"DOCUMENT-START"})
          /\ Leave /\ Silent /\ Goto("DIRECTIVES")
          /\ version' = FALSE /\ UNCHANGED tags
    /\ UNCHANGED <<feed, marks, node, failed, keyLost>>

\* process_directives, then DOCUMENT-START.
Directive ==
    /\ At("DIRECTIVES")
    /\ Take
    /\ \/ /\ Sees({"VERSION-DIRECTIVE"}) /\ ~version
          /\ version' = TRUE /\ UNCHANGED tags
          /\ Silent /\ Goto(state)
       \/ /\ Sees({"TAG-DIRECTIVE"}) /\ "TAG-e" \notin tags
          /\ tags' = tags \cup {"TAG-e"} /\ UNCHANGED version
          /\ Silent /\ Goto(state)
       \/ /\ Sees({"DOCUMENT-START"})
          /\ tags' = tags \cup {"TAG"} /\ UNCHANGED version
          /\ Emit("DOCUMENT-START") /\ Call("DOCUMENT-CONTENT", "DOCUMENT-END")
    /\ UNCHANGED <<feed, marks, node, failed, keyLost>>

BadDirective ==
    /\ At("DIRECTIVES")
    /\ \/ Sees({"VERSION-DIRECTIVE"}) /\ version
       \/ Sees({"TAG-DIRECTIVE"}) /\ "TAG-e" \in tags
       \/ ~Sees({"VERSION-DIRECTIVE", "TAG-DIRECTIVE", "DOCUMENT-START"})
    /\ Fails
    /\ UNCHANGED marks

DocumentContent ==
    /\ At("DOCUMENT-CONTENT")
    /\ Leave
    /\ IF Sees(Directives \cup {"DOCUMENT-START", "DOCUMENT-END", "STREAM-END"})
       THEN Emit("SCALAR") /\ Return
       ELSE Silent /\ Goto("BLOCK-NODE")
    /\ UNCHANGED <<feed, marks, node, document, failed, keyLost>>

DocumentEnd ==
    /\ At("DOCUMENT-END")
    /\ IF Sees({"DOCUMENT-END"}) THEN Take ELSE Leave
    /\ Emit("DOCUMENT-END") /\ Goto("DOCUMENT-START")
    /\ tags' = {}
    /\ UNCHANGED <<feed, marks, node, version, failed, keyLost>>

--------------------------------------------------------------------------------
(* parse_node.  It is entered at "BLOCK-NODE", or from an item with the       *)
(* context in node, and goes through "NODE" once for each property.           *)

BlockNode ==
    /\ At("BLOCK-NODE")
    /\ Leave /\ Silent /\ Goto("NODE")
    /\ node' = [NoNode EXCEPT !.block = TRUE]
    /\ UNCHANGED <<feed, marks, document, failed, keyLost>>

Bare == ~node.anchor /\ ~node.tag

Alias ==
    /\ At("NODE") /\ Sees({"ALIAS"}) /\ Bare
    /\ Take /\ Emit("ALIAS") /\ Return
    /\ UNCHANGED <<feed, marks, node, document, failed, keyLost>>

\* Mutant: properties are taken as long as there are any.
PropertyRepeated ==
    /\ At("NODE")
    /\ \/ Sees({"ANCHOR"}) /\ node' = [node EXCEPT !.anchor = TRUE]
       \/ Sees({"TAG", "TAG-e"}) /\ ahead \in tags
          /\ node' = [node EXCEPT !.tag = TRUE]
    /\ Take /\ Silent /\ Goto("NODE")
    /\ UNCHANGED <<feed, marks, document, failed, keyLost>>

Property ==
    /\ At("NODE")
    /\ \/ Sees({"ANCHOR"}) /\ ~node.anchor /\ node' = [node EXCEPT !.anchor = TRUE]
       \/ Sees({"TAG", "TAG-e"}) /\ ~node.tag /\ ahead \in tags
          /\ node' = [node EXCEPT !.tag = TRUE]
    /\ Take /\ Silent /\ Goto("NODE")
    /\ UNCHANGED <<feed, marks, document, failed, keyLost>>

\* The collections parse_node may open, by their first token.
Opens ==
    [t \in {"FLOW-SEQUENCE-START", "FLOW-MAPPING-START"}
             \cup (IF node.block THEN {"BLOCK-SEQUENCE-START", "BLOCK-MAPPING-START"} ELSE {})
             \cup (IF node.indentless THEN {"BLOCK-ENTRY"} ELSE {}) |->
       CASE t = "FLOW-SEQUENCE-START" -> [e |-> "SEQUENCE-START", s |-> "FLOW-SEQUENCE-FIRST"]
         [] t = "FLOW-MAPPING-START" -> [e |-> "MAPPING-START", s |-> "FLOW-MAPPING-FIRST"]
         [] t = "BLOCK-SEQUENCE-START" -> [e |-> "SEQUENCE-START", s |-> "BLOCK-SEQUENCE-FIRST"]
         [] t = "BLOCK-MAPPING-START" -> [e |-> "MAPPING-START", s |-> "BLOCK-MAPPING-FIRST"]
         [] OTHER -> [e |-> "SEQUENCE-START", s |-> "INDENTLESS-SEQUENCE"]]

Properties == {t \in {"ANCHOR"} : ~node.anchor} \cup {t \in {"TAG", "TAG-e"} : ~node.tag}

Content ==
    /\ At("NODE")
    /\ \/ /\ Sees({"SCALAR"})
          /\ Take /\ Emit("SCALAR") /\ Return
       \/ /\ Sees(DOMAIN Opens)
          /\ Leave /\ Emit(Opens[ahead].e) /\ Goto(Opens[ahead].s)
       \/ /\ ~Sees({"SCALAR"} \cup DOMAIN Opens \cup Properties)
          /\ ~Bare
          /\ Leave /\ Emit("SCALAR") /\ Return    \* an empty node with properties
    /\ UNCHANGED <<feed, marks, node, document, failed, keyLost>>

BadNode ==
    /\ At("NODE")
    /\ \/ Sees({"TAG", "TAG-e"} \cap Properties) /\ ahead \notin tags
       \/ Bare /\ ~Sees({"SCALAR", "ALIAS"} \cup DOMAIN Opens \cup Properties)
    /\ Fails
    /\ UNCHANGED marks

--------------------------------------------------------------------------------
(* Collections.  First the token that opens one is taken.                     *)

First ==
    /\ \/ At("FLOW-SEQUENCE-FIRST") /\ Goto("FLOW-SEQUENCE-BEGIN")
       \/ At("FLOW-MAPPING-FIRST") /\ Goto("FLOW-MAPPING-BEGIN")
       \/ At("BLOCK-SEQUENCE-FIRST") /\ Goto("BLOCK-SEQUENCE")
       \/ At("BLOCK-MAPPING-FIRST") /\ Goto("BLOCK-MAPPING")
    /\ Take /\ Silent
    /\ marks' = marks + 1
    /\ UNCHANGED <<feed, node, document, failed, keyLost>>

\* An item may be missing: the tokens that say so, and where the parser goes on
\* after it.  A node, if there is one, is parsed in the context given.
Item(stop, next, block, indentless) ==
    [stop |-> stop, next |-> next,
     node |-> [NoNode EXCEPT !.block = block, !.indentless = indentless]]

Items ==
    [BlockEntry |-> Item({"BLOCK-ENTRY", "BLOCK-END"}, "BLOCK-SEQUENCE", TRUE, FALSE),
     IndentlessEntry |-> Item({"BLOCK-ENTRY", "KEY", "VALUE", "BLOCK-END"},
                              "INDENTLESS-SEQUENCE", TRUE, FALSE),
     BlockKey |-> Item({"KEY", "VALUE", "BLOCK-END"}, "BLOCK-MAPPING-VALUE", TRUE, TRUE),
     BlockValue |-> Item({"KEY", "VALUE", "BLOCK-END"}, "BLOCK-MAPPING", TRUE, TRUE),
     PairKey |-> Item({"VALUE", "FLOW-ENTRY", "FLOW-SEQUENCE-END"}, "PAIR-VALUE", FALSE, FALSE),
     PairValue |-> Item({"FLOW-ENTRY", "FLOW-SEQUENCE-END"}, "PAIR-END", FALSE, FALSE),
     FlowKey |-> Item({"VALUE", "FLOW-ENTRY", "FLOW-MAPPING-END"}, "FLOW-MAPPING-VALUE",
                      FALSE, FALSE),
     FlowValue |-> Item({"FLOW-ENTRY", "FLOW-MAPPING-END"}, "FLOW-MAPPING", FALSE, FALSE)]

ParseItem ==
    \E place \in DOMAIN Items :
        /\ At(place)
        /\ IF Sees(Items[place].stop)
           THEN /\ Emit("SCALAR") /\ Goto(Items[place].next)
                /\ IF place = "PairKey" THEN Take ELSE Leave   \* the key's terminator goes
                /\ keyLost' = (keyLost \/ place = "PairKey")
                /\ UNCHANGED node
           ELSE /\ Leave /\ Silent /\ Call("NODE", Items[place].next)
                /\ node' = Items[place].node
                /\ UNCHANGED keyLost
        /\ UNCHANGED <<feed, marks, document, failed>>

\* Places where a token announces an item: taken, and the item follows.
Announced == {<<"BLOCK-SEQUENCE", "BLOCK-ENTRY", "BlockEntry">>,
              <<"INDENTLESS-SEQUENCE", "BLOCK-ENTRY", "IndentlessEntry">>,
              <<"BLOCK-MAPPING", "KEY", "BlockKey">>,
              <<"BLOCK-MAPPING-VALUE", "VALUE", "BlockValue">>,
              <<"PAIR-VALUE", "VALUE", "PairValue">>,
              <<"FLOW-MAPPING-ITEM", "KEY", "FlowKey">>,
              <<"FLOW-MAPPING-VALUE", "VALUE", "FlowValue">>}

Announce ==
    \E a \in Announced :
        /\ At(a[1]) /\ Sees({a[2]})
        /\ Take /\ Silent /\ Goto(a[3])
        /\ UNCHANGED <<feed, marks, node, document, failed, keyLost>>

\* Without it the value of the key is empty.
NoValue ==
    /\ \/ At("BLOCK-MAPPING-VALUE") /\ ~Sees({"VALUE"}) /\ Goto("BLOCK-MAPPING")
       \/ At("PAIR-VALUE") /\ ~Sees({"VALUE"}) /\ Goto("PAIR-END")
       \/ At("FLOW-MAPPING-VALUE") /\ ~Sees({"VALUE"}) /\ Goto("FLOW-MAPPING")
       \/ At("FLOW-MAPPING-EMPTY-VALUE") /\ Goto("FLOW-MAPPING")
    /\ Leave /\ Emit("SCALAR")
    /\ UNCHANGED <<feed, marks, node, document, failed, keyLost>>

\* The end of a collection.
CollectionEnd ==
    /\ \/ /\ At("BLOCK-SEQUENCE") /\ Sees({"BLOCK-END"}) /\ Take /\ Emit("SEQUENCE-END")
          /\ marks' = marks - 1
       \/ /\ At("BLOCK-MAPPING") /\ Sees({"BLOCK-END"}) /\ Take /\ Emit("MAPPING-END")
          /\ marks' = marks - 1
       \/ /\ At("INDENTLESS-SEQUENCE") /\ ~Sees({"BLOCK-ENTRY"}) /\ Leave
          /\ Emit("SEQUENCE-END") /\ UNCHANGED marks
       \/ /\ At("FLOW-SEQUENCE-BEGIN") \/ At("FLOW-SEQUENCE") \/ At("FLOW-SEQUENCE-ITEM")
          /\ Sees({"FLOW-SEQUENCE-END"}) /\ Take /\ Emit("SEQUENCE-END")
          /\ marks' = marks - 1
       \/ /\ At("FLOW-MAPPING-BEGIN") \/ At("FLOW-MAPPING") \/ At("FLOW-MAPPING-ITEM")
          /\ Sees({"FLOW-MAPPING-END"}) /\ Take /\ Emit("MAPPING-END")
          /\ marks' = marks - 1
    /\ Return
    /\ UNCHANGED <<feed, node, document, failed, keyLost>>

\* Between the items of a flow collection.
FlowNext ==
    /\ \/ At("FLOW-SEQUENCE") /\ Sees({"FLOW-ENTRY"}) /\ Take /\ Goto("FLOW-SEQUENCE-ITEM")
       \/ At("FLOW-MAPPING") /\ Sees({"FLOW-ENTRY"}) /\ Take /\ Goto("FLOW-MAPPING-ITEM")
       \/ At("FLOW-SEQUENCE-BEGIN") /\ ~Sees({"FLOW-SEQUENCE-END"}) /\ Leave
          /\ Goto("FLOW-SEQUENCE-ITEM")
       \/ At("FLOW-MAPPING-BEGIN") /\ ~Sees({"FLOW-MAPPING-END"}) /\ Leave
          /\ Goto("FLOW-MAPPING-ITEM")
    /\ Silent
    /\ UNCHANGED <<feed, marks, node, document, failed, keyLost>>

\* An item of a flow sequence is a node or a pair; of a flow mapping, a key
\* that is announced (Announce) or a lone one.
FlowItem ==
    /\ \/ /\ At("FLOW-SEQUENCE-ITEM") /\ Sees({"KEY"})
          /\ Take /\ Emit("MAPPING-START") /\ Goto("PairKey")
          /\ UNCHANGED node
       \/ /\ At("FLOW-SEQUENCE-ITEM") /\ ~Sees({"KEY", "FLOW-SEQUENCE-END"})
          /\ Leave /\ Silent /\ Call("NODE", "FLOW-SEQUENCE")
          /\ node' = NoNode
       \/ /\ At("FLOW-MAPPING-ITEM") /\ ~Sees({"KEY", "FLOW-MAPPING-END"})
          /\ Leave /\ Silent /\ Call("NODE", "FLOW-MAPPING-EMPTY-VALUE")
          /\ node' = NoNode
    /\ UNCHANGED <<feed, marks, document, failed, keyLost>>

PairEnd ==
    /\ At("PAIR-END")
    /\ Leave /\ Emit("MAPPING-END") /\ Goto("FLOW-SEQUENCE")
    /\ UNCHANGED <<feed, marks, node, document, failed, keyLost>>

BadItem ==
    /\ \/ At("BLOCK-SEQUENCE") /\ ~Sees({"BLOCK-ENTRY", "BLOCK-END"})
       \/ At("BLOCK-MAPPING") /\ ~Sees({"KEY", "BLOCK-END"})
       \/ At("FLOW-SEQUENCE") /\ ~Sees({"FLOW-ENTRY", "FLOW-SEQUENCE-END"})
       \/ At("FLOW-MAPPING") /\ ~Sees({"FLOW-ENTRY", "FLOW-MAPPING-END"})
    /\ Fails
    /\ marks' = marks - 1

Parse == \/ StreamStart \/ DocumentStart \/ Directive \/ BadDirective \/ DocumentContent
         \/ DocumentEnd \/ BlockNode \/ Alias \/ Property \/ Content \/ BadNode
         \/ First \/ ParseItem \/ Announce \/ NoValue \/ CollectionEnd \/ FlowNext \/ FlowItem
         \/ PairEnd \/ BadItem

ParserNext == PeekToken \/ Parse

ParserSpec == ParserInit /\ [][ParserNext]_parserVars

--------------------------------------------------------------------------------
\* The builder of decode.go is never given an event it panics on, whatever
\* tokens the scanner makes up, and at the end its nodes are complete.
NodesWellFormed == /\ "panic" \notin Range(building)
                   /\ state = "END" => building = <<>>

\* parser.states and parser.marks stay balanced: a return always finds a state,
\* and a collection's mark is there until its end.
StacksBalanced == /\ marks \in Nat
                  /\ state = "END" => states = <<>> /\ marks = 0
                  /\ state \notin {"STREAM-START", "IMPLICIT-DOCUMENT-START", "DOCUMENT-START",
                                   "DIRECTIVES", "DOCUMENT-END", "END"} => states # <<>>
================================================================================
