------------------------------ MODULE YamlGrammar ------------------------------
(* The grammar of the comment at the head of parserc.go, as the set of its    *)
(* sentences up to a length, and what the parser must have to do with it.     *)
EXTENDS YamlParser

CONSTANT Length   \* tokens of the longest sentences considered

Props == {<<"TAG">>, <<"TAG", "ANCHOR">>, <<"ANCHOR">>, <<"ANCHOR", "TAG">>}

\* What derives[x][i] will be for i < n is known: the sentences of length i of the
\* production x, under the names the comment gives them.  items are the
\* repetitions between the brackets of a collection; "optional" may be empty.
Level(derives, n) ==
    LET One(t) == IF n = 1 THEN {<<t>>} ELSE {}
        Optional(x, i) == IF i = 0 THEN {<<>>} ELSE derives[i][x]
        Pairs(A(_), B(_), m) == UNION {{a \o b : a \in A(i), b \in B(m - i)} : i \in 0..m}
        After(t, x, m) == IF m = 0 THEN {} ELSE {<<t>> \o s : s \in Optional(x, m - 1)}
        Enclosed(open, inner, close) ==
            {<<open>> \o s \o <<close>> : s \in inner}
        Decorated(x) ==
            UNION {{p \o s : p \in {q \in Props : Len(q) = k}, s \in Optional(x, n - k)} :
                       k \in {1, 2} \cap 1..n}
        flow_items == UNION {{r \o e \o <<"FLOW-ENTRY">> :
                                 r \in Optional("flow_items", i), e \in derives[n - 1 - i]["flow_entry"]} :
                                 i \in 0..(n - 2)}
        flow_inside ==
            IF n < 2 THEN {}
            ELSE LET Before(i) == Optional("flow_items", i)
                     Entry(i) == Optional("flow_entry", i)
                 IN Pairs(Before, Entry, n - 2)
        flow_content == One("SCALAR")
            \cup Enclosed("FLOW-SEQUENCE-START", flow_inside, "FLOW-SEQUENCE-END")
            \cup Enclosed("FLOW-MAPPING-START", flow_inside, "FLOW-MAPPING-END")
        flow_node == One("ALIAS") \cup Decorated("flow_content") \cup flow_content
        flow_entry ==
            LET Key(i) == After("KEY", "flow_node", i)
                Value(i) == IF i = 0 THEN {<<>>} ELSE After("VALUE", "flow_node", i)
            IN flow_node \cup Pairs(Key, Value, n)
        indentless ==
            LET Before(i) == Optional("indentless", i)
                Entry(i) == After("BLOCK-ENTRY", "block_node", i)
            IN UNION {{r \o e : r \in Before(i), e \in Entry(n - i)} : i \in 0..(n - 1)}
        pair(m) == LET Key(i) == IF i = 0 THEN {<<>>} ELSE After("KEY", "block_node_or_indentless", i)
                       Value(i) == IF i = 0 THEN {<<>>} ELSE After("VALUE", "block_node_or_indentless", i)
                   IN Pairs(Key, Value, m)
        block_items == UNION {{r \o e : r \in Optional("block_items", i), e \in pair(n - i)} :
                                 i \in 0..(n - 1)}
        block_content == flow_content
            \cup (IF n < 2 THEN {}
                  ELSE Enclosed("BLOCK-SEQUENCE-START", Optional("indentless", n - 2), "BLOCK-END")
                       \cup Enclosed("BLOCK-MAPPING-START", Optional("block_items", n - 2), "BLOCK-END"))
        block_node == One("ALIAS") \cup Decorated("block_content") \cup block_content
    IN [flow_items |-> flow_items, flow_content |-> flow_content, flow_node |-> flow_node,
        flow_entry |-> flow_entry, indentless |-> indentless, block_items |-> block_items,
        block_content |-> block_content, block_node |-> block_node,
        block_node_or_indentless |-> block_node \cup indentless \cup Decorated("indentless")]

Productions == FoldLeft(LAMBDA derives, n : Append(derives, Level(derives, n)),
                        <<>>, [n \in 1..Length |-> n])

\* Documents of exactly n tokens: the first may be implicit.
EndMarks(n) == {[i \in 1..n |-> "DOCUMENT-END"]}
Blocks(n) == IF n = 0 THEN {<<>>} ELSE Productions[n]["block_node"]
Explicit(n) == UNION {{[i \in 1..d |-> "DIRECTIVE"] \o <<"DOCUMENT-START">> \o b \o e :
                          b \in Blocks(k), e \in EndMarks(n - 1 - d - k)} :
                          <<d, k>> \in {w \in (0..n) \X (0..n) : w[1] + w[2] < n}}
Implicit(n) == UNION {{b \o e : b \in Blocks(k), e \in EndMarks(n - k)} : k \in 1..n}
Documents == FoldLeft(LAMBDA docs, n : Append(docs, Implicit(n) \cup
                          UNION {{d \o e : d \in IF i = 0 THEN {<<>>} ELSE docs[i], e \in Explicit(n - i)} :
                                     i \in 0..(n - 1)}),
                      <<>>, [n \in 1..Length |-> n])

Sentences == {<<"STREAM-START">> \o s \o <<"STREAM-END">> :
                 s \in {<<>>} \cup UNION Range(Documents)}

\* The terminals of the grammar behind the tokens.
Terminal(t) == CASE t = "TAG-e" -> "TAG"
                 [] t \in Directives -> "DIRECTIVE"
                 [] OTHER -> t

--------------------------------------------------------------------------------

\* Only the grammar's sentences are parsed to the end, but for the pair whose
\* empty key costs it a token.
OnlyGrammar ==
    state = "END" /\ ~keyLost /\ Len(read) <= Length + 2 =>
        [i \in DOMAIN read |-> Terminal(read[i])] \in Sentences

\* Every sentence is accepted, but for that pair and for a block mapping's value
\* without a key, where the parser insists on the key.
AcceptsGrammar ==
    feed # Anything /\ failed => keyLost \/ (state = "BLOCK-MAPPING" /\ ahead = "VALUE")

ParserInv == OnlyGrammar /\ NodesWellFormed /\ StacksBalanced /\ AcceptsGrammar

\* "The parser implements the following grammar": it accepts all of it.
AcceptsAll == feed # Anything => ~failed
================================================================================
