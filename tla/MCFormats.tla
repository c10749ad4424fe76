------------------------------ MODULE MCFormats ------------------------------
(***************************************************************************)
(* yaml, in one run of four parts: the round trip of documents (emitter,   *)
(* scanner and parser together), the scanner by itself on any lexemes, the *)
(* parser by itself on any tokens and on the sentences of its grammar, and *)
(* the bytes of scalars. `part' says which one moves. The scanner and the  *)
(* parser of the first three are the same variables, so that ScannerInv of *)
(* YamlScanner is checked of the scanner by itself, on lines of three      *)
(* columns and keys of two, and of the texts that the emitter writes.      *)
(***************************************************************************)
EXTENDS YamlScanner

CONSTANTS BestIndent, Nodes, Anything, Alphabet, NoToken

VARIABLES
    part,
    sent, within, events, em,    \* of YamlEmitter
    feed, ahead, read, state, states, marks, node, tags, version, event, failed, keyLost,
    building,                    \* of YamlParser
    got,                         \* of YamlRoundTrip
    value, place, resolves       \* of YamlScalars

emitterVars == <<sent, within, events, em>>
parserVars == <<feed, ahead, read, state, states, marks, node, tags, version, event, failed,
                keyLost, building>>
scalarVars == <<value, place, resolves>>
yamlVars == <<emitterVars, scannerVars, parserVars, got>>

\* Scalars of the shapes the emitter treats differently, with and without a
\* tag, in collections of both styles.
Encoded == INSTANCE YamlEmitter WITH BestWidth <- 5, Nodes <- {}, MaxNodes <- 0, MaxDepth <- 0
DocumentNodes ==
    {Encoded!Scalar(shape, FALSE) : shape \in {"plain", "escaped", "final", "long"}}
    \cup {Encoded!Scalar("empty", TRUE),
          Encoded!Sequence(FALSE, FALSE), Encoded!Sequence(TRUE, FALSE),
          Encoded!Mapping(FALSE, FALSE), Encoded!Mapping(TRUE, TRUE)}

\* The round trip: documents of up to four nodes, on lines of five columns.
Trip == INSTANCE YamlRoundTrip
    WITH BestWidth <- 5, MaxNodes <- 4, MaxDepth <- 3,
         KeyLimit <- 20, MaxColumn <- 40, MaxFlow <- 4, MaxLexemes <- 100, MaxTokens <- 100

\* The tokens of one document, and those between documents.
Inside == {"ALIAS", "ANCHOR", "TAG", "TAG-e", "SCALAR", "BLOCK-ENTRY", "BLOCK-END",
           "KEY", "VALUE", "FLOW-ENTRY", "FLOW-SEQUENCE-START", "FLOW-MAPPING-START",
           "FLOW-SEQUENCE-END", "FLOW-MAPPING-END", "BLOCK-SEQUENCE-START",
           "BLOCK-MAPPING-START"}
Between == {"DOCUMENT-START", "DOCUMENT-END"} \cup Trip!Parser!Directives

\* The parser alone, on every sequence of up to four tokens and on every
\* sentence of up to four terminals (a directive has no one token).
Words == INSTANCE YamlGrammar WITH Length <- 4, Feeds <- {}, MaxTokens <- 4
Fed == {Anything} \cup {s \in Words!Sentences : ~Contains(s, "DIRECTIVE")}
Grammar == INSTANCE YamlGrammar
    WITH Length <- 4, Feeds <- Fed, MaxTokens <- 4, Alphabet <- Inside \cup Between

\* The bytes of scalars of up to four characters, one of them of two bytes.
Characters == {"a", " ", "\n", ":", "#", "-", "'", "\\", "C3"}
Spot == INSTANCE YamlScalars
    WITH BestWidth <- 3, Bytes <- {}, MaxLength <- 0, Places <- {}
Scalars == INSTANCE YamlScalars
    WITH BestWidth <- 3, Bytes <- Characters, MaxLength <- 4,
         Places <- {Spot!Root, Spot!BlockValue, Spot!DeepValue, Spot!SequenceItem,
                    Spot!SimpleKey, Spot!ComplexKey, Spot!FlowItem, Spot!FlowKey}

----------------------------------------------------------------------------
Init ==
    /\ part \in {"round trip", "scanner", "parser", "scalars"}
    /\ Trip!EmitterInit /\ ScannerInit /\ got = <<>>
    /\ IF part = "parser" THEN Grammar!ParserInit ELSE Trip!Parser!ParserInit
    /\ Scalars!ScalarInit
    /\ part # "scalars" => place = Spot!Root /\ ~resolves

Next ==
    /\ \/ part = "round trip" /\ Trip!RoundTripNext /\ UNCHANGED scalarVars
       \/ part = "scanner" /\ ScannerNext
          /\ UNCHANGED <<emitterVars, parserVars, got, scalarVars>>
       \/ part = "parser" /\ Grammar!ParserNext
          /\ UNCHANGED <<emitterVars, scannerVars, got, scalarVars>>
       \/ part = "scalars" /\ Scalars!Grow /\ UNCHANGED yamlVars
    /\ UNCHANGED part

Spec == Init /\ [][Next]_<<part, yamlVars, scalarVars>>

----------------------------------------------------------------------------
\* YamlRoundTrip: what is written is read as it was written.
ReadAsWritten == part = "round trip" => Trip!RoundTripInv

\* YamlGrammar: the parser takes the sentences of its grammar, and only those;
\* its stacks are balanced, and the nodes it builds are well formed.
ParserInv == part = "parser" => Grammar!ParserInv

\* YamlScalars: every string is read back, wherever and however it is written.
ReadsBack == part = "scalars" => Scalars!ReadsBack
==============================================================================
