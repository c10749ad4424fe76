----------------------------- MODULE YamlRoundTrip -----------------------------
(* A document written by the emitter is read back: the scanner gets the       *)
(* lexemes of the text where the emitter put them, the parser the scanner's   *)
(* tokens.                                                                    *)
EXTENDS YamlEmitter

CONSTANTS KeyLimit, MaxColumn, MaxFlow, MaxLexemes, Anything, Alphabet, MaxTokens, NoToken

VARIABLES scan, follows, lexemes, ended, open,
          feed, ahead, read, state, states, marks, node, tags, version, event, failed,
          keyLost, building,
          got    \* history: the parser's events

Scanner == INSTANCE YamlScanner
Parser == INSTANCE YamlParser WITH Feeds <- {Anything}

scannerState == <<scan, follows, lexemes, ended, open>>
parserState == <<feed, ahead, read, state, states, marks, node, tags, version, event,
                 failed, keyLost, building>>
roundTripVars == <<emitterVars, scannerState, parserState, got>>

RoundTripInit == EmitterInit /\ Scanner!ScannerInit /\ Parser!ParserInit /\ got = <<>>

Write == EmitterNext /\ UNCHANGED <<scannerState, parserState, got>>

--------------------------------------------------------------------------------
\* Where lexeme n ends: a scalar may take the line break after it, a block
\* scalar no more of the next line than its own indentation.
LineBreak(n) == IF n < Len(em.text) THEN em.text[n + 1].line ELSE TRUE
Column(n) == IF n < Len(em.text) THEN em.text[n + 1].column ELSE 0
Least(a, b) == IF a < b THEN a ELSE b
ToEnd(n) ==
  LET x == em.text[n] IN
  CASE x.kind = "plain" /\ LineBreak(n) -> [line |-> TRUE, column |-> Column(n), broken |-> TRUE]
    [] x.kind = "plain" /\ ~LineBreak(n) -> [line |-> x.later >= 0, column |-> x.later, broken |-> FALSE]
    [] x.kind = "block" -> [line |-> TRUE, column |-> Least(Column(n), x.later - 1),
                           broken |-> TRUE]
    [] OTHER -> [line |-> FALSE, column |-> 0, broken |-> FALSE]

\* The gap before lexeme n, or before the end of the text.
Gap(n) ==
  [line |-> (n > 1 => em.text[n - 1].kind \notin {"plain", "block"})
            /\ (n > 1 => LineBreak(n - 1)) /\ (n = 1 => em.text # <<>> /\ em.text[1].line),
   column |-> IF n = 1 THEN 0 ELSE Column(n - 1)]

\* What the scanner fetches lexemes as.
Kinds == [kind \in {"[", "{", "]", "}", ",", "-", "?", ":", "tag", "block", "quoted", "plain"} |->
            CASE kind \in {"[", "{"} -> "flow start" [] kind \in {"]", "}"} -> "flow end"
              [] kind = "," -> "entry" [] kind = "-" -> "block entry" [] kind = "?" -> "key"
              [] kind = ":" -> "value" [] kind = "tag" -> "anchor"
              [] kind = "block" -> "block scalar" [] OTHER -> kind]

ReadLexeme ==
  /\ Emitted
  /\ LET n == lexemes + 1
         g == Gap(n)
         kind == IF n > Len(em.text) THEN "end" ELSE em.text[n].kind
     IN CASE n = 0 -> Scanner!FetchStreamStart
          [] kind = "end" -> ~ended /\ Scanner!FetchStreamEnd(g)
          [] kind = "[" -> Scanner!FetchFlowStart(g, "FLOW-SEQUENCE-START")
          [] kind = "{" -> Scanner!FetchFlowStart(g, "FLOW-MAPPING-START")
          [] kind = "]" -> Scanner!FetchFlowEnd(g, "FLOW-SEQUENCE-END")
          [] kind = "}" -> Scanner!FetchFlowEnd(g, "FLOW-MAPPING-END")
          [] kind = "," -> Scanner!FetchFlowEntry(g)
          [] kind = "-" -> Scanner!FetchBlockEntry(g)
          [] kind = "?" -> Scanner!FetchKey(g)
          [] kind = ":" -> Scanner!FetchValue(g)
          [] kind = "tag" -> Scanner!FetchAnchor(g)
          [] kind = "block" -> Scanner!FetchBlockScalar(g, ToEnd(n))
          [] kind = "quoted" -> Scanner!FetchFlowScalar(g, ToEnd(n))
          [] kind = "plain" -> Scanner!FetchPlainScalar(g, ToEnd(n))
  /\ UNCHANGED <<emitterVars, parserState, got>>

\* peek_token: the parser waits for one token.
NextToken ==
  /\ Parser!PeekToken
  /\ Scanner!TakeToken
  /\ LET kind == Head(scan.queue).kind
     IN ahead' = IF kind = "ANCHOR" THEN "TAG" ELSE kind
  /\ UNCHANGED <<emitterVars, got>>

\* A parse step, with its event and whether it is of a node with a tag.
ParseStep ==
  /\ Parser!Parse
  /\ got' = IF event' = "none" THEN got
            ELSE Append(got, [typ |-> event', tag |-> state = "NODE" /\ node.tag])
  /\ UNCHANGED <<emitterVars, scannerState>>

Read == NextToken \/ ParseStep \/ (ahead = NoToken /\ state # "END" /\ ReadLexeme)

RoundTripNext == Write \/ Read

RoundTripSpec == RoundTripInit /\ [][RoundTripNext]_roundTripVars

--------------------------------------------------------------------------------
Sent == [i \in DOMAIN sent |-> [typ |-> sent[i].typ, tag |-> sent[i].tag]]

\* The parser never reads another event than the one the encoder sent, and at
\* the end it has read them all; the scanner finds no error in the text.
ReadsSent == /\ scan.err = "none" /\ ~failed
             /\ IsPrefix(got, Sent)
             /\ state = "END" => got = Sent

\* A lexeme the scanner comes to is one it can tell from the lexeme before it:
\* nothing the emitter puts after a plain scalar, a ':' or a '-' is taken for
\* more of it.
LexemesApart ==
  /\ Emitted /\ lexemes \in 0 .. Len(em.text) /\ ahead = NoToken /\ state # "END"
  /\ Scanner!NeedMore /\ ~ended
  => LET g == Gap(lexemes + 1)
     IN /\ Scanner!InGap(g)
        /\ lexemes < Len(em.text) => Scanner!MayFollow(g, Kinds[em.text[lexemes + 1].kind])

\* Whatever document is written, in block or flow style, with literals, folded
\* scalars, empty ones and complex keys, is read as it was written: the
\* emitter's look-ahead, indentations and line breaks leave the scanner no
\* other reading.
RoundTripInv == ReadsSent /\ LexemesApart
================================================================================
