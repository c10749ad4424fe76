------------------------------ MODULE YamlEmitter ------------------------------
(* The emitter of yaml.v1 (emitterc.go) under the encoder (encode.go): events *)
(* of one document become lexemes at the columns where the emitter puts them. *)
(* A scalar is known by its shape, and every lexeme is one column wide; what  *)
(* a scalar's bytes become is in YamlScalars.                                 *)
EXTENDS Integers, SequencesExt

CONSTANTS BestIndent,  \* columns of an indentation (2)
          BestWidth,   \* columns after which a line is folded (80)
          Nodes,       \* events of the nodes the encoder may be given
          MaxNodes,    \* bound: nodes of the document
          MaxDepth     \* bound: nested collections

VARIABLES sent,    \* history: the events the encoder emitted
          within,  \* the encoder's calls: collections it is in, and whether a
                   \* mapping's value is due
          events,  \* emitter.events from events_head on
          em       \* the rest of the emitter, and its text

emitterVars == <<sent, within, events, em>>

\* A node: a collection's start with the style asked for, or a scalar: "plain",
\* "quoted" on one line, "escaped" for line breaks no literal can hold,
\* "literal", "final" for a literal with a line break at its end, "long" for more
\* than a simple key can hold, "empty".
Scalar(shape, tag) == [typ |-> "SCALAR", shape |-> shape, flow |-> FALSE, tag |-> tag]
Sequence(flow, tag) == [typ |-> "SEQUENCE-START", shape |-> "", flow |-> flow, tag |-> tag]
Mapping(flow, tag) == [typ |-> "MAPPING-START", shape |-> "", flow |-> flow, tag |-> tag]
Mark(typ) == [typ |-> typ, shape |-> "", flow |-> FALSE, tag |-> FALSE]

Starts == {"STREAM-START", "DOCUMENT-START", "SEQUENCE-START", "MAPPING-START"}
Stops == {"STREAM-END", "DOCUMENT-END", "SEQUENCE-END", "MAPPING-END"}

EmitterInit ==
  /\ sent = <<>> /\ within = <<>> /\ events = <<>>
  /\ em = [state |-> "stream start", states |-> <<>>, indent |-> -1, indents |-> <<>>,
           flow |-> 0, mapping |-> FALSE, key |-> FALSE,
           column |-> 0, line |-> FALSE, whitespace |-> TRUE, indention |-> TRUE,
           text |-> <<>>]

--------------------------------------------------------------------------------
(* The encoder: marshal calls itself for each node within a node.             *)

\* Mutant: a sequence is begun before it is known to be empty or not.
NeedMoreForMappings ==
  events # <<>> =>
     LET first == events[1].typ
         extra == CASE first = "DOCUMENT-START" -> 1 [] first = "SEQUENCE-START" -> 0
                    [] first = "MAPPING-START" -> 3 [] OTHER -> -1
         Level(n) == Cardinality({i \in 1 .. n : events[i].typ \in Starts})
                       - Cardinality({i \in 1 .. n : events[i].typ \in Stops})
     IN Len(events) <= extra /\ \A n \in DOMAIN events : Level(n) # 0

\* yaml_emitter_need_more_events: how many events after one of these are
\* awaited, unless its end is among fewer.
NeedMore ==
  events # <<>> =>
     LET first == events[1].typ
         extra == CASE first = "DOCUMENT-START" -> 1 [] first = "SEQUENCE-START" -> 2
                    [] first = "MAPPING-START" -> 3 [] OTHER -> -1
         Level(n) == Cardinality({i \in 1 .. n : events[i].typ \in Starts})
                       - Cardinality({i \in 1 .. n : events[i].typ \in Stops})
     IN Len(events) <= extra /\ \A n \in DOMAIN events : Level(n) # 0

Give(event) == NeedMore /\ sent' = Append(sent, event) /\ events' = Append(events, event)

\* The innermost call after one more node.
Done(calls) == IF calls = <<>> THEN calls
               ELSE CASE Last(calls) = "document" -> Front(calls) \o <<"complete">>
                      [] Last(calls) = "key" -> Front(calls) \o <<"value">>
                      [] Last(calls) = "value" -> Front(calls) \o <<"key">>
                      [] OTHER -> calls

NewEncoder ==
  /\ \/ sent = <<>> /\ Give(Mark("STREAM-START")) /\ UNCHANGED within
     \/ Len(sent) = 1 /\ Give(Mark("DOCUMENT-START")) /\ within' = <<"document">>
  /\ UNCHANGED em

Given == Cardinality({i \in DOMAIN sent : sent[i].typ \notin Stops}) - 2

Marshal ==
  /\ within # <<>> /\ Last(within) # "complete"
  /\ \E node \in Nodes :
       \* bounds: what is due, a value and the document's node, fits
       /\ Given + Cardinality({i \in DOMAIN within : within[i] = "value"})
            + (CASE Last(within) = "value" -> 0 [] Last(within) = "key" -> 2 [] OTHER -> 1)
            <= MaxNodes
       /\ node.typ # "SCALAR" => Len(within) <= MaxDepth
       /\ Give(node)
       /\ within' = CASE node.typ = "SCALAR" -> Done(within)
                      [] node.typ = "SEQUENCE-START" -> Append(Done(within), "sequence")
                      [] node.typ = "MAPPING-START" -> Append(Done(within), "key")
  /\ UNCHANGED em

EndCollection ==
  /\ within # <<>>
  /\ \/ Last(within) = "sequence" /\ Give(Mark("SEQUENCE-END"))
     \/ Last(within) = "key" /\ Give(Mark("MAPPING-END"))
  /\ within' = Front(within)
  /\ UNCHANGED em

Finish ==
  /\ \/ within = <<"complete">> /\ Give(Mark("DOCUMENT-END")) /\ within' = <<>>
     \/ within = <<>> /\ sent # <<>> /\ Last(sent).typ = "DOCUMENT-END"
        /\ Give(Mark("STREAM-END")) /\ UNCHANGED within
  /\ UNCHANGED em

--------------------------------------------------------------------------------
(* Writing.  line: a line break stands before the column.                     *)

PutBreak(e) == [e EXCEPT !.column = 0, !.line = TRUE]

\* yaml_emitter_write_indent
WriteIndent(e) ==
  LET indent == IF e.indent < 0 THEN 0 ELSE e.indent
      breaks == ~e.indention \/ e.column > indent \/ (e.column = indent /\ ~e.whitespace)
      at == IF breaks THEN PutBreak(e) ELSE e
  IN [at EXCEPT !.column = IF @ < indent THEN indent ELSE @,
                !.whitespace = TRUE, !.indention = TRUE]

Spaced(e, needSpace) == IF needSpace /\ ~e.whitespace THEN [e EXCEPT !.column = @ + 1] ELSE e
WriteLexeme(e, kind) ==
  [e EXCEPT !.text = Append(@, [kind |-> kind, line |-> e.line, column |-> e.column,
                                later |-> -1]),
            !.column = @ + 1, !.line = FALSE, !.whitespace = FALSE, !.indention = FALSE]

\* yaml_emitter_write_indicator
WriteIndicator(e, kind, needSpace, isSpace, isIndention) ==
  [WriteLexeme(Spaced(e, needSpace), kind)
     EXCEPT !.whitespace = isSpace, !.indention = e.indention /\ isIndention]

WriteTag(e, event) == IF event.tag THEN WriteLexeme(Spaced(e, TRUE), "tag") ELSE e

\* The lexeme just written goes on to a column of a later line.
Later(e, column) == [e EXCEPT !.text[Len(e.text)].later = column, !.column = column]

IncreaseIndent(e, flow, indentless) ==
  [e EXCEPT !.indents = Append(@, e.indent),
            !.indent = IF @ < 0 THEN (IF flow THEN BestIndent ELSE 0)
                       ELSE IF indentless THEN @ ELSE @ + BestIndent]
DecreaseIndent(e) == [e EXCEPT !.indent = Last(e.indents), !.indents = Front(@)]

Return(e) == [e EXCEPT !.state = Last(e.states), !.states = Front(@)]
Call(e, return) == [e EXCEPT !.states = Append(@, return)]

--------------------------------------------------------------------------------
(* Nodes.                                                                     *)

CheckEmpty == Len(events) >= 2 /\ events[2].typ \in Stops

\* yaml_emitter_check_simple_key; a "long" scalar has more than 128 bytes.
CheckSimpleKey ==
  IF events[1].typ = "SCALAR" THEN events[1].shape \notin {"escaped", "literal", "final", "long"}
  ELSE CheckEmpty

\* yaml_emitter_select_scalar_style
Style(e, shape) ==
  CASE shape = "escaped" -> "quoted"
    [] shape \in {"literal", "final"} /\ (e.flow > 0 \/ e.key) -> "quoted"
    [] shape = "empty" /\ (e.flow > 0 \/ e.key) -> "quoted"
    [] OTHER -> shape

WriteScalar(e, style) ==
  CASE style = "plain" -> WriteLexeme(Spaced(e, TRUE), "plain")
    [] style = "quoted" -> WriteIndicator(e, "quoted", TRUE, FALSE, FALSE)
    [] style = "empty" -> [Spaced(e, TRUE) EXCEPT !.whitespace = FALSE, !.indention = FALSE]
    [] style = "long" ->    \* folded once, its end one column wide
         LET begun == WriteLexeme(Spaced(e, TRUE), "plain") IN Later(begun, e.indent + 1)
    [] style = "literal" ->
         LET begun == WriteIndicator(e, "block", TRUE, FALSE, FALSE)
         IN [Later(begun, e.indent + 1) EXCEPT !.whitespace = TRUE]
    [] style = "final" ->
         LET begun == WriteIndicator(e, "block", TRUE, FALSE, FALSE)
         IN [PutBreak(Later(begun, e.indent + 1)) EXCEPT !.whitespace = TRUE, !.indention = TRUE]

\* yaml_emitter_emit_node
EmitNode(e, mapping, key) ==
  LET event == events[1]
      at == [e EXCEPT !.mapping = mapping, !.key = key]
      style == Style(at, event.shape)
      scalar == WriteScalar(IncreaseIndent(WriteTag(at, event), TRUE, FALSE), style)
      flow == at.flow > 0 \/ event.flow \/ CheckEmpty
  IN CASE event.typ = "SCALAR" -> Return(DecreaseIndent(scalar))
       [] event.typ = "SEQUENCE-START" ->
            [WriteTag(at, event) EXCEPT !.state = IF flow THEN "flow sequence first"
                                                  ELSE "block sequence first"]
       [] event.typ = "MAPPING-START" ->
            [WriteTag(at, event) EXCEPT !.state = IF flow THEN "flow mapping first"
                                                  ELSE "block mapping first"]

--------------------------------------------------------------------------------
(* The state machine.                                                         *)

Step(e) == em' = e /\ events' = Tail(events) /\ UNCHANGED <<sent, within>>
At(state) == ~NeedMore /\ em.state = state

EmitStreamStart == At("stream start") /\ Step([em EXCEPT !.state = "document start"])

\* The first document is implicit: no indicator begins or ends it.
EmitDocumentStart ==
  /\ At("document start")
  /\ IF events[1].typ = "STREAM-END" THEN Step([em EXCEPT !.state = "end"])
     ELSE Step([em EXCEPT !.state = "document content"])
EmitDocumentContent ==
  At("document content") /\ Step(EmitNode(Call(em, "document end"), FALSE, FALSE))
EmitDocumentEnd ==
  At("document end") /\ Step([WriteIndent(em) EXCEPT !.state = "document start"])

\* [ and { begin, ] and } end a collection.
BeginFlow(e, kind) ==
  [IncreaseIndent(WriteIndicator(e, kind, TRUE, TRUE, FALSE), TRUE, FALSE) EXCEPT !.flow = @ + 1]
EndFlow(e, kind) ==
  Return(WriteIndicator([DecreaseIndent(e) EXCEPT !.flow = @ - 1], kind, FALSE, FALSE, FALSE))
Wrapped(e) == IF e.column > BestWidth THEN WriteIndent(e) ELSE e

EmitFlowSequenceItem ==
  \E first \in BOOLEAN :
    LET e == IF first THEN BeginFlow(em, "[") ELSE em
        next == IF first THEN e ELSE WriteIndicator(e, ",", FALSE, FALSE, FALSE)
    IN /\ At(IF first THEN "flow sequence first" ELSE "flow sequence")
       /\ Step(IF events[1].typ = "SEQUENCE-END" THEN EndFlow(e, "]")
               ELSE EmitNode(Call(Wrapped(next), "flow sequence"), FALSE, FALSE))

EmitFlowMappingKey ==
  \E first \in BOOLEAN :
    LET e == IF first THEN BeginFlow(em, "{") ELSE em
        next == Wrapped(IF first THEN e ELSE WriteIndicator(e, ",", FALSE, FALSE, FALSE))
    IN /\ At(IF first THEN "flow mapping first" ELSE "flow mapping")
       /\ Step(IF events[1].typ = "MAPPING-END" THEN EndFlow(e, "}")
               ELSE IF CheckSimpleKey
                    THEN EmitNode(Call(next, "flow mapping simple value"), TRUE, TRUE)
                    ELSE EmitNode(Call(WriteIndicator(next, "?", TRUE, FALSE, FALSE),
                                       "flow mapping value"), TRUE, FALSE))

EmitFlowMappingValue ==
  \E simple \in BOOLEAN :
    LET e == IF simple THEN WriteIndicator(em, ":", FALSE, FALSE, FALSE)
             ELSE WriteIndicator(Wrapped(em), ":", TRUE, FALSE, FALSE)
    IN /\ At(IF simple THEN "flow mapping simple value" ELSE "flow mapping value")
       /\ Step(EmitNode(Call(e, "flow mapping"), TRUE, FALSE))

\* A sequence that is a mapping's value is not indented further.
EmitBlockSequenceItem ==
  \E first \in BOOLEAN :
    LET e == IF first THEN IncreaseIndent(em, FALSE, em.mapping /\ ~em.indention) ELSE em
        item == WriteIndicator(WriteIndent(e), "-", TRUE, FALSE, TRUE)
    IN /\ At(IF first THEN "block sequence first" ELSE "block sequence")
       /\ Step(IF events[1].typ = "SEQUENCE-END" THEN Return(DecreaseIndent(e))
               ELSE EmitNode(Call(item, "block sequence"), FALSE, FALSE))

EmitBlockMappingKey ==
  \E first \in BOOLEAN :
    LET e == IF first THEN IncreaseIndent(em, FALSE, FALSE) ELSE em
        next == WriteIndent(e)
    IN /\ At(IF first THEN "block mapping first" ELSE "block mapping")
       /\ Step(IF events[1].typ = "MAPPING-END" THEN Return(DecreaseIndent(e))
               ELSE IF CheckSimpleKey
                    THEN EmitNode(Call(next, "block mapping simple value"), TRUE, TRUE)
                    ELSE EmitNode(Call(WriteIndicator(next, "?", TRUE, FALSE, TRUE),
                                       "block mapping value"), TRUE, FALSE))

EmitBlockMappingValue ==
  \E simple \in BOOLEAN :
    LET e == IF simple THEN WriteIndicator(em, ":", FALSE, FALSE, FALSE)
             ELSE WriteIndicator(WriteIndent(em), ":", TRUE, FALSE, TRUE)
    IN /\ At(IF simple THEN "block mapping simple value" ELSE "block mapping value")
       /\ Step(EmitNode(Call(e, "block mapping"), TRUE, FALSE))

EmitterNext ==
  \/ NewEncoder \/ Marshal \/ EndCollection \/ Finish
  \/ EmitStreamStart \/ EmitDocumentStart \/ EmitDocumentContent \/ EmitDocumentEnd
  \/ EmitFlowSequenceItem \/ EmitFlowMappingKey \/ EmitFlowMappingValue
  \/ EmitBlockSequenceItem \/ EmitBlockMappingKey \/ EmitBlockMappingValue

EmitterSpec == EmitterInit /\ [][EmitterNext]_emitterVars

\* The text is complete.
Emitted == em.state = "end" /\ events = <<>>
================================================================================
