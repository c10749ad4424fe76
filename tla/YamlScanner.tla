----------------------------- MODULE YamlScanner -----------------------------
(* The scanner of yaml.v1 (scannerc.go), from lexemes to the queue of tokens  *)
(* the parser takes from.  What begins a mapping is known only at the ':'     *)
(* after its first key: until then the key is "simple" and possible, the      *)
(* tokens from it on stay in the queue, and KEY and BLOCK-MAPPING-START are   *)
(* inserted before them.  The text is chosen lexeme by lexeme: a gap with or  *)
(* without a line break, then a lexeme.  Indicators are one column wide, and  *)
(* so is every other lexeme that stays on its line, whose width the gap makes *)
(* arbitrary anyway.                                                          *)
EXTENDS Integers, SequencesExt

CONSTANTS KeyLimit,    \* columns from a simple key to its ':' (1024)
          MaxColumn,   \* bound: columns of a line
          MaxFlow,     \* bound: nested flow collections
          MaxLexemes   \* bound: lexemes after STREAM-START

VARIABLES
  scan,     \* the scanner: column, allowed (simple_key_allowed), indents (the
            \* stack with indent on top), keys (simple_keys), queue, err
  follows,  \* what may follow on the line: "any", "blank" or, after a plain
            \* scalar, "end" of it
  lexemes,  \* lexemes so far; -1 before STREAM-START
  ended,    \* STREAM-END was produced
  open      \* what the parser has open, by the tokens taken; <<"refused">> when
            \* it cannot have accepted them

scannerVars == <<scan, follows, lexemes, ended, open>>

\* A simple key: at, how many tokens of the queue come before it (token_number
\* less tokens_parsed); here, that it is on the current line.
NoKey == [possible |-> FALSE, required |-> FALSE, at |-> 0, column |-> 0, here |-> FALSE]

ScannerInit ==
  /\ scan = [column |-> 0, allowed |-> FALSE, indents |-> <<>>, keys |-> <<>>,
             queue |-> <<>>, err |-> "none"]
  /\ follows = "any"
  /\ lexemes = -1
  /\ ended = FALSE
  /\ open = <<>>

Flow(s) == Len(s.keys) - 1
Block(s) == Flow(s) = 0
Indent(s) == Last(s.indents)
Key(s) == Last(s.keys)
Token(kind, column) == [kind |-> kind, column |-> column]

--------------------------------------------------------------------------------
(* The helpers of the fetchers; an error ends the chain.                      *)

Error(s, why) == [s EXCEPT !.err = why]
WithKey(s, key) == [s EXCEPT !.keys[Len(s.keys)] = key]

\* yaml_insert_token
Append1(s, kind) == IF s.err # "none" THEN s
                    ELSE [s EXCEPT !.queue = Append(@, Token(kind, s.column))]

Stale(s, key) == key.possible /\ (~key.here \/ key.column + KeyLimit < s.column)
StaleKeys(s) ==
  IF \E k \in Range(s.keys) : Stale(s, k) /\ k.required THEN Error(s, "key without a value")
  ELSE [s EXCEPT !.keys = [i \in DOMAIN @ |-> IF Stale(s, @[i]) THEN NoKey ELSE @[i]]]

RemoveKey(s) ==
  IF s.err # "none" THEN s
  ELSE IF Key(s).possible /\ Key(s).required THEN Error(s, "key without a value")
  ELSE WithKey(s, NoKey)

SaveKey(s) ==
  LET required == Block(s) /\ Indent(s) = s.column
      key == [possible |-> TRUE, required |-> required, at |-> Len(s.queue),
              column |-> s.column, here |-> TRUE]
  IN IF s.err # "none" THEN s
     ELSE IF required /\ ~s.allowed THEN Error(s, "panic")
     ELSE IF ~s.allowed THEN s
     ELSE LET cleared == RemoveKey(s)
          IN IF cleared.err # "none" THEN cleared ELSE WithKey(cleared, key)

\* A collection begins at column: its token goes before the one at place.
RollIndent(s, column, place, kind) ==
  IF s.err # "none" \/ ~Block(s) \/ Indent(s) >= column THEN s
  ELSE [s EXCEPT !.indents = Append(@, column),
                 !.queue = InsertAt(@, place + 1, Token(kind, column))]

UnrollIndent(s, column) ==
  LET kept == {i \in DOMAIN s.indents : s.indents[i] <= column}
      n == CHOOSE i \in kept : \A j \in kept : j <= i
  IN IF s.err # "none" \/ ~Block(s) THEN s
     ELSE [s EXCEPT !.indents = SubSeq(@, 1, n),
                    !.queue = @ \o [i \in 1 .. Len(s.indents) - n |->
                                      Token("BLOCK-END", s.column)]]

Allow(s, allowed) == [s EXCEPT !.allowed = allowed]

\* The mark moves on the line, or to a later line.
Along(s, columns) == [s EXCEPT !.column = @ + columns]
NewLine(s, column) ==
  [s EXCEPT !.column = column, !.keys = [i \in DOMAIN @ |-> [@[i] EXCEPT !.here = FALSE]]]

--------------------------------------------------------------------------------
(* fetch_more_tokens: take the first token, or fetch, or fail.                *)

KeyAtHead(s) == s.err = "none" /\ \E k \in Range(s.keys) : k.possible /\ k.at = 0

NeedMore == scan.queue = <<>> \/ KeyAtHead(StaleKeys(scan))

Lives == scan.err = "none" /\ open # <<"refused">>

BlockStarts == {"BLOCK-SEQUENCE-START", "BLOCK-MAPPING-START"}
FlowEnd == [s \in {"FLOW-SEQUENCE-START", "FLOW-MAPPING-START"} |->
              IF s = "FLOW-SEQUENCE-START" THEN "FLOW-SEQUENCE-END" ELSE "FLOW-MAPPING-END"]
Outer == {"DIRECTIVE", "DOCUMENT-START", "DOCUMENT-END", "STREAM-END"}

\* The collections open after one more token.  The parser refuses a flow end
\* without its start, and what belongs outside within a flow collection.
Opened(stack, kind) ==
  LET top == IF stack = <<>> THEN "none" ELSE Last(stack)
      inFlow == top \in DOMAIN FlowEnd
  IN IF stack = <<"refused">> THEN stack ELSE
     CASE kind \in BlockStarts \cup DOMAIN FlowEnd -> Append(stack, kind)
       [] kind = "BLOCK-END" -> IF top \in BlockStarts THEN Front(stack) ELSE <<"broken">>
       [] kind \in {"FLOW-SEQUENCE-END", "FLOW-MAPPING-END"} ->
            IF inFlow /\ FlowEnd[top] = kind THEN Front(stack) ELSE <<"refused">>
       [] kind \in Outer -> IF inFlow THEN <<"refused">>
                            ELSE IF stack # <<>> THEN <<"broken">> ELSE stack
       [] OTHER -> stack

Nearer(key) == IF key.possible THEN [key EXCEPT !.at = @ - 1] ELSE key

TakeToken ==
  /\ Lives /\ lexemes >= 0 /\ scan.queue # <<>> /\ ~NeedMore
  /\ LET s == StaleKeys(scan)
     IN IF s.err # "none" THEN scan' = s /\ UNCHANGED open
        ELSE /\ scan' = [s EXCEPT !.queue = Tail(@), !.keys = [i \in DOMAIN @ |-> Nearer(@[i])]]
             /\ open' = Opened(open, Head(s.queue).kind)
  /\ UNCHANGED <<follows, lexemes, ended>>

FetchStreamStart ==
  /\ lexemes = -1
  /\ scan' = Append1([scan EXCEPT !.indents = <<-1>>, !.keys = <<NoKey>>, !.allowed = TRUE],
                     "STREAM-START")
  /\ lexemes' = 0
  /\ UNCHANGED <<follows, ended, open>>

\* fetch_next_token up to the lexeme: scan_to_next_token, stale keys, BLOCK-ENDs.
\* A line break lets a simple key begin, outside flow collections.
Gaps == {[line |-> FALSE, column |-> c] : c \in {scan.column, scan.column + 1}}
          \cup {[line |-> TRUE, column |-> c] : c \in 0 .. MaxColumn}
InGap(g) ==
  /\ Lives /\ lexemes \in 0 .. MaxLexemes - 1 /\ NeedMore
  /\ g.column <= MaxColumn
  /\ ended => scan.queue # <<>> /\ g = [line |-> FALSE, column |-> scan.column]
  /\ follows = "blank" => g.line \/ g.column > scan.column
After(g) ==
  LET s == StaleKeys(scan)
      moved == IF g.line THEN NewLine(s, g.column) ELSE [s EXCEPT !.column = g.column]
      allowing == Allow(moved, s.allowed \/ (g.line /\ Block(s)))
      fresh == IF s.err # "none" THEN s ELSE StaleKeys(allowing)
  IN UnrollIndent(fresh, fresh.column)

\* A plain scalar just scanned goes on until its end: ": ", the indicators of
\* flow collections in one, a comment (which a line break follows), or "---".
MayFollow(g, kind) ==
  (follows = "end" /\ ~g.line) =>
     \/ kind = "value"
     \/ ~Block(scan) /\ kind \in {"flow start", "flow end", "entry", "key"}
     \/ g.column = 0 /\ kind = "document"

Fetch(g, kind, next, s) ==
  /\ InGap(g) /\ MayFollow(g, kind) /\ ~ended
  /\ scan' = s
  /\ follows' = next
  /\ lexemes' = lexemes + 1
  /\ UNCHANGED <<ended, open>>

--------------------------------------------------------------------------------
(* The fetchers.                                                              *)
\* Mutant: the end of the text does not force a new line.
FetchStreamEndInLine(g) ==
  /\ InGap(g)
  /\ LET s == After(g)
         out == UnrollIndent(s, -1)
     IN scan' = Append1(Allow(RemoveKey(out), FALSE), "STREAM-END")
  /\ ended' = TRUE
  /\ UNCHANGED <<follows, lexemes, open>>

FetchStreamEnd(g) ==
  /\ InGap(g)
  /\ LET s == After(g)
         line == IF s.column # 0 THEN NewLine(s, 0) ELSE s
         out == UnrollIndent(line, -1)
     IN scan' = Append1(Allow(RemoveKey(out), FALSE), "STREAM-END")
  /\ ended' = TRUE
  /\ UNCHANGED <<follows, lexemes, open>>

\* The line of the directive is scanned to its end.
FetchDirective(g) ==
  LET s == Append1(Allow(RemoveKey(UnrollIndent(After(g), -1)), FALSE), "DIRECTIVE")
  IN g.column = 0 /\ Fetch(g, "directive", "any", NewLine(s, 0))

FetchDocumentIndicator(g, kind) ==
  LET s == Append1(Allow(RemoveKey(UnrollIndent(After(g), -1)), FALSE), kind)
  IN g.column = 0 /\ Fetch(g, "document", "blank", Along(s, 3))

FetchFlowStart(g, kind) ==
  LET s == SaveKey(After(g))
      deeper == IF s.err # "none" THEN s ELSE [s EXCEPT !.keys = Append(@, NoKey)]
  IN /\ lexemes >= 0 /\ Flow(scan) < MaxFlow
     /\ Fetch(g, "flow start", "any", Along(Append1(Allow(deeper, TRUE), kind), 1))

FetchFlowEnd(g, kind) ==
  LET s == RemoveKey(After(g))
      shallower == IF s.err # "none" \/ Block(s) THEN s ELSE [s EXCEPT !.keys = Front(@)]
  IN Fetch(g, "flow end", "any", Along(Append1(Allow(shallower, FALSE), kind), 1))

FetchFlowEntry(g) ==
  Fetch(g, "entry", "any", Along(Append1(Allow(RemoveKey(After(g)), TRUE), "FLOW-ENTRY"), 1))

\* '-' and '?' outside flow collections must be where a key could begin.
FetchBlockEntry(g) ==
  LET s == After(g)
      new == IF Block(s) /\ ~s.allowed THEN Error(s, "not allowed here")
             ELSE RollIndent(s, s.column, Len(s.queue), "BLOCK-SEQUENCE-START")
  IN Fetch(g, "block entry", "blank",
           Along(Append1(Allow(RemoveKey(new), TRUE), "BLOCK-ENTRY"), 1))

FetchKey(g) ==
  LET s == After(g)
      new == IF Block(s) /\ ~s.allowed THEN Error(s, "not allowed here")
             ELSE RollIndent(s, s.column, Len(s.queue), "BLOCK-MAPPING-START")
  IN Fetch(g, "key", IF Block(s) THEN "blank" ELSE "any",
           Along(Append1(Allow(RemoveKey(new), Block(s)), "KEY"), 1))

\* ':' after a simple key, or a complex one.
SimpleValue(s) ==
  LET key == Key(s)
      keyed == [s EXCEPT !.queue = InsertAt(@, key.at + 1, Token("KEY", key.column))]
      rolled == RollIndent(keyed, key.column, key.at, "BLOCK-MAPPING-START")
  IN Allow(WithKey(rolled, NoKey), FALSE)
ComplexValue(s) ==
  IF Block(s) /\ ~s.allowed THEN Error(s, "not allowed here")
  ELSE Allow(RollIndent(s, s.column, Len(s.queue), "BLOCK-MAPPING-START"), Block(s))

FetchValue(g) ==
  LET s == After(g)
      new == IF s.err # "none" THEN s
             ELSE IF Key(s).possible THEN SimpleValue(s) ELSE ComplexValue(s)
  IN Fetch(g, "value", IF Block(s) THEN "blank" ELSE "any", Along(Append1(new, "VALUE"), 1))

\* Anchors, aliases and tags.
FetchAnchor(g) ==
  Fetch(g, "anchor", "any", Along(Append1(Allow(SaveKey(After(g)), FALSE), "ANCHOR"), 1))

\* Scalars end on their line, or at a column of a later one; a plain scalar may
\* have taken line breaks after its last word.
Ended(s, to) == IF to.line THEN NewLine(s, to.column) ELSE Along(s, 1)
Ends == {[line |-> FALSE, column |-> 0, broken |-> FALSE]}
          \cup {[line |-> TRUE, column |-> c, broken |-> b] : c \in 0 .. MaxColumn, b \in BOOLEAN}

\* A literal or folded scalar ends at the beginning of a line.
FetchBlockScalar(g, to) ==
  /\ lexemes >= 0 /\ Block(scan) /\ to.broken
  /\ Fetch(g, "block scalar", "any",
           Ended(Append1(Allow(RemoveKey(After(g)), TRUE), "SCALAR"), to))

\* A quoted scalar ends after its quote.
FetchFlowScalar(g, to) ==
  /\ ~to.broken /\ (to.line => to.column > 0)
  /\ Fetch(g, "quoted", "any", Ended(Append1(Allow(SaveKey(After(g)), FALSE), "SCALAR"), to))

\* After line breaks the end of a plain scalar is found on a later line, and a
\* simple key may follow then.
FetchPlainScalar(g, to) ==
  LET s == Append1(Allow(SaveKey(After(g)), FALSE), "SCALAR")
      next == IF to.broken /\ Block(s) /\ to.column <= Indent(s) THEN "any" ELSE "end"
  IN Fetch(g, "plain", next, Allow(Ended(s, to), s.allowed \/ to.broken))

\* A character that begins no token, or a lexeme that is not well formed.
FetchNothing(g) == Fetch(g, "bad", "any", Error(scan, "not a token"))

FetchNextToken ==
  \E g \in Gaps :
    \/ FetchStreamEnd(g)
    \/ FetchDirective(g)
    \/ \E kind \in {"DOCUMENT-START", "DOCUMENT-END"} : FetchDocumentIndicator(g, kind)
    \/ \E kind \in DOMAIN FlowEnd : FetchFlowStart(g, kind)
    \/ \E kind \in DOMAIN FlowEnd : FetchFlowEnd(g, FlowEnd[kind])
    \/ FetchFlowEntry(g)
    \/ FetchBlockEntry(g)
    \/ FetchKey(g)
    \/ FetchValue(g)
    \/ FetchAnchor(g)
    \/ \E to \in Ends : FetchBlockScalar(g, to)
    \/ \E to \in Ends : FetchFlowScalar(g, to)
    \/ \E to \in Ends : FetchPlainScalar(g, to)
    \/ FetchNothing(g)

ScannerNext == TakeToken \/ FetchStreamStart \/ FetchNextToken

ScannerSpec == ScannerInit /\ [][ScannerNext]_scannerVars

--------------------------------------------------------------------------------

ScannerTypeOK ==
  /\ scan.column \in Nat /\ scan.allowed \in BOOLEAN
  /\ \A k \in Range(scan.keys) : k.at \in Nat /\ k.possible \in BOOLEAN
  /\ follows \in {"any", "blank", "end"} /\ ended \in BOOLEAN

\* A possible simple key still has its token in the queue, where KEY can be
\* put before it, however many tokens were taken and inserted since; keys of
\* inner collections come after those of outer ones.
KeysInQueue ==
  scan.err = "none" =>
    \A i \in DOMAIN scan.keys :
      LET k == scan.keys[i] IN
      k.possible => /\ k.at \in 0 .. Len(scan.queue) - 1
                    /\ scan.queue[k.at + 1].column = k.column
                    /\ scan.queue[k.at + 1].kind \in {"SCALAR", "ANCHOR"} \cup DOMAIN FlowEnd
                    /\ \A j \in 1 .. i - 1 : scan.keys[j].possible => scan.keys[j].at < k.at

\* Every block collection is opened and closed at its indentation, within and
\* around the flow collections and whole documents: the tokens taken and those
\* in the queue leave as many open as the stack of indentations has, which grow.
BlocksNest ==
  scan.err = "none" /\ lexemes >= 0 =>
    LET after == FoldLeft(Opened, open, [i \in DOMAIN scan.queue |-> scan.queue[i].kind])
    IN after # <<"refused">> =>
         /\ Cardinality({i \in DOMAIN after : after[i] \in BlockStarts}) = Len(scan.indents) - 1
         /\ "broken" \notin Range(after)
         /\ \A i \in 1 .. Len(scan.indents) - 1 : scan.indents[i] < scan.indents[i + 1]

\* After STREAM-END nothing is fetched any more.
EndIsEnd == ended /\ scan.err = "none" /\ scan.queue # <<>> => ~NeedMore

ScannerInv == ScannerTypeOK /\ KeysInQueue /\ BlocksNest /\ EndIsEnd

\* "A simple key is required only when it is the first token in the current
\* line.  Therefore it is always allowed.": the panic that says so is never hit.
SimpleKeyAllowed == scan.err # "panic"
================================================================================
