----------------------------- MODULE YamlScalars -----------------------------
(* Strings written by the emitter of yaml.v1 and read back by its scanner,    *)
(* byte by byte: encode.go asks for a style, emitterc.go analyses the string, *)
(* settles on a style that can hold it where it stands and folds long lines;  *)
(* scannerc.go undoes that.  A byte is a character of ASCII, or "C3" and "A9",*)
(* which together are a letter outside ASCII; "E9" stands for the two hex     *)
(* digits of that letter's code.                                              *)
EXTENDS Integers, SequencesExt

CONSTANTS BestWidth,   \* columns after which a line is folded (80)
          BestIndent,  \* columns of an indentation (2)
          Bytes,       \* bytes the string is made of
          MaxLength,   \* bound: its length
          Places       \* where it is written, of those below

VARIABLES value, place, resolves  \* the string, where, what resolve() makes of it

scalarVars == <<value, place, resolves>>

\* A place: the emitter's state as it comes to the scalar, and what follows.
Place(flow, key, indent, column, whitespace, indention, tail) ==
  [flow |-> flow, key |-> key, indent |-> indent, column |-> column,
   whitespace |-> whitespace, indention |-> indention, tail |-> tail]
Root == Place(FALSE, FALSE, -1, 0, TRUE, TRUE, <<>>)
BlockValue == Place(FALSE, FALSE, 0, 2, FALSE, FALSE, <<"a", ":">>)
DeepValue == Place(FALSE, FALSE, 2, 4, FALSE, FALSE, <<"a", ":">>)
SequenceItem == Place(FALSE, FALSE, 0, 1, FALSE, TRUE, <<"-", " ">>)
SimpleKey == Place(FALSE, TRUE, 0, 0, TRUE, TRUE, <<":", " ">>)
ComplexKey == Place(FALSE, FALSE, 0, 1, FALSE, TRUE, <<":", " ">>)
FlowItem == Place(TRUE, FALSE, 2, 1, TRUE, FALSE, <<",">>)
FlowKey == Place(TRUE, TRUE, 2, 1, TRUE, FALSE, <<":", " ">>)

At(s, i) == IF i \in DOMAIN s THEN s[i] ELSE "NUL"
Space(c) == c = " "
Blank(c) == c \in {" ", "\t"}
Break(c) == c = "\n"
Blankz(c) == Blank(c) \/ Break(c) \/ c = "NUL"
Ascii(c) == c \notin {"C3", "A9"}
Printable(c) == c \notin {"\t", "A9"}
Width(c) == IF c = "C3" THEN 2 ELSE 1

--------------------------------------------------------------------------------
(* yaml_emitter_analyze_scalar.  The width of the first byte is taken for     *)
(* that of every one.                                                         *)

Seen(s) == {i \in DOMAIN s : (i - 1) % Width(s[1]) = 0}

Markers == {<<"-", "-", "-">>, <<".", ".", ".">>}
Followed(s, i) == i + Width(s[1]) > Len(s) \/ Blank(s[i + Width(s[1])])
Preceded(s, i) == i = 1 \/ Blankz(At(s, i - Width(s[1])))

BlockIndicators(s) ==
  \/ \E marker \in Markers : IsPrefix(marker, s)
  \/ \E i \in Seen(s) :
       \/ i = 1 /\ s[i] \in {"#", ",", "[", "]", "{", "}", "&", "*", "!", "|", ">", "'", "\"", "%"}
       \/ i = 1 /\ s[i] \in {"?", "-"} /\ Followed(s, i)
       \/ s[i] = ":" /\ Followed(s, i)
       \/ s[i] = "#" /\ Preceded(s, i)
FlowIndicators(s) ==
  \/ BlockIndicators(s)
  \/ \E i \in Seen(s) : s[i] \in {",", "?", "[", "]", "{", "}", ":"}

Special(s) == \E i \in Seen(s) : ~Printable(s[i]) \/ ~Ascii(s[i])
Edge(s) == Space(s[1]) \/ Break(s[1]) \/ Space(s[Len(s)]) \/ Break(s[Len(s)])
Pair(s, P(_), Q(_)) == \E i \in 1 .. Len(s) - 1 : P(s[i]) /\ Q(s[i + 1])
Multiline(s) == \E i \in Seen(s) : Break(s[i])

BlockPlainAllowed(s) ==
  s = <<>> \/ ~(Edge(s) \/ Special(s) \/ Multiline(s) \/ BlockIndicators(s))
FlowPlainAllowed(s) == s # <<>> /\ BlockPlainAllowed(s) /\ ~FlowIndicators(s)
SingleAllowed(s) ==
  s = <<>> \/ ~(Pair(s, Break, Space) \/ Pair(s, Space, Break) \/ Special(s))
BlockAllowed(s) == s # <<>> /\ ~(Space(s[Len(s)]) \/ Pair(s, Space, Break) \/ Special(s))

\* encode.go, stringv: a string that reads as something else is quoted.
Asked == IF resolves THEN "double" ELSE IF Multiline(value) THEN "literal" ELSE "plain"

\* yaml_emitter_select_scalar_style
Style ==
  LET first == IF place.key /\ Multiline(value) THEN "double" ELSE Asked
      plain == /\ IF place.flow THEN FlowPlainAllowed(value) ELSE BlockPlainAllowed(value)
               /\ value = <<>> => ~place.flow /\ ~place.key
      second == IF first = "plain" /\ ~plain THEN "single" ELSE first
      third == IF second = "single" /\ ~SingleAllowed(value) THEN "double" ELSE second
  IN IF third = "literal" /\ (~BlockAllowed(value) \/ place.flow \/ place.key) THEN "double"
     ELSE third

--------------------------------------------------------------------------------
(* Writing.  e: out, column, indent, whitespace, indention.                   *)

Put(e, bytes) == [e EXCEPT !.out = @ \o bytes, !.column = @ + Len(bytes)]
PutBreak(e) == [e EXCEPT !.out = Append(@, "\n"), !.column = 0]

WriteIndent(e) ==
  LET indent == IF e.indent < 0 THEN 0 ELSE e.indent
      breaks == ~e.indention \/ e.column > indent \/ (e.column = indent /\ ~e.whitespace)
      at == IF breaks THEN PutBreak(e) ELSE e
  IN [Put(at, [i \in 1 .. indent - at.column |-> " "])
        EXCEPT !.whitespace = TRUE, !.indention = TRUE]

WriteIndicator(e, bytes, needSpace) ==
  [Put(e, IF needSpace /\ ~e.whitespace THEN <<" ">> \o bytes ELSE bytes)
     EXCEPT !.whitespace = FALSE, !.indention = FALSE]

\* One byte of a plain or quoted scalar; spaces: the byte before was a space.
Folds(e, spaces) == ~place.key /\ ~spaces /\ e.column > BestWidth

WritePlain(e) ==
  LET start == IF e.whitespace THEN e ELSE Put(e, <<" ">>)
      one(x, i) ==
        IF Space(value[i]) /\ Folds(x.e, x.spaces) /\ ~Space(value[i + 1])
        THEN [e |-> WriteIndent(x.e), spaces |-> TRUE]
        ELSE [e |-> [Put(x.e, <<value[i]>>) EXCEPT !.indention = @ /\ Space(value[i])],
              spaces |-> Space(value[i])]
      end == FoldLeft(one, [e |-> start, spaces |-> FALSE], [i \in DOMAIN value |-> i]).e
  IN [end EXCEPT !.whitespace = FALSE, !.indention = FALSE]

WriteSingle(e) ==
  LET one(x, i) ==
        IF /\ Space(value[i]) /\ Folds(x.e, x.spaces) /\ i \in 2 .. Len(value) - 1
           /\ ~Space(value[i + 1])
        THEN [e |-> WriteIndent(x.e), spaces |-> TRUE]
        ELSE [e |-> [Put(x.e, IF value[i] = "'" THEN <<"'", "'">> ELSE <<value[i]>>)
                       EXCEPT !.indention = @ /\ Space(value[i])],
              spaces |-> Space(value[i])]
  IN WriteIndicator(FoldLeft(one, [e |-> WriteIndicator(e, <<"'">>, TRUE), spaces |-> FALSE],
                             [i \in DOMAIN value |-> i]).e, <<"'">>, FALSE)

\* What stands for a byte that is escaped.
Escape(c) == CASE c = "\n" -> <<"\\", "n">> [] c = "\t" -> <<"\\", "t">>
               [] c = "C3" -> <<"\\", "x", "E9">> [] OTHER -> <<"\\", c>>
Escaped(c) == ~Printable(c) \/ ~Ascii(c) \/ Break(c) \/ c \in {"\"", "\\"}

\* Mutant: a space that begins a folded line is written as it is.
WriteDoubleBare(e) ==
  LET one(x, i) ==
        IF value[i] = "A9" THEN x
        ELSE IF Escaped(value[i]) THEN [e |-> Put(x.e, Escape(value[i])), spaces |-> FALSE]
        ELSE IF Space(value[i]) /\ Folds(x.e, x.spaces) /\ i \in 2 .. Len(value) - 1
        THEN [e |-> WriteIndent(x.e), spaces |-> TRUE]
        ELSE [e |-> Put(x.e, <<value[i]>>), spaces |-> Space(value[i])]
  IN WriteIndicator(FoldLeft(one, [e |-> WriteIndicator(e, <<"\"">>, TRUE), spaces |-> FALSE],
                             [i \in DOMAIN value |-> i]).e, <<"\"">>, FALSE)

WriteDouble(e) ==
  LET one(x, i) ==
        IF value[i] = "A9" THEN x    \* written with the byte before it
        ELSE IF Escaped(value[i]) THEN [e |-> Put(x.e, Escape(value[i])), spaces |-> FALSE]
        ELSE IF Space(value[i]) /\ Folds(x.e, x.spaces) /\ i \in 2 .. Len(value) - 1
        THEN LET folded == WriteIndent(x.e)
             IN [e |-> IF Space(value[i + 1]) THEN Put(folded, <<"\\">>) ELSE folded,
                 spaces |-> TRUE]
        ELSE [e |-> Put(x.e, <<value[i]>>), spaces |-> Space(value[i])]
  IN WriteIndicator(FoldLeft(one, [e |-> WriteIndicator(e, <<"\"">>, TRUE), spaces |-> FALSE],
                             [i \in DOMAIN value |-> i]).e, <<"\"">>, FALSE)

\* The digit of an indentation that cannot be seen from the first line, and
\* how many of the breaks at the end count.
Hints ==
  LET n == Len(value)
  IN (IF Space(value[1]) \/ Break(value[1]) THEN <<ToString(BestIndent)>> ELSE <<>>)
     \o (IF ~Break(value[n]) THEN <<"-">>
         ELSE IF n = 1 \/ Break(value[n - 1]) THEN <<"+">> ELSE <<>>)

WriteLiteral(e) ==
  LET start == [PutBreak(Put(WriteIndicator(e, <<"|">>, TRUE), Hints))
                  EXCEPT !.indention = TRUE, !.whitespace = TRUE]
      one(x, c) ==
        IF Break(c) THEN [e |-> [PutBreak(x.e) EXCEPT !.indention = TRUE], breaks |-> TRUE]
        ELSE [e |-> [Put(IF x.breaks THEN WriteIndent(x.e) ELSE x.e, <<c>>)
                       EXCEPT !.indention = FALSE],
              breaks |-> FALSE]
  IN FoldLeft(one, [e |-> start, breaks |-> TRUE], value).e

\* yaml_emitter_emit_scalar, and what the emitter writes next.
Written ==
  LET e == [out |-> <<>>, column |-> place.column, whitespace |-> place.whitespace,
            indention |-> place.indention,
            indent |-> IF place.indent < 0 THEN BestIndent ELSE place.indent + BestIndent]
      scalar == CASE Style = "plain" -> WritePlain(e) [] Style = "single" -> WriteSingle(e)
                  [] Style = "double" -> WriteDouble(e) [] Style = "literal" -> WriteLiteral(e)
      next == IF place.flow \/ place.key THEN scalar
              ELSE WriteIndent([scalar EXCEPT !.indent = place.indent])
  IN next.out \o place.tail

--------------------------------------------------------------------------------
(* Reading.  A reader returns the string and where it stopped, or Fail.       *)

Fail == [s |-> <<"FAIL">>, i |-> 0]

\* Bytes that line breaks amount to: one space, or the breaks after the first.
Folded(breaks) == IF breaks = 0 THEN <<" ">> ELSE [i \in 1 .. breaks |-> "\n"]
Joined(x) == x.s \o (IF x.lead THEN (IF x.first THEN Folded(x.breaks)
                                     ELSE [i \in 1 .. x.breaks |-> "\n"]) ELSE x.blanks)

\* The whitespace of x goes on with the byte c.
Gap(x, c) ==
  IF Break(c) THEN [x EXCEPT !.i = @ + 1, !.column = 0, !.blanks = <<>>, !.lead = TRUE,
                             !.first = @ \/ ~x.lead,
                             !.breaks = IF x.lead THEN @ + 1 ELSE 0]
  ELSE [x EXCEPT !.i = @ + 1, !.column = @ + 1,
                 !.blanks = IF x.lead THEN @ ELSE Append(@, c)]
Start(i, column) == [s |-> <<>>, i |-> i, column |-> column, blanks |-> <<>>, lead |-> FALSE,
                     first |-> FALSE, breaks |-> 0, begins |-> TRUE]
Next1(x, bytes, n) == [Start(x.i + n, x.column + n) EXCEPT !.s = Joined(x) \o bytes,
                                                           !.begins = FALSE]

Marker(in, x) == x.column = 0 /\ <<At(in, x.i), At(in, x.i + 1), At(in, x.i + 2)>> \in Markers /\ Blankz(At(in, x.i + 3))

\* yaml_parser_scan_plain_scalar; begins: at the beginning of a word.
RECURSIVE ScanPlain(_, _)
ScanPlain(in, x) ==
  LET c == At(in, x.i)
      n == At(in, x.i + 1)
      spaced == x.lead \/ x.blanks # <<>>
      begins == x.begins \/ spaced
      end == [s |-> x.s, i |-> x.i]
  IN CASE Blank(c) \/ Break(c) ->
            IF c = "\t" /\ x.lead /\ x.column <= place.indent THEN Fail
            ELSE ScanPlain(in, Gap(x, c))
       [] spaced /\ ~place.flow /\ x.column <= place.indent -> end
       [] begins /\ (Marker(in, x) \/ c = "#") -> end
       [] c = "NUL" -> end
       [] place.flow /\ c = ":" /\ ~Blankz(n) -> Fail
       [] (c = ":" /\ Blankz(n)) \/ (place.flow /\ c \in {",", ":", "?", "[", "]", "{", "}"}) -> end
       [] OTHER -> ScanPlain(in, Next1(x, <<c>>, 1))

\* yaml_parser_scan_flow_scalar, after the quote q.
Unescaped(c) == CASE c = "n" -> <<"\n">> [] c = "t" -> <<"\t">>
                  [] c \in {" ", "\"", "'", "\\"} -> <<c>> [] OTHER -> <<"FAIL">>
RECURSIVE ScanQuoted(_, _, _)
ScanQuoted(in, x, q) ==
  LET c == At(in, x.i)
      n == At(in, x.i + 1)
      spaced == x.lead \/ x.blanks # <<>>
  IN CASE Blank(c) \/ Break(c) -> ScanQuoted(in, Gap(x, c), q)
       [] (spaced \/ x.begins) /\ Marker(in, x) -> Fail
       [] c = "NUL" -> Fail
       [] q = "'" /\ c = "'" /\ n = "'" -> ScanQuoted(in, Next1(x, <<"'">>, 2), q)
       [] c = q /\ ~(q = "'" /\ n = "'") -> [s |-> Joined(x), i |-> x.i + 1]
       [] q = "\"" /\ c = "\\" /\ n = "x" ->
            IF At(in, x.i + 2) = "E9" THEN ScanQuoted(in, Next1(x, <<"C3", "A9">>, 3), q) ELSE Fail
       [] q = "\"" /\ c = "\\" /\ Break(n) ->
            ScanQuoted(in, [Next1(x, <<>>, 2) EXCEPT !.lead = TRUE, !.column = 0], q)
       [] q = "\"" /\ c = "\\" /\ n # "x" /\ ~Break(n) ->
            IF Unescaped(n) = <<"FAIL">> THEN Fail ELSE ScanQuoted(in, Next1(x, Unescaped(n), 2), q)
       [] OTHER -> ScanQuoted(in, Next1(x, <<c>>, 1), q)

\* yaml_parser_scan_block_scalar_breaks from i, at the beginning of a line:
\* the breaks, where the next text begins, its column, the indentation.
Prefix(in, i, C(_)) ==
  LET over == {n \in 0 .. Len(in) - i + 1 : ~C(At(in, i + n))}
  IN CHOOSE n \in over : \A m \in over : n <= m
RECURSIVE Breaks(_, _, _, _, _)
Breaks(in, i, indent, widest, n) ==
  LET spaces == Prefix(in, i, Space)
      column == IF indent = 0 \/ spaces < indent THEN spaces ELSE indent
      widest2 == IF column > widest THEN column ELSE widest
      least == IF place.indent + 1 < 1 THEN 1 ELSE place.indent + 1
  IN CASE At(in, i + column) = "\t" /\ (indent = 0 \/ column < indent) ->
            [i |-> 0, n |-> 0, column |-> 0, indent |-> -1]
       [] Break(At(in, i + column)) -> Breaks(in, i + column + 1, indent, widest2, n + 1)
       [] OTHER -> [i |-> i + column, n |-> n, column |-> column,
                    indent |-> IF indent # 0 THEN indent
                               ELSE IF widest2 < least THEN least ELSE widest2]

\* The lines of a literal scalar: last, whether one came before (leading_break).
RECURSIVE Lines(_, _, _, _, _)
Lines(in, b, last, s, chomping) ==
  LET length == Prefix(in, b.i, LAMBDA c : ~Break(c) /\ c # "NUL")
      trailing == [i \in 1 .. b.n |-> "\n"]
      lead == IF last THEN <<"\n">> ELSE <<>>
      broken == Break(At(in, b.i + length))
      next == IF broken THEN Breaks(in, b.i + length + 1, b.indent, 0, 0)
              ELSE [i |-> b.i + length, n |-> 0, column |-> -1, indent |-> b.indent]
  IN IF b.indent = -1 THEN Fail
     ELSE IF b.column = b.indent /\ At(in, b.i) # "NUL"
     THEN Lines(in, next, broken, s \o lead \o trailing \o SubSeq(in, b.i, b.i + length - 1),
                chomping)
     ELSE [s |-> s \o (IF chomping = "-" THEN <<>> ELSE lead)
                   \o (IF chomping = "+" THEN trailing ELSE <<>>),
           i |-> b.i]

ScanLiteral(in, i) ==
  LET digit == At(in, i + 1) = ToString(BestIndent)
      j == IF digit THEN i + 2 ELSE i + 1
      chomping == IF At(in, j) \in {"+", "-"} THEN At(in, j) ELSE ""
      indent == IF ~digit THEN 0
                ELSE IF place.indent < 0 THEN BestIndent ELSE place.indent + BestIndent
      k == IF chomping = "" THEN j ELSE j + 1
  IN IF Break(At(in, k)) THEN Lines(in, Breaks(in, k + 1, indent, 0, 0), FALSE, <<>>, chomping)
     ELSE Fail

\* yaml_parser_fetch_next_token at the first byte of the scalar.
Scanned(in) ==
  LET i == Prefix(in, 1, Blank) + 1
      column == place.column + i - 1
      c == At(in, i)
      n == At(in, i + 1)
      x == Start(i, column)
  IN CASE c = "\"" \/ c = "'" -> ScanQuoted(in, Start(i + 1, column + 1), c)
       [] c = "|" /\ ~place.flow -> ScanLiteral(in, i)
       [] \/ column = 0 /\ (c = "%" \/ Marker(in, x))
          \/ c \in {"[", "{", "]", "}", ",", "*", "&", "!", "#", ">", "|", "%", "\t"}
          \/ c = "-" /\ Blankz(n)
          \/ c \in {"?", ":"} /\ (place.flow \/ Blankz(n)) -> Fail
       \* an empty scalar leaves nothing, the next line belongs to what follows
       [] Break(c) \/ c = "NUL" -> [s |-> <<>>, i |-> i]
       [] OTHER -> ScanPlain(in, x)

ScalarInit == value = <<>> /\ place \in Places /\ resolves \in BOOLEAN

\* A string is valid UTF-8: otherwise it is written as !!binary.
Grow == /\ Len(value) < MaxLength
        /\ \E b \in Bytes : value' = value \o (IF b = "C3" THEN <<"C3", "A9">> ELSE <<b>>)
        /\ UNCHANGED <<place, resolves>>

ScalarSpec == ScalarInit /\ [][Grow]_scalarVars

--------------------------------------------------------------------------------
\* Every string is read back as it was written, wherever it stands, in the
\* style the emitter settles on and however it is folded; and the reader stops
\* just before what follows it.
ReadsBack ==
  (value = <<>> => resolves) =>    \* "" resolves to null
    LET in == Written
        out == Scanned(in)
        rest == SubSeq(in, out.i, Len(in))
    IN /\ out.s = value
       /\ SelectSeq(rest, LAMBDA c : ~Blankz(c)) = SelectSeq(place.tail, LAMBDA c : ~Blankz(c))
================================================================================
