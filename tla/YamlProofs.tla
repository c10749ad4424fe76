------------------------------ MODULE YamlProofs ------------------------------
(***************************************************************************)
(* What holds of the scanner of yaml.v1 whatever it reads, and of its      *)
(* parser whatever tokens it is given.                                     *)
(*                                                                         *)
(* The scanner: a possible simple key still has its token in the queue, so *)
(* that KEY can be put before it, block collections are opened and closed  *)
(* at their indentation, and nothing is fetched after the end of the       *)
(* stream.  The queue is described by two counts: the block and the flow   *)
(* collections that are open before each of its tokens.  They begin with   *)
(* what the parser has open and end with the stacks of indentations and of *)
(* keys.  What KEY and BLOCK-MAPPING-START do in the middle of the queue   *)
(* is then a change of the counts from there on; that it is one the        *)
(* parser can follow rests on what comes after a key that lives outside    *)
(* flow collections: nothing that opens or closes a block collection.      *)
(*                                                                         *)
(* The parser: decode.go is given no event that it panics on, and the      *)
(* stacks of states and of marks are balanced.  The collections it is in   *)
(* are layers; each is a place of the parser, the one to return to or the  *)
(* one that waits for a node, and has one or two loops of decode.go and at *)
(* most one mark.  Two counts, of the loops and of the marks below each    *)
(* layer, tie the three stacks together.                                   *)
(***************************************************************************)
EXTENDS YamlScanner, YamlParser, DataInduction, SequenceTheorems, FiniteSetTheorems, TLAPS

Simple == [possible : BOOLEAN, required : BOOLEAN, at : Nat, column : Int, here : BOOLEAN]
FlowStarts == {"FLOW-SEQUENCE-START", "FLOW-MAPPING-START"}
FlowEnds == {"FLOW-SEQUENCE-END", "FLOW-MAPPING-END"}
Keyable == {"SCALAR", "ANCHOR"} \cup FlowStarts
Kinds == BlockStarts \cup FlowStarts \cup FlowEnds \cup Outer
           \cup {"STREAM-START", "BLOCK-END", "KEY", "VALUE", "BLOCK-ENTRY", "FLOW-ENTRY",
                 "SCALAR", "ANCHOR"}
Tokens == [kind : Kinds, column : Int]
Inner(kind) == kind \notin BlockStarts \cup {"BLOCK-END"} \cup Outer

NextBlocks(kind, b) ==
  IF kind \in BlockStarts THEN b + 1 ELSE IF kind = "BLOCK-END" THEN b - 1 ELSE b
NextFlows(kind, f) ==
  IF kind \in FlowStarts THEN f + 1 ELSE IF kind \in FlowEnds /\ f > 0 THEN f - 1 ELSE f
Fits(kind, b, f) ==
  /\ kind \in BlockStarts \cup {"BLOCK-END"} => f = 0
  /\ kind = "BLOCK-END" => b > 0
  /\ kind \in Outer /\ f = 0 => b = 0

Counters == [Nat -> Nat]
Marks == Kinds \cup {"refused", "broken"}
Stacks == Seq(Marks)

\* The collections open before the tokens of the queue, and after the last.
Counts(q, b, f) ==
  \A i \in Nat : i < Len(q) =>
    /\ Fits(q[i + 1].kind, b[i], f[i])
    /\ b[i + 1] = NextBlocks(q[i + 1].kind, b[i])
    /\ f[i + 1] = NextFlows(q[i + 1].kind, f[i])

\* The collections of the parser: block ones, then flow ones in them.
Agree(stack, b, f) ==
  stack = <<"refused">> \/
    /\ stack \in Stacks /\ Len(stack) = b + f
    /\ \A i \in 1 .. b : stack[i] \in BlockStarts
    /\ \A i \in b + 1 .. b + f : stack[i] \in FlowStarts

Live(k) == k.possible /\ k.here

\* A key outside flow collections that may still get its ':'.
Rooted(ks, q, ins, b, f) ==
  Live(ks[1]) =>
    /\ ins[Len(ins)] <= ks[1].column
    /\ f[ks[1].at] = 0
    /\ \A j \in Nat : ks[1].at <= j /\ j <= Len(q) => b[j] = Len(ins) - 1
    /\ \A j \in Nat : ks[1].at < j /\ j <= Len(q) => Inner(q[j].kind)

Placed(ks, q) ==
  \A i \in Nat : 1 <= i /\ i <= Len(ks) /\ ks[i].possible =>
    /\ ks[i].at < Len(q)
    /\ q[ks[i].at + 1].column = ks[i].column
    /\ q[ks[i].at + 1].kind \in Keyable
    /\ \A j \in Nat : 1 <= j /\ j < i /\ ks[j].possible => ks[j].at < ks[i].at

Grow(ins) ==
  /\ ins[1] = -1
  /\ \A i, j \in Nat : 1 <= i /\ i < j /\ j <= Len(ins) => ins[i] < ins[j]

Typed(ks, q, ins) ==
  /\ ks \in Seq(Simple) /\ Len(ks) > 0
  /\ q \in Seq(Tokens)
  /\ ins \in Seq(Int) /\ Len(ins) > 0

\* n flow collections are open after the queue.
Sound(ks, q, ins, n, o) ==
  /\ Typed(ks, q, ins) /\ n \in Nat
  /\ Placed(ks, q) /\ Grow(ins)
  /\ \E b, f \in Counters :
       /\ Counts(q, b, f) /\ b[Len(q)] = Len(ins) - 1 /\ f[Len(q)] = n
       /\ Agree(o, b[0], f[0])
       /\ Rooted(ks, q, ins, b, f)

----------------------------------------------------------------------------
(* Sequences                                                                *)

LEMMA Appended ==
  ASSUME NEW S, NEW s \in Seq(S), NEW e \in S, NEW t, t = Append(s, e)
  PROVE  /\ t \in Seq(S) /\ Len(t) = Len(s) + 1 /\ t[Len(s) + 1] = e
         /\ \A i \in Nat : 1 <= i /\ i <= Len(s) => t[i] = s[i]
<1>1. Len(s) \in Nat
  OBVIOUS
<1>. QED
  BY <1>1, AppendProperties

Inserts(s, p, e, t) == t = InsertAt(s, p + 1, e)

LEMMA Inserted ==
  ASSUME NEW S, NEW s \in Seq(S), NEW e \in S, NEW p \in Nat, p <= Len(s),
         NEW t, Inserts(s, p, e, t)
  PROVE  /\ t \in Seq(S) /\ Len(t) = Len(s) + 1
         /\ t[p + 1] = e
         /\ \A i \in Nat : 1 <= i /\ i <= p => t[i] = s[i]
         /\ \A i \in Nat : p < i /\ i <= Len(s) => t[i + 1] = s[i]
<1>. DEFINE left == SubSeq(s, 1, p)
            right == SubSeq(s, p + 1, Len(s))
<1>. PICK n \in Nat : n = Len(s)
  OBVIOUS
<1>0. \A i \in 1 .. n : s[i] \in S
  BY ElementOfSeq
<1>1. left \in Seq(S) /\ Len(left) = p /\ \A i \in 1 .. p : left[i] = s[i]
  <2>1. \A i \in 1 .. p : s[i] \in S
    BY <1>0
  <2>. QED
    BY <2>1, SubSeqProperties
<1>2. right \in Seq(S) /\ Len(right) = n - p /\ \A i \in 1 .. n - p : right[i] = s[p + i]
  <2>1. \A i \in p + 1 .. n : s[i] \in S
    BY <1>0
  <2>2. /\ right \in Seq(S)
        /\ Len(right) = IF p + 1 <= n THEN n - (p + 1) + 1 ELSE 0
        /\ \A i \in 1 .. n - (p + 1) + 1 : right[i] = s[(p + 1) + i - 1]
    BY <2>1, SubSeqProperties
  <2>. QED
    BY <2>2
<1>. DEFINE mid == <<e>>
<1>3. mid \in Seq(S) /\ Len(mid) = 1 /\ mid[1] = e
  OBVIOUS
<1>4. t = (left \o mid) \o right
  <2>1. (p + 1) - 1 = p
    OBVIOUS
  <2>. QED
    BY <2>1 DEF InsertAt, Inserts
<1>. HIDE DEF left, right, mid
<1>5. PICK u : u = left \o mid
  OBVIOUS
<1>6. /\ u \in Seq(S) /\ Len(u) = p + 1 /\ u[p + 1] = e
      /\ \A i \in Nat : 1 <= i /\ i <= p => u[i] = s[i]
  <2>1. /\ u \in Seq(S) /\ Len(u) = p + 1
        /\ \A i \in 1 .. p + 1 : u[i] = IF i <= p THEN left[i] ELSE mid[i - p]
    <3>1. /\ left \o mid \in Seq(S) /\ Len(left \o mid) = Len(left) + Len(mid)
          /\ \A i \in 1 .. Len(left) + Len(mid) :
               (left \o mid)[i] = IF i <= Len(left) THEN left[i] ELSE mid[i - Len(left)]
      BY <1>1, <1>3, ConcatProperties
    <3>. QED
      BY <1>1, <1>3, <1>5, <3>1
  <2>2. p + 1 \in 1 .. p + 1 /\ ~ (p + 1 <= p) /\ (p + 1) - p = 1
    OBVIOUS
  <2>3. u[p + 1] = e
    BY <1>3, <2>1, <2>2
  <2>. QED
    BY <1>1, <2>1, <2>3
<1>7. /\ t \in Seq(S) /\ Len(t) = (p + 1) + (n - p)
      /\ \A i \in 1 .. (p + 1) + (n - p) : t[i] = IF i <= p + 1 THEN u[i] ELSE right[i - (p + 1)]
  <2>1. /\ u \o right \in Seq(S) /\ Len(u \o right) = Len(u) + Len(right)
        /\ \A i \in 1 .. Len(u) + Len(right) :
             (u \o right)[i] = IF i <= Len(u) THEN u[i] ELSE right[i - Len(u)]
    BY <1>2, <1>6, ConcatProperties
  <2>. QED
    BY <1>2, <1>4, <1>5, <1>6, <2>1
<1>8. (p + 1) + (n - p) = n + 1
  OBVIOUS
<1>9. t[p + 1] = e /\ \A i \in Nat : 1 <= i /\ i <= p => t[i] = s[i]
  <2>1. \A i \in Nat : 1 <= i /\ i <= p + 1 => i \in 1 .. n + 1
    OBVIOUS
  <2>2. \A i \in Nat : 1 <= i /\ i <= p + 1 => t[i] = u[i]
    BY <1>7, <1>8, <2>1
  <2>. QED
    BY <1>6, <2>2
<1>10. ASSUME NEW i \in Nat, p < i, i <= n PROVE t[i + 1] = s[i]
  <2>1. i + 1 \in 1 .. n + 1 /\ ~ (i + 1 <= p + 1) /\ (i + 1) - (p + 1) = i - p
        /\ i - p \in 1 .. n - p /\ p + (i - p) = i
    BY <1>10
  <2>. QED
    BY <1>2, <1>7, <1>8, <2>1
<1>. QED
  BY <1>7, <1>8, <1>9, <1>10

----------------------------------------------------------------------------
(* Kinds of tokens                                                          *)

LEMMA TokenParts ==
  ASSUME NEW kind \in Kinds, NEW column \in Int
  PROVE  /\ Token(kind, column) \in Tokens
         /\ Token(kind, column).kind = kind /\ Token(kind, column).column = column
BY DEF Token, Tokens

LEMMA FlowKinds ==
  /\ DOMAIN FlowEnd = FlowStarts
  /\ \A k \in FlowStarts : FlowEnd[k] \in FlowEnds
BY DEF FlowEnd, FlowStarts, FlowEnds

LEMMA KeyableKinds == \A kind \in Keyable : Inner(kind) /\ kind \notin FlowEnds
BY DEF Keyable, Inner, FlowStarts, FlowEnds, BlockStarts, Outer

LEMMA NextTypes ==
  ASSUME NEW kind, NEW b \in Nat, NEW f \in Nat, Fits(kind, b, f)
  PROVE  NextBlocks(kind, b) \in Nat /\ NextFlows(kind, f) \in Nat
BY DEF Fits, NextBlocks, NextFlows, BlockStarts

LEMMA InnerBlocks ==
  ASSUME NEW kind, Inner(kind), NEW b \in Nat, NEW f \in Nat
  PROVE  NextBlocks(kind, b) = b /\ Fits(kind, b, f)
BY DEF Inner, NextBlocks, Fits

----------------------------------------------------------------------------
(* A token at the end of the queue                                          *)

Longer(q, r, tok) ==
  /\ Len(q) \in Nat /\ Len(r) = Len(q) + 1 /\ r[Len(q) + 1] = tok
  /\ \A i \in Nat : 1 <= i /\ i <= Len(q) => r[i] = q[i]

LEMMA CountsAppend ==
  ASSUME NEW q, NEW tok, NEW r, Longer(q, r, tok),
         NEW b \in Counters, NEW f \in Counters,
         Counts(q, b, f), Fits(tok.kind, b[Len(q)], f[Len(q)])
  PROVE  \E c, g \in Counters :
           /\ Counts(r, c, g)
           /\ c[Len(r)] = NextBlocks(tok.kind, b[Len(q)])
           /\ g[Len(r)] = NextFlows(tok.kind, f[Len(q)])
           /\ \A i \in Nat : i <= Len(q) => c[i] = b[i] /\ g[i] = f[i]
<1>. PICK n \in Nat : n = Len(q)
  BY DEF Longer
<1>1. /\ Len(r) = n + 1 /\ r[n + 1] = tok
      /\ \A i \in Nat : 1 <= i /\ i <= n => r[i] = q[i]
  BY DEF Longer
<1>2. PICK x \in Nat, y \in Nat : x = NextBlocks(tok.kind, b[n]) /\ y = NextFlows(tok.kind, f[n])
  <2>1. b[n] \in Nat /\ f[n] \in Nat
    BY DEF Counters
  <2>. QED
    BY <2>1, NextTypes
<1>. DEFINE c == [b EXCEPT ![n + 1] = x]
            g == [f EXCEPT ![n + 1] = y]
<1>3. c \in Counters /\ g \in Counters
  BY DEF Counters
<1>4. c[n + 1] = x /\ g[n + 1] = y
  BY DEF Counters
<1>5. \A i \in Nat : i <= n => c[i] = b[i] /\ g[i] = f[i]
  BY DEF Counters
<1>. HIDE DEF c, g
<1>6. ASSUME NEW i \in Nat, i < n + 1
      PROVE  /\ Fits(r[i + 1].kind, c[i], g[i])
             /\ c[i + 1] = NextBlocks(r[i + 1].kind, c[i])
             /\ g[i + 1] = NextFlows(r[i + 1].kind, g[i])
  <2>1. CASE i = n
    BY <1>1, <1>2, <1>4, <1>5, <2>1
  <2>2. CASE i # n
    <3>1. i < n /\ i + 1 <= n /\ i + 1 \in Nat /\ 1 <= i + 1
      BY <1>6, <2>2
    <3>2. r[i + 1] = q[i + 1] /\ c[i] = b[i] /\ g[i] = f[i] /\ c[i + 1] = b[i + 1]
          /\ g[i + 1] = f[i + 1]
      BY <1>1, <1>5, <3>1
    <3>. QED
      BY <3>1, <3>2 DEF Counts
  <2>. QED
    BY <2>1, <2>2
<1>7. Counts(r, c, g)
  BY <1>1, <1>6 DEF Counts
<1>. QED
  BY <1>1, <1>2, <1>3, <1>4, <1>5, <1>7

KeysTyped(ks) ==
  /\ Len(ks) \in Nat
  /\ \A i \in Nat : 1 <= i /\ i <= Len(ks) => ks[i].at \in Nat /\ ks[i].column \in Int

LEMMA TypedParts ==
  ASSUME NEW ks, NEW q, NEW ins, Typed(ks, q, ins)
  PROVE  /\ KeysTyped(ks) /\ 1 <= Len(ks) /\ Len(q) \in Nat
         /\ Len(ins) \in Nat /\ 1 <= Len(ins)
<1>1. \A i \in 1 .. Len(ks) : ks[i] \in Simple
  BY ElementOfSeq DEF Typed
<1>2. Len(ks) \in Nat
  BY DEF Typed
<1>. QED
  BY <1>1, <1>2 DEF Typed, KeysTyped, Simple

LEMMA LongerQueue ==
  ASSUME NEW ks, NEW q, NEW ins, Typed(ks, q, ins), NEW tok \in Tokens, NEW r, r = Append(q, tok)
  PROVE  Longer(q, r, tok) /\ Typed(ks, r, ins)
BY Appended DEF Longer, Typed

LEMMA PlacedAppend ==
  ASSUME NEW ks, NEW q, KeysTyped(ks), Placed(ks, q), NEW tok, NEW r, Longer(q, r, tok)
  PROVE  Placed(ks, r)
<1>. PICK n \in Nat : n = Len(q)
  BY DEF Longer
<1>1. /\ Len(r) = n + 1
      /\ \A i \in Nat : 1 <= i /\ i <= n => r[i] = q[i]
  BY DEF Longer
<1>2. ASSUME NEW i \in Nat, 1 <= i, i <= Len(ks), ks[i].possible
      PROVE  ks[i].at < Len(r) /\ r[ks[i].at + 1] = q[ks[i].at + 1]
  <2>1. ks[i].at \in Nat /\ ks[i].at < n
    BY <1>2 DEF Placed, KeysTyped
  <2>. QED
    BY <1>1, <2>1
<1>. QED
  BY <1>2 DEF Placed

\* What is said of a live key outside flow collections still holds.
LEMMA RootedAppend ==
  ASSUME NEW ks, NEW q, NEW ins, KeysTyped(ks), 1 <= Len(ks), Placed(ks, q),
         NEW tok, NEW r, Longer(q, r, tok),
         NEW b, NEW f, NEW c, NEW g, Rooted(ks, q, ins, b, f),
         c[Len(r)] = b[Len(q)], b[Len(q)] = Len(ins) - 1, Inner(tok.kind),
         \A i \in Nat : i <= Len(q) => c[i] = b[i] /\ g[i] = f[i]
  PROVE  Rooted(ks, r, ins, c, g)
<1>. PICK n \in Nat : n = Len(q)
  BY DEF Longer
<1>1. /\ Len(r) = n + 1 /\ r[n + 1] = tok
      /\ \A i \in Nat : 1 <= i /\ i <= n => r[i] = q[i]
  BY DEF Longer
<1>. SUFFICES ASSUME Live(ks[1])
              PROVE  /\ ins[Len(ins)] <= ks[1].column
                     /\ g[ks[1].at] = 0
                     /\ \A j \in Nat : ks[1].at <= j /\ j <= n + 1 => c[j] = Len(ins) - 1
                     /\ \A j \in Nat : ks[1].at < j /\ j <= n + 1 => Inner(r[j].kind)
  BY <1>1 DEF Rooted
<1>2. ks[1].at \in Nat /\ ks[1].at < n
  BY DEF Live, Placed, KeysTyped
<1>3. /\ ins[Len(ins)] <= ks[1].column
      /\ f[ks[1].at] = 0
      /\ \A j \in Nat : ks[1].at <= j /\ j <= n => b[j] = Len(ins) - 1
      /\ \A j \in Nat : ks[1].at < j /\ j <= n => Inner(q[j].kind)
  BY DEF Rooted
<1>4. g[ks[1].at] = 0
  BY <1>2, <1>3
<1>5. ASSUME NEW j \in Nat, ks[1].at <= j, j <= n + 1 PROVE c[j] = Len(ins) - 1
  <2>1. CASE j = n + 1
    BY <1>1, <2>1
  <2>2. CASE j # n + 1
    <3>1. j <= n
      BY <1>5, <2>2
    <3>. QED
      BY <1>3, <1>5, <3>1
  <2>. QED
    BY <2>1, <2>2
<1>6. ASSUME NEW j \in Nat, ks[1].at < j, j <= n + 1 PROVE Inner(r[j].kind)
  <2>1. CASE j = n + 1
    BY <1>1, <2>1
  <2>2. CASE j # n + 1
    <3>1. j <= n /\ 1 <= j
      BY <1>2, <1>6, <2>2
    <3>. QED
      BY <1>1, <1>3, <1>6, <3>1
  <2>. QED
    BY <2>1, <2>2
<1>. QED
  BY <1>3, <1>4, <1>5, <1>6

\* A token that opens or closes no block collection.
LEMMA InnerToken ==
  ASSUME NEW ks, NEW q, NEW ins, NEW n, NEW o, Sound(ks, q, ins, n, o),
         NEW tok \in Tokens, Inner(tok.kind)
  PROVE  Sound(ks, Append(q, tok), ins, NextFlows(tok.kind, n), o)
<1>1. Typed(ks, q, ins) /\ n \in Nat /\ Placed(ks, q) /\ Grow(ins)
  BY DEF Sound
<1>2. PICK b \in Counters, f \in Counters :
        /\ Counts(q, b, f) /\ b[Len(q)] = Len(ins) - 1 /\ f[Len(q)] = n
        /\ Agree(o, b[0], f[0])
        /\ Rooted(ks, q, ins, b, f)
  BY DEF Sound
<1>3. ASSUME NEW r, r = Append(q, tok) PROVE Sound(ks, r, ins, NextFlows(tok.kind, n), o)
  <2>1. Longer(q, r, tok) /\ Typed(ks, r, ins)
    BY <1>1, <1>3, LongerQueue
  <2>. HIDE <1>3
  <2>2. KeysTyped(ks) /\ 1 <= Len(ks) /\ Len(q) \in Nat
    BY <1>1, TypedParts
  <2>3. b[Len(q)] \in Nat /\ f[Len(q)] \in Nat
    BY <2>2 DEF Counters
  <2>4. Fits(tok.kind, b[Len(q)], f[Len(q)]) /\ NextBlocks(tok.kind, b[Len(q)]) = b[Len(q)]
    BY <2>3, InnerBlocks
  <2>5. PICK c, g \in Counters :
          /\ Counts(r, c, g)
          /\ c[Len(r)] = NextBlocks(tok.kind, b[Len(q)])
          /\ g[Len(r)] = NextFlows(tok.kind, f[Len(q)])
          /\ \A i \in Nat : i <= Len(q) => c[i] = b[i] /\ g[i] = f[i]
    <3>1. Counts(q, b, f)
      BY <1>2
    <3>. QED
      BY <2>1, <2>4, <3>1, CountsAppend
  <2>6. NextFlows(tok.kind, n) \in Nat
    BY <1>2, <2>3, <2>4, NextTypes
  <2>7. Rooted(ks, r, ins, c, g)
    <3>1. Rooted(ks, q, ins, b, f) /\ Placed(ks, q) /\ b[Len(q)] = Len(ins) - 1
      BY <1>1, <1>2
    <3>2. c[Len(r)] = b[Len(q)] /\ \A i \in Nat : i <= Len(q) => c[i] = b[i] /\ g[i] = f[i]
      BY <2>4, <2>5
    <3>. QED
      BY <2>1, <2>2, <3>1, <3>2, RootedAppend
  <2>8. c[0] = b[0] /\ g[0] = f[0]
    BY <2>2, <2>5
  <2>9. Placed(ks, r)
    BY <1>1, <2>1, <2>2, PlacedAppend
  <2>10. Agree(o, c[0], g[0]) /\ c[Len(r)] = Len(ins) - 1 /\ g[Len(r)] = NextFlows(tok.kind, n)
    BY <1>2, <2>4, <2>5, <2>8
  <2>. QED
    BY <1>1, <2>1, <2>5, <2>6, <2>7, <2>9, <2>10 DEF Sound
<1>. QED
  BY <1>3

\* Fewer keys, or more that are not possible.
LEMMA FewerKeys ==
  ASSUME NEW ks, NEW q, NEW ins, NEW n, NEW o, Sound(ks, q, ins, n, o),
         NEW ls \in Seq(Simple), Len(ls) > 0,
         \A i \in Nat : 1 <= i /\ i <= Len(ls) /\ ls[i].possible =>
           /\ i <= Len(ks) /\ ks[i].possible
           /\ ls[i].at = ks[i].at /\ ls[i].column = ks[i].column
           /\ ls[i].here => ks[i].here
  PROVE  Sound(ls, q, ins, n, o)
<1>1. Typed(ks, q, ins) /\ n \in Nat /\ Placed(ks, q) /\ Grow(ins)
  BY DEF Sound
<1>2. PICK b \in Counters, f \in Counters :
        /\ Counts(q, b, f) /\ b[Len(q)] = Len(ins) - 1 /\ f[Len(q)] = n
        /\ Agree(o, b[0], f[0])
        /\ Rooted(ks, q, ins, b, f)
  BY DEF Sound
<1>3. Typed(ls, q, ins)
  BY <1>1 DEF Typed
<1>4. Placed(ls, q)
  <2>1. Len(ls) \in Nat
    OBVIOUS
  <2>2. ASSUME NEW i \in Nat, 1 <= i, i <= Len(ls), ls[i].possible
        PROVE  /\ ls[i].at < Len(q)
               /\ q[ls[i].at + 1].column = ls[i].column
               /\ q[ls[i].at + 1].kind \in Keyable
    BY <1>1, <2>2 DEF Placed
  <2>3. ASSUME NEW i \in Nat, 1 <= i, i <= Len(ls), ls[i].possible,
               NEW j \in Nat, 1 <= j, j < i, ls[j].possible
        PROVE  ls[j].at < ls[i].at
    <3>1. j <= Len(ls)
      BY <2>1, <2>3
    <3>2. ks[i].possible /\ ks[j].possible /\ i <= Len(ks) /\ ls[i].at = ks[i].at
          /\ ls[j].at = ks[j].at
      BY <2>3, <3>1
    <3>3. ks[j].at < ks[i].at
      BY <1>1, <2>3, <3>2 DEF Placed
    <3>. QED
      BY <3>2, <3>3
  <2>. QED
    BY <2>2, <2>3 DEF Placed
<1>5. Rooted(ls, q, ins, b, f)
  <2>. SUFFICES ASSUME Live(ls[1])
                PROVE  /\ ls[1].at = ks[1].at /\ ls[1].column = ks[1].column
                       /\ Live(ks[1])
    BY <1>2 DEF Rooted
  <2>1. 1 <= Len(ls) /\ ls[1].possible /\ ls[1].here
    BY DEF Live
  <2>2. ks[1].possible /\ ls[1].at = ks[1].at /\ ls[1].column = ks[1].column /\ ks[1].here
    BY <2>1
  <2>. QED
    BY <2>2 DEF Live
<1>. QED
  BY <1>1, <1>2, <1>3, <1>4, <1>5 DEF Sound

\* A token that belongs outside block collections, when none is open there.
LEMMA OuterToken ==
  ASSUME NEW ks, NEW q, NEW ins, NEW n, NEW o, Sound(ks, q, ins, n, o),
         ~ Live(ks[1]), n = 0 => Len(ins) = 1,
         NEW tok \in Tokens, tok.kind \in Outer
  PROVE  Sound(ks, Append(q, tok), ins, n, o)
<1>1. Typed(ks, q, ins) /\ n \in Nat /\ Placed(ks, q) /\ Grow(ins)
  BY DEF Sound
<1>2. PICK b \in Counters, f \in Counters :
        /\ Counts(q, b, f) /\ b[Len(q)] = Len(ins) - 1 /\ f[Len(q)] = n
        /\ Agree(o, b[0], f[0])
        /\ Rooted(ks, q, ins, b, f)
  BY DEF Sound
<1>3. ASSUME NEW r, r = Append(q, tok) PROVE Sound(ks, r, ins, n, o)
  <2>1. Longer(q, r, tok) /\ Typed(ks, r, ins)
    BY <1>1, <1>3, LongerQueue
  <2>. HIDE <1>3
  <2>2. KeysTyped(ks) /\ Len(q) \in Nat
    BY <1>1, TypedParts
  <2>3. /\ tok.kind \notin BlockStarts \cup {"BLOCK-END"}
        /\ tok.kind \notin FlowStarts /\ tok.kind \notin FlowEnds
    BY DEF Outer, BlockStarts, FlowStarts, FlowEnds
  <2>4. Fits(tok.kind, b[Len(q)], f[Len(q)])
    BY <1>2, <2>3 DEF Fits
  <2>5. NextBlocks(tok.kind, b[Len(q)]) = b[Len(q)] /\ NextFlows(tok.kind, f[Len(q)]) = f[Len(q)]
    BY <2>3 DEF NextBlocks, NextFlows
  <2>6. PICK c, g \in Counters :
          /\ Counts(r, c, g)
          /\ c[Len(r)] = NextBlocks(tok.kind, b[Len(q)])
          /\ g[Len(r)] = NextFlows(tok.kind, f[Len(q)])
          /\ \A i \in Nat : i <= Len(q) => c[i] = b[i] /\ g[i] = f[i]
    <3>1. Counts(q, b, f)
      BY <1>2
    <3>. QED
      BY <2>1, <2>4, <3>1, CountsAppend
  <2>7. Rooted(ks, r, ins, c, g)
    BY DEF Rooted
  <2>8. c[0] = b[0] /\ g[0] = f[0]
    BY <2>2, <2>6
  <2>9. Placed(ks, r)
    BY <1>1, <2>1, <2>2, PlacedAppend
  <2>10. Agree(o, c[0], g[0]) /\ c[Len(r)] = Len(ins) - 1 /\ g[Len(r)] = n
    BY <1>2, <2>5, <2>6, <2>8
  <2>. QED
    BY <1>1, <2>1, <2>6, <2>7, <2>9, <2>10 DEF Sound
<1>. QED
  BY <1>3

LEMMA GrowAppend ==
  ASSUME NEW ins \in Seq(Int), Len(ins) > 0, Grow(ins), NEW c \in Int, ins[Len(ins)] < c
  PROVE  Append(ins, c) \in Seq(Int) /\ Len(Append(ins, c)) = Len(ins) + 1 /\ Grow(Append(ins, c))
<1>. PICK n \in Nat : n = Len(ins) /\ n > 0
  OBVIOUS
<1>1. \A i \in Nat : 1 <= i /\ i <= n => ins[i] \in Int
  BY ElementOfSeq
<1>2. ASSUME NEW t, t = Append(ins, c)
      PROVE  t \in Seq(Int) /\ Len(t) = n + 1 /\ Grow(t)
  <2>1. /\ t \in Seq(Int) /\ Len(t) = n + 1 /\ t[n + 1] = c
        /\ \A i \in Nat : 1 <= i /\ i <= n => t[i] = ins[i]
    BY <1>2, Appended
  <2>2. t[1] = -1
    BY <2>1 DEF Grow
  <2>3. ASSUME NEW i \in Nat, NEW j \in Nat, 1 <= i, i < j, j <= n + 1 PROVE t[i] < t[j]
    <3>1. CASE j = n + 1
      <4>1. i <= n /\ t[i] = ins[i]
        BY <2>1, <2>3, <3>1
      <4>2. ins[i] <= ins[n]
        <5>1. CASE i = n
          BY <1>1, <2>3, <5>1
        <5>2. CASE i # n
          <6>1. i < n
            BY <4>1, <5>2
          <6>2. ins[i] < ins[n] /\ ins[i] \in Int /\ ins[n] \in Int
            BY <1>1, <2>3, <4>1, <6>1 DEF Grow
          <6>. QED
            BY <6>2
        <5>. QED
          BY <5>1, <5>2
      <4>3. ins[i] \in Int /\ ins[n] \in Int /\ ins[n] < c
        BY <1>1, <2>3, <4>1
      <4>. QED
        BY <2>1, <3>1, <4>1, <4>2, <4>3
    <3>2. CASE j # n + 1
      <4>1. j <= n /\ 1 <= j /\ i <= n
        BY <2>3, <3>2
      <4>. QED
        BY <2>1, <2>3, <4>1 DEF Grow
    <3>. QED
      BY <3>1, <3>2
  <2>. QED
    BY <2>1, <2>2, <2>3 DEF Grow
<1>. QED
  BY <1>2

\* A block collection begins at the end of the queue.
LEMMA StartToken ==
  ASSUME NEW ks, NEW q, NEW ins, NEW o, Sound(ks, q, ins, 0, o),
         ~ Live(ks[1]), NEW c \in Int, ins[Len(ins)] < c,
         NEW tok \in Tokens, tok.kind \in BlockStarts
  PROVE  Sound(ks, Append(q, tok), Append(ins, c), 0, o)
<1>1. Typed(ks, q, ins) /\ Placed(ks, q) /\ Grow(ins)
  BY DEF Sound
<1>2. PICK b \in Counters, f \in Counters :
        /\ Counts(q, b, f) /\ b[Len(q)] = Len(ins) - 1 /\ f[Len(q)] = 0
        /\ Agree(o, b[0], f[0])
        /\ Rooted(ks, q, ins, b, f)
  BY DEF Sound
<1>3. PICK js : js = Append(ins, c)
  OBVIOUS
<1>4. js \in Seq(Int) /\ Len(js) = Len(ins) + 1 /\ Grow(js)
  BY <1>1, <1>3, GrowAppend DEF Typed
<1>5. ASSUME NEW r, r = Append(q, tok) PROVE Sound(ks, r, js, 0, o)
  <2>1. Longer(q, r, tok) /\ Typed(ks, r, ins)
    BY <1>1, <1>5, LongerQueue
  <2>. HIDE <1>5
  <2>2. KeysTyped(ks) /\ Len(q) \in Nat /\ Len(ins) \in Nat
    BY <1>1, TypedParts
  <2>3. Fits(tok.kind, b[Len(q)], f[Len(q)])
    <3>1. tok.kind # "BLOCK-END" /\ tok.kind \notin Outer
      BY DEF BlockStarts, Outer
    <3>. QED
      BY <1>2, <3>1 DEF Fits
  <2>4. NextBlocks(tok.kind, b[Len(q)]) = b[Len(q)] + 1 /\ NextFlows(tok.kind, f[Len(q)]) = f[Len(q)]
    <3>1. tok.kind \notin FlowStarts /\ tok.kind \notin FlowEnds
      BY DEF BlockStarts, FlowStarts, FlowEnds
    <3>. QED
      BY <3>1 DEF NextBlocks, NextFlows
  <2>5. PICK d, g \in Counters :
          /\ Counts(r, d, g)
          /\ d[Len(r)] = NextBlocks(tok.kind, b[Len(q)])
          /\ g[Len(r)] = NextFlows(tok.kind, f[Len(q)])
          /\ \A i \in Nat : i <= Len(q) => d[i] = b[i] /\ g[i] = f[i]
    <3>1. Counts(q, b, f)
      BY <1>2
    <3>. QED
      BY <2>1, <2>3, <3>1, CountsAppend
  <2>6. Rooted(ks, r, js, d, g)
    BY DEF Rooted
  <2>7. d[0] = b[0] /\ g[0] = f[0]
    BY <2>2, <2>5
  <2>8. Placed(ks, r)
    BY <1>1, <2>1, <2>2, PlacedAppend
  <2>9. d[Len(r)] = Len(js) - 1 /\ g[Len(r)] = 0
    BY <1>2, <1>4, <2>2, <2>4, <2>5
  <2>10. Agree(o, d[0], g[0])
    BY <1>2, <2>7
  <2>11. Typed(ks, r, js)
    BY <1>4, <2>1, <2>2 DEF Typed
  <2>. QED
    BY <1>4, <2>5, <2>6, <2>8, <2>9, <2>10, <2>11 DEF Sound
<1>. QED
  BY <1>3, <1>5

\* A token that may turn out to be a key, and its simple key.
LEMMA KeyToken ==
  ASSUME NEW ks, NEW q, NEW ins, NEW n, NEW o, Sound(ks, q, ins, n, o), n = Len(ks) - 1,
         NEW tok \in Tokens, tok.kind \in Keyable,
         NEW key \in Simple, key.at = Len(q), key.column = tok.column,
         n = 0 => ins[Len(ins)] <= key.column,
         NEW ls \in Seq(Simple), Len(ls) = Len(ks), ls[Len(ks)] = key,
         \A i \in Nat : 1 <= i /\ i < Len(ks) => ls[i] = ks[i]
  PROVE  Sound(ls, Append(q, tok), ins, NextFlows(tok.kind, n), o)
<1>1. Typed(ks, q, ins) /\ n \in Nat /\ Placed(ks, q) /\ Grow(ins)
  BY DEF Sound
<1>2. PICK b \in Counters, f \in Counters :
        /\ Counts(q, b, f) /\ b[Len(q)] = Len(ins) - 1 /\ f[Len(q)] = n
        /\ Agree(o, b[0], f[0])
        /\ Rooted(ks, q, ins, b, f)
  BY DEF Sound
<1>10. Typed(ls, q, ins)
  BY <1>1 DEF Typed
<1>3. ASSUME NEW r, r = Append(q, tok), NEW lsLen \in Nat, lsLen = Len(ls)
      PROVE  Sound(ls, r, ins, NextFlows(tok.kind, n), o)
  <2>1. Longer(q, r, tok) /\ Typed(ks, r, ins)
    BY <1>1, <1>3, LongerQueue
  <2>2. Typed(ls, r, ins)
    BY <1>3, <1>10, LongerQueue
  <2>3. KeysTyped(ks) /\ 1 <= Len(ks) /\ Len(q) \in Nat
    BY <1>1, TypedParts
  <2>4. b[Len(q)] \in Nat /\ f[Len(q)] \in Nat
    BY <2>3 DEF Counters
  <2>5. Inner(tok.kind)
    BY KeyableKinds
  <2>6. Fits(tok.kind, b[Len(q)], f[Len(q)]) /\ NextBlocks(tok.kind, b[Len(q)]) = b[Len(q)]
    BY <2>4, <2>5, InnerBlocks
  <2>7. PICK c, g \in Counters :
          /\ Counts(r, c, g)
          /\ c[Len(r)] = NextBlocks(tok.kind, b[Len(q)])
          /\ g[Len(r)] = NextFlows(tok.kind, f[Len(q)])
          /\ \A i \in Nat : i <= Len(q) => c[i] = b[i] /\ g[i] = f[i]
    <3>1. Counts(q, b, f)
      BY <1>2
    <3>. QED
      BY <2>1, <2>6, <3>1, CountsAppend
  <2>8. NextFlows(tok.kind, n) \in Nat
    BY <1>2, <2>4, <2>6, NextTypes
  <2>9. Placed(ks, r)
    BY <1>1, <2>1, <2>3, PlacedAppend
  <2>10. Rooted(ls, r, ins, c, g)
    <3>1. CASE n = 0
      <4>1. ls[1] = key
        BY <2>3, <3>1
      <4>2. ASSUME NEW j \in Nat, Len(q) <= j, j <= Len(r) PROVE c[j] = Len(ins) - 1
        <5>1. j = Len(q) \/ j = Len(r)
          BY <2>1, <4>2 DEF Longer
        <5>. QED
          BY <1>2, <2>3, <2>6, <2>7, <5>1
      <4>3. ASSUME NEW j \in Nat, Len(q) < j, j <= Len(r) PROVE Inner(r[j].kind)
        <5>1. j = Len(q) + 1
          BY <2>1, <4>3 DEF Longer
        <5>. QED
          BY <2>1, <2>5, <5>1 DEF Longer
      <4>4. g[Len(q)] = 0
        BY <1>2, <2>3, <2>7, <3>1
      <4>. QED
        BY <3>1, <4>1, <4>2, <4>3, <4>4 DEF Rooted
    <3>2. CASE n # 0
      <4>1. ls[1] = ks[1]
        <5>1. 1 < Len(ks)
          BY <1>3, <2>3, <3>2
        <5>. QED
          BY <5>1
      <4>2. Rooted(ks, q, ins, b, f) /\ Placed(ks, q) /\ b[Len(q)] = Len(ins) - 1
        BY <1>1, <1>2
      <4>3. c[Len(r)] = b[Len(q)] /\ \A i \in Nat : i <= Len(q) => c[i] = b[i] /\ g[i] = f[i]
        BY <2>6, <2>7
      <4>4. Rooted(ks, r, ins, c, g)
        BY <2>1, <2>3, <2>5, <4>2, <4>3, RootedAppend
      <4>. QED
        BY <4>1, <4>4 DEF Rooted
    <3>. QED
      BY <3>1, <3>2
  <2>11. Placed(ls, r)
    <3>1. \A i \in Nat : 1 <= i /\ i <= Len(ks) => i < Len(ks) \/ i = Len(ks)
      BY <2>3
    <3>2. ASSUME NEW i \in Nat, 1 <= i, i <= Len(ks), ls[i].possible
          PROVE  /\ ls[i].at < Len(r)
                 /\ r[ls[i].at + 1].column = ls[i].column
                 /\ r[ls[i].at + 1].kind \in Keyable
      <4>1. CASE i = Len(ks)
        BY <2>1, <4>1, SMTT(20) DEF Longer
      <4>2. CASE i < Len(ks)
        <5>1. ls[i] = ks[i]
          BY <3>2, <4>2
        <5>. QED
          BY <2>9, <3>2, <5>1 DEF Placed
      <4>. QED
        BY <3>1, <3>2, <4>1, <4>2
    <3>3. ASSUME NEW i \in Nat, 1 <= i, i <= Len(ks), ls[i].possible,
                 NEW j \in Nat, 1 <= j, j < i, ls[j].possible
          PROVE  ls[j].at < ls[i].at
      <4>1. j < Len(ks)
        BY <2>3, <3>3
      <4>2. ls[j] = ks[j] /\ j <= Len(ks)
        BY <3>3, <4>1
      <4>3. CASE i = Len(ks)
        <5>1. ks[j].at < Len(q)
          BY <1>1, <3>3, <4>2 DEF Placed
        <5>. QED
          BY <4>2, <4>3, <5>1
      <4>4. CASE i < Len(ks)
        <5>1. ls[i] = ks[i]
          BY <3>3, <4>4
        <5>. QED
          BY <1>1, <3>3, <4>2, <5>1 DEF Placed
      <4>. QED
        BY <3>1, <3>3, <4>3, <4>4
    <3>. QED
      BY <3>2, <3>3 DEF Placed
  <2>12. c[0] = b[0] /\ g[0] = f[0]
    BY <2>3, <2>7
  <2>13. Agree(o, c[0], g[0]) /\ c[Len(r)] = Len(ins) - 1 /\ g[Len(r)] = NextFlows(tok.kind, n)
    BY <1>2, <2>6, <2>7, <2>12
  <2>. QED
    BY <1>1, <2>2, <2>7, <2>8, <2>10, <2>11, <2>13 DEF Sound
<1>4. Len(ls) \in Nat
  OBVIOUS
<1>. QED
  BY <1>3, <1>4

Extended(q, k, e, r) == r = q \o [i \in 1 .. k |-> e]

LEMMA Repeated ==
  ASSUME NEW q \in Seq(Tokens), NEW k \in Nat, NEW e \in Tokens, NEW r, Extended(q, k, e, r)
  PROVE  /\ r \in Seq(Tokens) /\ Len(r) = Len(q) + k
         /\ \A i \in Nat : 1 <= i /\ i <= Len(q) => r[i] = q[i]
         /\ \A i \in Nat : Len(q) < i /\ i <= Len(r) => r[i] = e
<1>. DEFINE es == [i \in 1 .. k |-> e]
<1>1. es \in Seq(Tokens) /\ Len(es) = k /\ \A i \in 1 .. k : es[i] = e
  OBVIOUS
<1>2. r = q \o es
  BY DEF Extended
<1>. HIDE DEF es
<1>3. Len(q) \in Nat
  OBVIOUS
<1>4. /\ q \o es \in Seq(Tokens) /\ Len(q \o es) = Len(q) + Len(es)
      /\ \A i \in 1 .. Len(q) + Len(es) :
           (q \o es)[i] = IF i <= Len(q) THEN q[i] ELSE es[i - Len(q)]
  BY <1>1, ConcatProperties
<1>5. r \in Seq(Tokens) /\ Len(r) = Len(q) + k
  BY <1>1, <1>2, <1>4
<1>6. ASSUME NEW i \in Nat, 1 <= i, i <= Len(q) PROVE r[i] = q[i]
  <2>1. i \in 1 .. Len(q) + Len(es)
    BY <1>1, <1>3, <1>6
  <2>. QED
    BY <1>2, <1>4, <1>6, <2>1
<1>7. ASSUME NEW i \in Nat, Len(q) < i, i <= Len(r) PROVE r[i] = e
  <2>1. i \in 1 .. Len(q) + Len(es) /\ ~ (i <= Len(q)) /\ i - Len(q) \in 1 .. k
    BY <1>1, <1>3, <1>5, <1>7
  <2>. QED
    BY <1>1, <1>2, <1>4, <2>1
<1>. QED
  BY <1>5, <1>6, <1>7

EndedBy(q, r, k) ==
  /\ r \in Seq(Tokens) /\ Len(r) = Len(q) + k
  /\ \A i \in Nat : 1 <= i /\ i <= Len(q) => r[i] = q[i]
  /\ \A i \in Nat : Len(q) < i /\ i <= Len(r) => r[i].kind = "BLOCK-END"
Cut(ins, m, js) ==
  /\ js \in Seq(Int) /\ Len(js) = m
  /\ \A i \in Nat : 1 <= i /\ i <= m => js[i] = ins[i]

\* Block collections end, down to m - 1 of them.
LEMMA EndTokens ==
  ASSUME NEW ks, NEW q, NEW ins, NEW o, Sound(ks, q, ins, 0, o),
         ~ Live(ks[1]), NEW m \in Nat, 1 <= m, m <= Len(ins),
         NEW r, EndedBy(q, r, Len(ins) - m), NEW js, Cut(ins, m, js)
  PROVE  Sound(ks, r, js, 0, o)
<1>. SUFFICES ASSUME r \in Seq(Tokens), Len(r) = Len(q) + (Len(ins) - m),
                     \A i \in Nat : 1 <= i /\ i <= Len(q) => r[i] = q[i],
                     \A i \in Nat : Len(q) < i /\ i <= Len(r) => r[i].kind = "BLOCK-END",
                     js \in Seq(Int), Len(js) = m,
                     \A i \in Nat : 1 <= i /\ i <= m => js[i] = ins[i]
              PROVE  Sound(ks, r, js, 0, o)
  BY DEF EndedBy, Cut
<1>1. Typed(ks, q, ins) /\ Placed(ks, q) /\ Grow(ins)
  BY DEF Sound
<1>2. PICK b \in Counters, f \in Counters :
        /\ Counts(q, b, f) /\ b[Len(q)] = Len(ins) - 1 /\ f[Len(q)] = 0
        /\ Agree(o, b[0], f[0])
        /\ Rooted(ks, q, ins, b, f)
  BY DEF Sound
<1>3. KeysTyped(ks) /\ Len(q) \in Nat /\ Len(ins) \in Nat
  BY <1>1, TypedParts
<1>4. Typed(ks, r, js)
  BY <1>1 DEF Typed
<1>. SUFFICES ASSUME NEW n \in Nat, n = Len(q), NEW k \in Nat, k = Len(ins) - m
              PROVE  Sound(ks, r, js, 0, o)
  <2>1. Len(ins) - m \in Nat
    BY <1>3
  <2>. QED
    BY <1>3, <2>1
<1>8. Len(r) = n + k
  OBVIOUS
<1>. DEFINE c == [i \in Nat |-> IF i <= n THEN b[i] ELSE IF i <= n + k THEN b[n] - (i - n) ELSE 0]
            g == [i \in Nat |-> IF i <= n THEN f[i] ELSE 0]
<1>9. b[n] = m - 1 + k
  BY <1>2, <1>3
<1>10. c \in Counters /\ g \in Counters
  <2>1. \A i \in Nat : b[i] \in Nat /\ f[i] \in Nat
    BY DEF Counters
  <2>2. \A i \in Nat : ~ (i <= n) /\ i <= n + k => b[n] - (i - n) \in Nat
    BY <1>9, SMTT(20)
  <2>. QED
    BY <2>1, <2>2 DEF Counters
<1>11. \A i \in Nat : i <= n => c[i] = b[i] /\ g[i] = f[i]
  OBVIOUS
<1>12. \A i \in Nat : n < i /\ i <= n + k => c[i] = b[n] - (i - n) /\ g[i] = 0
  OBVIOUS
<1>. HIDE DEF c, g
<1>13. ASSUME NEW i \in Nat, i < n + k
       PROVE  /\ Fits(r[i + 1].kind, c[i], g[i])
              /\ c[i + 1] = NextBlocks(r[i + 1].kind, c[i])
              /\ g[i + 1] = NextFlows(r[i + 1].kind, g[i])
  <2>1. CASE i < n
    <3>1. i + 1 <= n /\ i + 1 \in Nat /\ 1 <= i + 1 /\ i <= n
      BY <2>1
    <3>2. r[i + 1] = q[i + 1] /\ c[i] = b[i] /\ g[i] = f[i] /\ c[i + 1] = b[i + 1]
          /\ g[i + 1] = f[i + 1]
      BY <1>11, <3>1
    <3>3. /\ Fits(q[i + 1].kind, b[i], f[i])
          /\ b[i + 1] = NextBlocks(q[i + 1].kind, b[i])
          /\ f[i + 1] = NextFlows(q[i + 1].kind, f[i])
      BY <1>2, <2>1 DEF Counts
    <3>. QED
      BY <3>2, <3>3
  <2>2. CASE ~ (i < n)
    <3>1. i + 1 \in Nat /\ n < i + 1 /\ i + 1 <= n + k
      BY <1>13, <2>2
    <3>2. r[i + 1].kind = "BLOCK-END"
      BY <1>8, <3>1
    <3>3. c[i + 1] = b[n] - ((i + 1) - n) /\ g[i + 1] = 0
      BY <1>12, <3>1
    <3>4. c[i] = b[n] - (i - n) /\ g[i] = 0
      <4>1. CASE i = n
        <5>1. b[n] \in Nat
          BY DEF Counters
        <5>. QED
          BY <1>2, <1>11, <4>1, <5>1
      <4>2. CASE i # n
        <5>1. n < i /\ i <= n + k
          BY <1>13, <2>2, <4>2
        <5>. QED
          BY <1>12, <5>1
      <4>. QED
        BY <4>1, <4>2
    <3>5. c[i] > 0 /\ c[i + 1] = c[i] - 1 /\ g[i] = 0 /\ g[i + 1] = 0
      BY <1>9, <1>13, <2>2, <3>3, <3>4
    <3>6. "BLOCK-END" \notin BlockStarts \cup FlowStarts \cup FlowEnds \cup Outer
      BY DEF BlockStarts, FlowStarts, FlowEnds, Outer
    <3>. QED
      BY <3>2, <3>5, <3>6 DEF Fits, NextBlocks, NextFlows
  <2>. QED
    BY <2>1, <2>2
<1>14. Counts(r, c, g)
  BY <1>8, <1>13 DEF Counts
<1>15. c[Len(r)] = m - 1 /\ g[Len(r)] = 0
  <2>1. CASE k = 0
    BY <1>2, <1>8, <1>9, <1>11, <2>1
  <2>2. CASE k # 0
    <3>1. n + k \in Nat /\ n < n + k /\ n + k <= n + k
      BY <2>2
    <3>. QED
      BY <1>8, <1>9, <1>12, <3>1
  <2>. QED
    BY <2>1, <2>2
<1>16. Rooted(ks, r, js, c, g)
  BY DEF Rooted
<1>17. Placed(ks, r)
  <2>0. \A x \in Nat : x < n => x < n + k /\ x + 1 \in Nat /\ 1 <= x + 1 /\ x + 1 <= n
    OBVIOUS
  <2>1. ASSUME NEW i \in Nat, 1 <= i, i <= Len(ks), ks[i].possible
        PROVE  ks[i].at < Len(r) /\ r[ks[i].at + 1] = q[ks[i].at + 1]
    <3>1. ks[i].at \in Nat /\ ks[i].at < n
      BY <1>1, <1>3, <2>1 DEF Placed, KeysTyped
    <3>. QED
      BY <1>8, <2>0, <3>1
  <2>. QED
    BY <1>1, <2>1 DEF Placed
<1>18. Grow(js)
  <2>1. js[1] = -1
    <3>1. PICK u \in Nat : u = 1
      OBVIOUS
    <3>2. js[u] = ins[u]
      BY <3>1
    <3>. QED
      BY <1>1, <3>1, <3>2 DEF Grow
  <2>2. ASSUME NEW i \in Nat, NEW j \in Nat, 1 <= i, i < j, j <= m PROVE js[i] < js[j]
    <3>1. j <= Len(ins) /\ i <= m /\ 1 <= j
      BY <1>3, <2>2
    <3>2. ins[i] < ins[j]
      BY <1>1, <2>2, <3>1 DEF Grow
    <3>. QED
      BY <2>2, <3>1, <3>2
  <2>. QED
    BY <2>1, <2>2 DEF Grow
<1>19. Agree(o, c[0], g[0])
  BY <1>2, <1>11
<1>. QED
  BY <1>4, <1>10, <1>14, <1>15, <1>16, <1>17, <1>18, <1>19 DEF Sound

----------------------------------------------------------------------------
(* A token in the middle of the queue                                       *)

Between(q, r, p, tok) ==
  /\ Len(q) \in Nat /\ p <= Len(q) /\ Len(r) = Len(q) + 1 /\ r[p + 1] = tok
  /\ \A i \in Nat : 1 <= i /\ i <= p => r[i] = q[i]
  /\ \A i \in Nat : p < i /\ i <= Len(q) => r[i + 1] = q[i]

Still(q, p, d) == d # 0 => \A j \in Nat : p < j /\ j <= Len(q) => Inner(q[j].kind)

\* It adds d collections to those open after it, where nothing closes one.
Adds(q, r, p, tok, b, f, d) ==
  /\ Between(q, r, p, tok) /\ Counts(q, b, f) /\ Still(q, p, d)
  /\ Fits(tok.kind, b[p], f[p]) /\ NextBlocks(tok.kind, b[p]) = b[p] + d
  /\ NextFlows(tok.kind, f[p]) = f[p]

Added(q, r, p, b, f, d, c, g) ==
  /\ Counts(r, c, g)
  /\ \A i \in Nat : i <= p => c[i] = b[i] /\ g[i] = f[i]
  /\ \A i \in Nat : p <= i /\ i <= Len(q) => c[i + 1] = b[i] + d /\ g[i + 1] = f[i]

LEMMA CountsInsert ==
  ASSUME NEW p \in Nat, NEW d \in Nat, NEW b \in Counters, NEW f \in Counters,
         NEW q, NEW r, NEW tok, Adds(q, r, p, tok, b, f, d)
  PROVE  \E c, g \in Counters : Added(q, r, p, b, f, d, c, g)
<1>0. /\ Between(q, r, p, tok) /\ Counts(q, b, f) /\ Still(q, p, d)
      /\ Fits(tok.kind, b[p], f[p]) /\ NextBlocks(tok.kind, b[p]) = b[p] + d
      /\ NextFlows(tok.kind, f[p]) = f[p]
  BY DEF Adds
<1>. PICK n \in Nat : n = Len(q)
  BY <1>0 DEF Between
<1>1. /\ p <= n /\ Len(r) = n + 1 /\ r[p + 1] = tok
      /\ \A i \in Nat : 1 <= i /\ i <= p => r[i] = q[i]
      /\ \A i \in Nat : p < i /\ i <= n => r[i + 1] = q[i]
  BY <1>0 DEF Between
<1>2. \A i \in Nat : b[i] \in Nat /\ f[i] \in Nat
  BY DEF Counters
<1>. DEFINE c == [i \in Nat |-> IF i <= p THEN b[i] ELSE b[i - 1] + d]
            g == [i \in Nat |-> IF i <= p THEN f[i] ELSE f[i - 1]]
<1>3. c \in Counters /\ g \in Counters
  <2>1. ASSUME NEW i \in Nat, ~ (i <= p) PROVE b[i - 1] + d \in Nat /\ f[i - 1] \in Nat
    <3>1. i - 1 \in Nat
      BY <2>1
    <3>. QED
      BY <1>2, <3>1
  <2>2. c \in [Nat -> Nat]
    BY <1>2, <2>1
  <2>3. g \in [Nat -> Nat]
    BY <1>2, <2>1
  <2>. QED
    BY <2>2, <2>3 DEF Counters
<1>4. \A i \in Nat : i <= p => c[i] = b[i] /\ g[i] = f[i]
  OBVIOUS
<1>5. ASSUME NEW i \in Nat, p <= i PROVE c[i + 1] = b[i] + d /\ g[i + 1] = f[i]
  <2>1. i + 1 \in Nat /\ ~ (i + 1 <= p) /\ (i + 1) - 1 = i
    BY <1>5
  <2>. QED
    BY <2>1
<1>. HIDE DEF c, g
<1>6. ASSUME NEW i \in Nat, i < n
      PROVE  /\ Fits(q[i + 1].kind, b[i], f[i])
             /\ b[i + 1] = NextBlocks(q[i + 1].kind, b[i])
             /\ f[i + 1] = NextFlows(q[i + 1].kind, f[i])
  BY <1>0, <1>6 DEF Counts
<1>7. ASSUME NEW i \in Nat, i < n + 1
      PROVE  /\ Fits(r[i + 1].kind, c[i], g[i])
             /\ c[i + 1] = NextBlocks(r[i + 1].kind, c[i])
             /\ g[i + 1] = NextFlows(r[i + 1].kind, g[i])
  <2>1. CASE i < p
    <3>1. i <= p /\ i + 1 <= p /\ i + 1 \in Nat /\ 1 <= i + 1 /\ i < n
      BY <1>1, <2>1
    <3>2. r[i + 1] = q[i + 1] /\ c[i] = b[i] /\ g[i] = f[i] /\ c[i + 1] = b[i + 1]
          /\ g[i + 1] = f[i + 1]
      BY <1>1, <1>4, <3>1
    <3>. QED
      BY <1>6, <3>1, <3>2
  <2>2. CASE i = p
    <3>1. c[p] = b[p] /\ g[p] = f[p] /\ c[p + 1] = b[p] + d /\ g[p + 1] = f[p]
      BY <1>4, <1>5
    <3>. QED
      BY <1>0, <1>1, <2>2, <3>1
  <2>3. CASE p < i
    <3>. PICK k \in Nat : k = i - 1
      BY <2>3
    <3>1. p <= k /\ k < n /\ i = k + 1 /\ i <= n /\ p <= i
      BY <1>7, <2>3
    <3>2. r[i + 1] = q[k + 1]
      BY <1>1, <2>3, <3>1
    <3>3. c[i] = b[k] + d /\ g[i] = f[k] /\ c[i + 1] = b[k + 1] + d /\ g[i + 1] = f[k + 1]
      BY <1>5, <3>1
    <3>4. /\ Fits(q[k + 1].kind, b[k], f[k])
          /\ b[k + 1] = NextBlocks(q[k + 1].kind, b[k])
          /\ f[k + 1] = NextFlows(q[k + 1].kind, f[k])
      BY <1>6, <3>1
    <3>5. CASE d = 0
      <4>1. b[k] + d = b[k] /\ b[k + 1] + d = b[k + 1]
        BY <1>2, <3>5
      <4>. QED
        BY <3>2, <3>3, <3>4, <4>1
    <3>6. CASE d # 0
      <4>1. Inner(q[k + 1].kind)
        BY <1>0, <2>3, <3>1, <3>6 DEF Still
      <4>2. b[k] \in Nat /\ f[k] \in Nat /\ b[k] + d \in Nat
        BY <1>2
      <4>3. NextBlocks(q[k + 1].kind, b[k]) = b[k]
        BY <4>1, <4>2, InnerBlocks
      <4>4. NextBlocks(q[k + 1].kind, b[k] + d) = b[k] + d /\ Fits(q[k + 1].kind, b[k] + d, f[k])
        BY <4>1, <4>2, InnerBlocks
      <4>. QED
        BY <3>2, <3>3, <3>4, <4>3, <4>4
    <3>. QED
      BY <3>5, <3>6
  <2>. QED
    BY <2>1, <2>2, <2>3
<1>8. Counts(r, c, g)
  BY <1>1, <1>7 DEF Counts
<1>9. Added(q, r, p, b, f, d, c, g)
  BY <1>4, <1>5, <1>8 DEF Added
<1>. QED
  BY <1>3, <1>9

\* The last key has its KEY.
Resolved(ks, ls) ==
  /\ Len(ls) = Len(ks) /\ ~ ls[Len(ks)].possible
  /\ \A i \in Nat : 1 <= i /\ i < Len(ks) => ls[i] = ks[i]

Same(q, r, p) ==
  /\ Len(q) \in Nat /\ Len(r) \in Nat /\ Len(q) <= Len(r)
  /\ \A i \in Nat : 1 <= i /\ i <= p => r[i] = q[i]

LEMMA PlacedResolved ==
  ASSUME NEW ks, NEW q, KeysTyped(ks), 1 <= Len(ks), Placed(ks, q),
         NEW p \in Nat, ks[Len(ks)].possible, p = ks[Len(ks)].at,
         NEW ls, Resolved(ks, ls), NEW r, Same(q, r, p)
  PROVE  Placed(ls, r) /\ \A i \in Nat : 1 <= i /\ i <= Len(ks) /\ ls[i].possible => ls[i].at < p
<1>. PICK n \in Nat : n = Len(ks) /\ 1 <= n
  BY DEF KeysTyped
<1>1. ASSUME NEW i \in Nat, 1 <= i, i <= n, ls[i].possible
      PROVE  /\ i < n /\ ls[i] = ks[i] /\ ks[i].possible /\ ks[i].at \in Nat /\ ks[i].at < p
             /\ ks[i].at < Len(q)
  <2>1. i # n
    BY <1>1 DEF Resolved
  <2>2. i < n
    BY <1>1, <2>1
  <2>3. ls[i] = ks[i]
    BY <1>1, <2>2 DEF Resolved
  <2>4. ks[i].at < ks[n].at
    BY <1>1, <2>2, <2>3 DEF Placed
  <2>5. ks[i].at < Len(q)
    BY <1>1, <2>3 DEF Placed
  <2>. QED
    BY <1>1, <2>2, <2>3, <2>4, <2>5 DEF KeysTyped
<1>2. ASSUME NEW i \in Nat, 1 <= i, i <= n, ls[i].possible
      PROVE  /\ ls[i].at < Len(r)
             /\ r[ls[i].at + 1].column = ls[i].column
             /\ r[ls[i].at + 1].kind \in Keyable
  <2>1. ls[i] = ks[i] /\ ks[i].possible /\ ks[i].at \in Nat /\ ks[i].at < p /\ ks[i].at < Len(q)
    BY <1>1, <1>2
  <2>2. ks[i].at + 1 \in Nat /\ 1 <= ks[i].at + 1 /\ ks[i].at + 1 <= p /\ ks[i].at < Len(r)
    BY <2>1 DEF Same
  <2>3. r[ks[i].at + 1] = q[ks[i].at + 1]
    BY <2>2 DEF Same
  <2>4. q[ks[i].at + 1].column = ks[i].column /\ q[ks[i].at + 1].kind \in Keyable
    BY <1>2, <2>1 DEF Placed
  <2>. QED
    BY <2>1, <2>2, <2>3, <2>4
<1>3. ASSUME NEW i \in Nat, 1 <= i, i <= n, ls[i].possible,
             NEW j \in Nat, 1 <= j, j < i, ls[j].possible
      PROVE  ls[j].at < ls[i].at
  <2>1. j <= n
    BY <1>3
  <2>2. ls[i] = ks[i] /\ ls[j] = ks[j]
    BY <1>1, <1>3, <2>1
  <2>. QED
    BY <1>3, <2>2 DEF Placed
<1>4. Len(ls) = n
  BY DEF Resolved
<1>5. Placed(ls, r)
  BY <1>2, <1>3, <1>4 DEF Placed
<1>. QED
  BY <1>1, <1>5

LEMMA KeyKind == Inner("KEY") /\ "KEY" \notin FlowStarts /\ "KEY" \notin FlowEnds
BY DEF Inner, FlowStarts, FlowEnds, BlockStarts, Outer

LEMMA KeyCounts ==
  ASSUME NEW q, NEW tok, NEW r, NEW p \in Nat, Between(q, r, p, tok),
         NEW b \in Counters, NEW f \in Counters, Counts(q, b, f),
         Fits(tok.kind, b[p], f[p]), NextBlocks(tok.kind, b[p]) = b[p],
         NextFlows(tok.kind, f[p]) = f[p]
  PROVE  \E c, g \in Counters :
           /\ Counts(r, c, g)
           /\ \A i \in Nat : i <= p => c[i] = b[i] /\ g[i] = f[i]
           /\ \A i \in Nat : p <= i /\ i <= Len(q) => c[i + 1] = b[i] /\ g[i + 1] = f[i]
<1>1. \A i \in Nat : b[i] + 0 = b[i]
  BY DEF Counters
<1>. PICK zero \in Nat : zero = 0
  OBVIOUS
<1>2. NextBlocks(tok.kind, b[p]) = b[p] + zero
  BY <1>1
<1>3. Still(q, p, zero)
  BY DEF Still
<1>4. Adds(q, r, p, tok, b, f, zero)
  BY <1>2, <1>3 DEF Adds
<1>5. PICK c, g \in Counters : Added(q, r, p, b, f, zero, c, g)
  BY <1>4, CountsInsert
<1>. QED
  BY <1>1, <1>5 DEF Added

\* KEY goes before the token of the last key.
LEMMA KeyInserted ==
  ASSUME NEW ks, NEW q, NEW ins, NEW n, NEW o, Sound(ks, q, ins, n, o),
         ks[Len(ks)].possible, NEW p \in Nat, p = ks[Len(ks)].at,
         NEW tok, tok.kind = "KEY", NEW r, Between(q, r, p, tok),
         NEW ls, Resolved(ks, ls), Typed(ls, r, ins)
  PROVE  Sound(ls, r, ins, n, o)
<1>1. Typed(ks, q, ins) /\ n \in Nat /\ Placed(ks, q) /\ Grow(ins)
  BY DEF Sound
<1>2. PICK b \in Counters, f \in Counters :
        /\ Counts(q, b, f) /\ b[Len(q)] = Len(ins) - 1 /\ f[Len(q)] = n
        /\ Agree(o, b[0], f[0])
        /\ Rooted(ks, q, ins, b, f)
  BY DEF Sound
<1>3. KeysTyped(ks) /\ 1 <= Len(ks) /\ Len(ks) \in Nat /\ Len(ins) \in Nat
  BY <1>1, TypedParts DEF KeysTyped
<1>. PICK len \in Nat : len = Len(q)
  BY DEF Between
<1>6. /\ p <= len /\ Len(r) = len + 1 /\ r[p + 1] = tok
      /\ \A i \in Nat : 1 <= i /\ i <= p => r[i] = q[i]
      /\ \A i \in Nat : p < i /\ i <= len => r[i + 1] = q[i]
  BY DEF Between
<1>7. b[p] \in Nat /\ f[p] \in Nat
  BY DEF Counters
<1>8. Fits(tok.kind, b[p], f[p]) /\ NextBlocks(tok.kind, b[p]) = b[p]
  BY <1>7, InnerBlocks, KeyKind
<1>9. NextFlows(tok.kind, f[p]) = f[p]
  BY <1>7, KeyKind DEF NextFlows
<1>10. PICK c, g \in Counters :
         /\ Counts(r, c, g)
         /\ \A i \in Nat : i <= p => c[i] = b[i] /\ g[i] = f[i]
         /\ \A i \in Nat : p <= i /\ i <= Len(q) => c[i + 1] = b[i] /\ g[i + 1] = f[i]
  <2>1. Counts(q, b, f)
    BY <1>2
  <2>. QED
    BY <1>8, <1>9, <2>1, KeyCounts, SMTT(20)
<1>11. \A i \in Nat : p <= i /\ i <= len => c[i + 1] = b[i] /\ g[i + 1] = f[i]
  BY <1>10
<1>12. /\ Placed(ls, r)
       /\ \A i \in Nat : 1 <= i /\ i <= Len(ks) /\ ls[i].possible => ls[i].at < p
  <2>1. Same(q, r, p)
    BY <1>6 DEF Same
  <2>. QED
    BY <1>1, <1>3, <2>1, PlacedResolved
<1>13. c[Len(r)] = Len(ins) - 1 /\ g[Len(r)] = n
  BY <1>2, <1>6, <1>11
<1>14. Rooted(ls, r, ins, c, g)
  <2>. SUFFICES ASSUME Live(ls[1])
                PROVE  /\ ins[Len(ins)] <= ls[1].column
                       /\ g[ls[1].at] = 0
                       /\ \A j \in Nat : ls[1].at <= j /\ j <= len + 1 => c[j] = Len(ins) - 1
                       /\ \A j \in Nat : ls[1].at < j /\ j <= len + 1 => Inner(r[j].kind)
    BY <1>6 DEF Rooted
  <2>1. Len(ks) # 1 /\ ls[1].possible
    BY DEF Live, Resolved
  <2>2. 1 < Len(ks)
    <3>1. Len(ks) # 1 /\ 1 <= Len(ks) /\ Len(ks) \in Nat
      BY <1>3, <2>1
    <3>2. \A m \in Nat : m # 1 /\ 1 <= m => 1 < m
      OBVIOUS
    <3>. QED
      BY <3>1, <3>2, Zenon
  <2>3. ls[1] = ks[1] /\ Live(ks[1])
    BY <2>2 DEF Resolved
  <2>4. /\ ins[Len(ins)] <= ks[1].column
        /\ f[ks[1].at] = 0
        /\ \A j \in Nat : ks[1].at <= j /\ j <= len => b[j] = Len(ins) - 1
        /\ \A j \in Nat : ks[1].at < j /\ j <= len => Inner(q[j].kind)
    BY <1>2, <2>3 DEF Rooted
  <2>. PICK a \in Nat : a = ks[1].at
    BY <1>3 DEF KeysTyped
  <2>5. a < p
    BY <1>12, <2>1, <2>2, <2>3
  <2>6. g[a] = 0
    BY <1>10, <2>4, <2>5
  <2>7. ASSUME NEW j \in Nat, a <= j, j <= len + 1 PROVE c[j] = Len(ins) - 1
    <3>1. CASE j <= p
      <4>1. j <= len
        BY <1>6, <3>1
      <4>. QED
        BY <1>10, <2>4, <2>7, <3>1, <4>1
    <3>2. CASE ~ (j <= p)
      <4>. PICK i \in Nat : i = j - 1
        BY <3>2
      <4>1. j = i + 1 /\ p <= i /\ i <= len /\ a <= i
        BY <2>5, <2>7, <3>2
      <4>. QED
        BY <1>11, <2>4, <4>1
    <3>. QED
      BY <3>1, <3>2
  <2>8. ASSUME NEW j \in Nat, a < j, j <= len + 1 PROVE Inner(r[j].kind)
    <3>1. CASE j <= p
      <4>1. j <= len /\ 1 <= j
        BY <1>6, <2>8, <3>1
      <4>. QED
        BY <1>6, <2>4, <2>8, <3>1, <4>1
    <3>2. CASE j = p + 1
      BY <1>6, <3>2, KeyKind
    <3>3. CASE p + 1 < j
      <4>0. j - 1 \in Nat
        BY <3>3
      <4>. PICK i \in Nat : i = j - 1
        BY <4>0
      <4>1. j = i + 1 /\ p < i /\ i <= len /\ a < i
        BY <2>5, <2>8, <3>3, SMTT(20)
      <4>2. r[j] = q[i]
        BY <1>6, <4>1
      <4>3. Inner(q[i].kind)
        BY <2>4, <4>1
      <4>. QED
        BY <4>2, <4>3
    <3>. QED
      BY <3>1, <3>2, <3>3
  <2>. QED
    BY <2>3, <2>4, <2>6, <2>7, <2>8
<1>15. Agree(o, c[0], g[0])
  BY <1>2, <1>10
<1>. QED
  BY <1>1, <1>10, <1>12, <1>13, <1>14, <1>15 DEF Sound

\* Outside flow collections a mapping may begin with it.
LEMMA MappingInserted ==
  ASSUME NEW ks, NEW q, NEW ins, NEW o, Sound(ks, q, ins, 0, o),
         Len(ks) = 1, Live(ks[1]), NEW p \in Nat, p = ks[1].at,
         NEW tok, tok.kind = "KEY", NEW r, Between(q, r, p, tok),
         NEW start, start.kind \in BlockStarts, NEW t, Between(r, t, p, start),
         NEW js, Len(js) = Len(ins) + 1, Grow(js),
         NEW ls, Resolved(ks, ls), Typed(ls, t, js)
  PROVE  Sound(ls, t, js, 0, o)
<1>1. Typed(ks, q, ins) /\ Placed(ks, q) /\ Grow(ins)
  BY DEF Sound
<1>2. PICK b \in Counters, f \in Counters :
        /\ Counts(q, b, f) /\ b[Len(q)] = Len(ins) - 1 /\ f[Len(q)] = 0
        /\ Agree(o, b[0], f[0])
        /\ Rooted(ks, q, ins, b, f)
  BY DEF Sound
<1>3. KeysTyped(ks) /\ 1 <= Len(ks) /\ Len(ks) \in Nat /\ Len(ins) \in Nat
  BY <1>1, TypedParts DEF KeysTyped
<1>. PICK len \in Nat : len = Len(q)
  BY DEF Between
<1>8. /\ p <= len /\ Len(r) = len + 1 /\ r[p + 1] = tok
      /\ \A i \in Nat : 1 <= i /\ i <= p => r[i] = q[i]
      /\ \A i \in Nat : p < i /\ i <= len => r[i + 1] = q[i]
  BY DEF Between
<1>9. /\ Len(t) = len + 2 /\ t[p + 1] = start
      /\ \A i \in Nat : 1 <= i /\ i <= p => t[i] = r[i]
  BY <1>8 DEF Between
<1>10. /\ f[p] = 0
       /\ \A j \in Nat : p < j /\ j <= len => Inner(q[j].kind)
  BY <1>2 DEF Rooted
<1>11. b[p] \in Nat
  BY DEF Counters
<1>12. PICK c, g \in Counters :
         /\ Counts(r, c, g)
         /\ \A i \in Nat : i <= p => c[i] = b[i] /\ g[i] = f[i]
         /\ \A i \in Nat : p <= i /\ i <= Len(q) => c[i + 1] = b[i] /\ g[i + 1] = f[i]
  <2>1. Fits(tok.kind, b[p], f[p]) /\ NextBlocks(tok.kind, b[p]) = b[p]
    BY <1>10, <1>11, InnerBlocks, KeyKind
  <2>2. NextFlows(tok.kind, f[p]) = f[p]
    BY <1>10, KeyKind DEF NextFlows
  <2>3. Counts(q, b, f)
    BY <1>2
  <2>. QED
    BY <2>1, <2>2, <2>3, KeyCounts, SMTT(20)
<1>13. c[len + 1] = Len(ins) - 1 /\ g[len + 1] = 0
  BY <1>2, <1>3, <1>8, <1>12
<1>14. c[p] = b[p] /\ g[p] = 0 /\ c[0] = b[0] /\ g[0] = f[0]
  BY <1>10, <1>12
<1>15. ASSUME NEW j \in Nat, p < j, j <= len + 1 PROVE Inner(r[j].kind)
  <2>1. CASE j = p + 1
    BY <1>8, <2>1, KeyKind
  <2>2. CASE j # p + 1
    <3>. PICK i \in Nat : i = j - 1
      BY <1>15
    <3>1. j = i + 1 /\ p < i /\ i <= len
      BY <1>15, <2>2
    <3>. QED
      BY <1>8, <1>10, <3>1
  <2>. QED
    BY <2>1, <2>2
<1>16. PICK d, h \in Counters :
         /\ Counts(t, d, h)
         /\ \A i \in Nat : i <= p => d[i] = c[i] /\ h[i] = g[i]
         /\ \A i \in Nat : p <= i /\ i <= Len(r) => d[i + 1] = c[i] + 1 /\ h[i + 1] = g[i]
  <2>1. start.kind # "BLOCK-END" /\ start.kind \notin Outer \cup FlowStarts \cup FlowEnds
    BY DEF BlockStarts, Outer, FlowStarts, FlowEnds
  <2>2. Fits(start.kind, c[p], g[p]) /\ NextFlows(start.kind, g[p]) = g[p]
    BY <1>14, <2>1 DEF Fits, NextFlows
  <2>3. NextBlocks(start.kind, c[p]) = c[p] + 1
    BY DEF NextBlocks
  <2>4. \A j \in Nat : p < j /\ j <= Len(r) => Inner(r[j].kind)
    BY <1>8, <1>15
  <2>5. Counts(r, c, g)
    BY <1>12
  <2>. PICK one \in Nat : one = 1
    OBVIOUS
  <2>6. Still(r, p, one)
    BY <2>4 DEF Still
  <2>7. NextBlocks(start.kind, c[p]) = c[p] + one
    BY <2>3
  <2>8. Adds(r, t, p, start, c, g, one)
    BY <2>2, <2>5, <2>6, <2>7 DEF Adds
  <2>9. PICK d, h \in Counters : Added(r, t, p, c, g, one, d, h)
    BY <2>8, CountsInsert
  <2>. QED
    BY <2>9 DEF Added
<1>17. d[Len(t)] = Len(js) - 1 /\ h[Len(t)] = 0
  <2>1. len + 1 \in Nat /\ p <= len + 1 /\ len + 1 <= len + 1 /\ (len + 1) + 1 = len + 2
    BY <1>8
  <2>2. d[(len + 1) + 1] = c[len + 1] + 1 /\ h[(len + 1) + 1] = g[len + 1]
    BY <1>8, <1>16, <2>1
  <2>. QED
    BY <1>3, <1>9, <1>13, <2>1, <2>2
<1>18. Placed(ls, t)
  <2>1. Len(q) <= Len(t) /\ Len(q) \in Nat /\ Len(t) \in Nat
    BY <1>9
  <2>2. Same(q, t, p)
    BY <1>8, <1>9, <2>1 DEF Same
  <2>3. ks[Len(ks)].possible /\ p = ks[Len(ks)].at
    BY DEF Live
  <2>. QED
    BY <1>1, <1>3, <2>2, <2>3, PlacedResolved
<1>19. Rooted(ls, t, js, d, h)
  BY DEF Rooted, Resolved, Live
<1>20. Agree(o, d[0], h[0])
  BY <1>2, <1>14, <1>16
<1>. QED
  BY <1>16, <1>17, <1>18, <1>19, <1>20 DEF Sound

----------------------------------------------------------------------------
(* The head of the queue                                                    *)

\* Every key is one token nearer.
AllNearer(ks, ls) ==
  /\ Len(ls) = Len(ks)
  /\ \A i \in Nat : 1 <= i /\ i <= Len(ks) =>
       IF ks[i].possible
       THEN /\ ls[i].possible /\ ls[i].at = ks[i].at - 1 /\ ls[i].column = ks[i].column
            /\ ls[i].here = ks[i].here
       ELSE ~ ls[i].possible

LEMMA OneElement ==
  ASSUME NEW S, NEW x \in S
  PROVE  <<x>> \in Seq(S)
OBVIOUS

Push(o, e, s) ==
  /\ s \in Stacks /\ Len(s) = Len(o) + 1 /\ s[Len(o) + 1] = e
  /\ \A i \in Nat : 1 <= i /\ i <= Len(o) => s[i] = o[i]
Pop(o, s) ==
  /\ s \in Stacks /\ Len(s) = Len(o) - 1
  /\ \A i \in Nat : 1 <= i /\ i <= Len(o) - 1 => s[i] = o[i]

LEMMA Pushed ==
  ASSUME NEW o \in Stacks, NEW e \in Kinds
  PROVE  Push(o, e, Append(o, e))
<1>. DEFINE s == Append(o, e)
<1>1. e \in Marks
  BY DEF Marks
<1>2. s = Append(o, e)
  OBVIOUS
<1>. HIDE DEF s
<1>3. Push(o, e, s)
  BY <1>1, <1>2, Appended DEF Stacks, Push
<1>. QED
  BY <1>2, <1>3

LEMMA Popped ==
  ASSUME NEW o \in Stacks, Len(o) # 0
  PROVE  Pop(o, Front(o))
<1>. DEFINE s == Front(o)
<1>. PICK n \in Nat : Len(o) = n + 1
  <2>1. Len(o) \in Nat
    BY DEF Stacks
  <2>2. Len(o) - 1 \in Nat /\ Len(o) = (Len(o) - 1) + 1
    BY <2>1
  <2>. QED
    BY <2>2
<1>1. \A i \in 1 .. n : o[i] \in Marks
  BY ElementOfSeq DEF Stacks
<1>2. s = SubSeq(o, 1, n)
  <2>1. Len(o) - 1 = n
    OBVIOUS
  <2>. QED
    BY <2>1 DEF Front
<1>. HIDE DEF s
<1>3. /\ s \in Seq(Marks) /\ Len(s) = IF 1 <= n THEN n - 1 + 1 ELSE 0
      /\ \A i \in 1 .. n - 1 + 1 : s[i] = o[1 + i - 1]
  BY <1>1, <1>2, SubSeqProperties
<1>4. Pop(o, s)
  BY <1>3 DEF Stacks, Pop
<1>. QED
  BY <1>4 DEF s

LEMMA OpenedStack ==
  ASSUME NEW o \in Stacks, NEW kind \in Kinds
  PROVE  Opened(o, kind) \in Stacks
<1>1. Len(o) \in Nat /\ (Len(o) = 0 <=> o = <<>>)
  BY DEF Stacks
<1>2. Append(o, kind) \in Stacks
  BY <1>1, Pushed DEF Push
<1>3. <<"refused">> \in Stacks /\ <<"broken">> \in Stacks
  BY OneElement DEF Stacks, Marks
<1>4. Front(o) \in Stacks
  <2>1. CASE Len(o) = 0
    <3>1. Front(o) = <<>>
      BY <1>1, <2>1, SubSeqEmpty DEF Front
    <3>. QED
      BY <1>1, <2>1, <3>1
  <2>2. CASE Len(o) # 0
    BY <2>2, Popped DEF Pop
  <2>. QED
    BY <2>1, <2>2
<1>. DEFINE top == IF o = <<>> THEN "none" ELSE Last(o)
<1>5. Opened(o, kind) \in {o, Append(o, kind), Front(o), <<"refused">>, <<"broken">>}
  <2>1. \A x : x = top => x = top
    OBVIOUS
  <2>. HIDE DEF top
  <2>. QED
    BY DEF Opened
<1>. QED
  BY <1>2, <1>3, <1>4, <1>5

\* The parser opens and closes what the counts say, or refuses.
LEMMA OpenedAgrees ==
  ASSUME NEW o, NEW kind \in Kinds, NEW b \in Nat, NEW f \in Nat, Agree(o, b, f), Fits(kind, b, f)
  PROVE  Agree(Opened(o, kind), NextBlocks(kind, b), NextFlows(kind, f))
<1>1. CASE o = <<"refused">>
  BY <1>1 DEF Agree, Opened
<1>2. CASE o # <<"refused">>
  <2>1. /\ o \in Stacks /\ Len(o) = b + f
        /\ \A i \in 1 .. b : o[i] \in BlockStarts
        /\ \A i \in b + 1 .. b + f : o[i] \in FlowStarts
    BY <1>2 DEF Agree
  <2>. DEFINE top == IF o = <<>> THEN "none" ELSE Last(o)
  <2>2. b + f = 0 => o = <<>> /\ top \notin BlockStarts /\ top \notin FlowStarts
    BY <2>1 DEF BlockStarts, FlowStarts, Stacks
  <2>3. b + f # 0 => top = o[b + f]
    BY <2>1 DEF Last, Stacks
  <2>4. f = 0 /\ b > 0 => top \in BlockStarts
    BY <2>1, <2>3
  <2>5. f > 0 => top \in FlowStarts
    BY <2>1, <2>3
  <2>6. top \in FlowStarts <=> f > 0
    <3>1. BlockStarts \cap FlowStarts = {}
      BY DEF BlockStarts, FlowStarts
    <3>. QED
      BY <2>2, <2>4, <2>5, <3>1
  <2>. HIDE DEF top
  <2>7. DOMAIN FlowEnd = FlowStarts
    BY FlowKinds
  <2>8. Opened(o, kind) =
          CASE kind \in BlockStarts \cup FlowStarts -> Append(o, kind)
            [] kind = "BLOCK-END" -> IF top \in BlockStarts THEN Front(o) ELSE <<"broken">>
            [] kind \in FlowEnds ->
                 IF top \in FlowStarts /\ FlowEnd[top] = kind THEN Front(o) ELSE <<"refused">>
            [] kind \in Outer -> IF top \in FlowStarts THEN <<"refused">>
                                 ELSE IF o # <<>> THEN <<"broken">> ELSE o
            [] OTHER -> o
    BY <1>2, <2>7 DEF Opened, top, FlowEnds
  <2>9. /\ kind \in BlockStarts \cup FlowStarts =>
              kind \notin {"BLOCK-END"} \cup FlowEnds \cup Outer
        /\ kind = "BLOCK-END" => kind \notin BlockStarts \cup FlowStarts \cup FlowEnds \cup Outer
        /\ kind \in FlowEnds => kind \notin BlockStarts \cup FlowStarts \cup {"BLOCK-END"} \cup Outer
        /\ kind \in Outer => kind \notin BlockStarts \cup FlowStarts \cup {"BLOCK-END"} \cup FlowEnds
        /\ kind \in BlockStarts => kind \notin FlowStarts
    BY DEF BlockStarts, FlowStarts, FlowEnds, Outer
  <2>10. CASE kind \in BlockStarts \cup FlowStarts
    <3>. PICK s : s = Append(o, kind)
      OBVIOUS
    <3>1. Opened(o, kind) = s
      BY <2>8, <2>9, <2>10
    <3>2. /\ s \in Stacks /\ Len(s) = (b + f) + 1 /\ s[(b + f) + 1] = kind
          /\ \A i \in Nat : 1 <= i /\ i <= b + f => s[i] = o[i]
      <4>1. Push(o, kind, s)
        BY <2>1, Pushed
      <4>. QED
        BY <2>1, <4>1 DEF Push
    <3>3. CASE kind \in BlockStarts
      <4>1. f = 0 /\ NextBlocks(kind, b) = b + 1 /\ NextFlows(kind, f) = 0
        BY <2>9, <3>3 DEF Fits, NextBlocks, NextFlows
      <4>2. Len(s) = (b + 1) + 0
        BY <3>2, <4>1
      <4>3. ASSUME NEW i \in 1 .. b + 1 PROVE s[i] \in BlockStarts
        <5>1. CASE i = b + 1
          BY <3>2, <3>3, <4>1, <5>1
        <5>2. CASE i # b + 1
          <6>1. i \in 1 .. b /\ i \in Nat /\ 1 <= i /\ i <= b + f
            BY <5>2
          <6>. QED
            BY <2>1, <3>2, <6>1
        <5>. QED
          BY <5>1, <5>2
      <4>. QED
        BY <3>1, <3>2, <4>1, <4>2, <4>3 DEF Agree
    <3>4. CASE kind \in FlowStarts
      <4>1. NextBlocks(kind, b) = b /\ NextFlows(kind, f) = f + 1
        BY <2>9, <2>10, <3>4 DEF NextBlocks, NextFlows
      <4>2. Len(s) = b + (f + 1)
        BY <3>2
      <4>3. ASSUME NEW i \in 1 .. b PROVE s[i] \in BlockStarts
        <5>1. i \in Nat /\ 1 <= i /\ i <= b + f
          OBVIOUS
        <5>. QED
          BY <2>1, <3>2, <5>1
      <4>4. ASSUME NEW i \in b + 1 .. b + (f + 1) PROVE s[i] \in FlowStarts
        <5>1. CASE i = (b + f) + 1
          BY <3>2, <3>4, <5>1
        <5>2. CASE i # (b + f) + 1
          <6>1. i \in b + 1 .. b + f /\ i \in Nat /\ 1 <= i /\ i <= b + f
            BY <5>2
          <6>. QED
            BY <2>1, <3>2, <6>1
        <5>. QED
          BY <5>1, <5>2
      <4>. QED
        BY <3>1, <3>2, <4>1, <4>2, <4>3, <4>4 DEF Agree
    <3>. QED
      BY <2>10, <3>3, <3>4
  <2>11. CASE kind = "BLOCK-END"
    <3>1. f = 0 /\ b > 0
      BY <2>11 DEF Fits
    <3>. PICK n \in Nat : b = n + 1
      <4>1. b - 1 \in Nat /\ b = (b - 1) + 1
        BY <3>1
      <4>. QED
        BY <4>1
    <3>2. NextBlocks(kind, b) = n /\ NextFlows(kind, f) = 0
      BY <2>9, <2>11, <3>1 DEF NextBlocks, NextFlows
    <3>. PICK s : s = Front(o)
      OBVIOUS
    <3>3. Opened(o, kind) = s
      BY <2>4, <2>8, <2>9, <2>11, <3>1
    <3>4. /\ s \in Stacks /\ Len(s) = n
          /\ \A i \in Nat : 1 <= i /\ i <= n => s[i] = o[i]
      <4>1. Len(o) = n + 1
        BY <2>1, <3>1
      <4>2. Len(o) # 0
        BY <4>1
      <4>3. Pop(o, s)
        BY <2>1, <4>2, Popped
      <4>. QED
        BY <4>1, <4>3 DEF Pop
    <3>5. ASSUME NEW i \in 1 .. n PROVE s[i] \in BlockStarts
      BY <2>1, <3>4
    <3>. QED
      BY <3>2, <3>3, <3>4, <3>5 DEF Agree
  <2>12. CASE kind \in FlowEnds
    <3>1. NextBlocks(kind, b) = b
      BY <2>9, <2>12 DEF NextBlocks
    <3>2. CASE f > 0 /\ FlowEnd[top] = kind
      <4>. PICK n \in Nat : f = n + 1
        <5>1. f - 1 \in Nat /\ f = (f - 1) + 1
          BY <3>2
        <5>. QED
          BY <5>1
      <4>1. NextFlows(kind, f) = n
        BY <2>9, <2>12, <3>2 DEF NextFlows
      <4>. PICK s : s = Front(o)
        OBVIOUS
      <4>2. Opened(o, kind) = s
        BY <2>6, <2>8, <2>9, <2>12, <3>2
      <4>3. /\ s \in Stacks /\ Len(s) = b + n
            /\ \A i \in Nat : 1 <= i /\ i <= b + n => s[i] = o[i]
        <5>1. b + n \in Nat /\ Len(o) = (b + n) + 1
          BY <2>1
        <5>2. Len(o) # 0
          BY <5>1
        <5>3. Pop(o, s)
          BY <2>1, <5>2, Popped
        <5>. QED
          BY <5>1, <5>3 DEF Pop
      <4>4. ASSUME NEW i \in 1 .. b PROVE s[i] \in BlockStarts
        BY <2>1, <4>3
      <4>5. ASSUME NEW i \in b + 1 .. b + n PROVE s[i] \in FlowStarts
        BY <2>1, <4>3
      <4>. QED
        BY <3>1, <4>1, <4>2, <4>3, <4>4, <4>5 DEF Agree
    <3>3. CASE ~ (f > 0 /\ FlowEnd[top] = kind)
      <4>1. Opened(o, kind) = <<"refused">>
        BY <2>6, <2>8, <2>9, <2>12, <3>3
      <4>. QED
        BY <4>1 DEF Agree
    <3>. QED
      BY <3>2, <3>3
  <2>13. CASE kind \in Outer
    <3>1. NextBlocks(kind, b) = b /\ NextFlows(kind, f) = f
      BY <2>9, <2>13 DEF NextBlocks, NextFlows
    <3>2. CASE f > 0
      <4>1. Opened(o, kind) = <<"refused">>
        BY <2>6, <2>8, <2>9, <2>13, <3>2
      <4>. QED
        BY <4>1 DEF Agree
    <3>3. CASE ~ (f > 0)
      <4>1. b + f = 0
        BY <2>13, <3>3 DEF Fits
      <4>2. Opened(o, kind) = o
        BY <2>2, <2>6, <2>8, <2>9, <2>13, <3>3, <4>1
      <4>. QED
        BY <3>1, <4>2
    <3>. QED
      BY <3>2, <3>3
  <2>14. CASE kind \notin BlockStarts \cup FlowStarts \cup {"BLOCK-END"} \cup FlowEnds \cup Outer
    <3>1. NextBlocks(kind, b) = b /\ NextFlows(kind, f) = f
      BY <2>14 DEF NextBlocks, NextFlows
    <3>2. Opened(o, kind) = o
      BY <2>8, <2>14
    <3>. QED
      BY <3>1, <3>2
  <2>. QED
    BY <2>10, <2>11, <2>12, <2>13, <2>14
<1>. QED
  BY <1>1, <1>2

LEMMA TokenTaken ==
  ASSUME NEW ks, NEW q, NEW ins, NEW n, NEW o, Sound(ks, q, ins, n, o),
         \A i \in Nat : 1 <= i /\ i <= Len(ks) /\ ks[i].possible => ks[i].at # 0,
         NEW ls, AllNearer(ks, ls), NEW r, Typed(ls, r, ins), Len(q) = Len(r) + 1,
         \A i \in Nat : 1 <= i /\ i <= Len(r) => r[i] = q[i + 1]
  PROVE  Sound(ls, r, ins, n, Opened(o, q[1].kind))
<1>1. Typed(ks, q, ins) /\ n \in Nat /\ Placed(ks, q) /\ Grow(ins)
  BY DEF Sound
<1>2. PICK b \in Counters, f \in Counters :
        /\ Counts(q, b, f) /\ b[Len(q)] = Len(ins) - 1 /\ f[Len(q)] = n
        /\ Agree(o, b[0], f[0])
        /\ Rooted(ks, q, ins, b, f)
  BY DEF Sound
<1>3. KeysTyped(ks) /\ 1 <= Len(ks)
  BY <1>1, TypedParts
<1>. PICK len \in Nat : len = Len(r)
  BY TypedParts
<1>4. Len(q) = len + 1 /\ \A i \in Nat : 1 <= i /\ i <= len => r[i] = q[i + 1]
  OBVIOUS
<1>5. \A i \in Nat : b[i] \in Nat /\ f[i] \in Nat
  BY DEF Counters
<1>. DEFINE c == [i \in Nat |-> b[i + 1]]
            g == [i \in Nat |-> f[i + 1]]
<1>6. c \in Counters /\ g \in Counters
  <2>1. \A i \in Nat : b[i + 1] \in Nat /\ f[i + 1] \in Nat
    BY <1>5
  <2>. QED
    BY <2>1 DEF Counters
<1>7. \A i \in Nat : c[i] = b[i + 1] /\ g[i] = f[i + 1]
  OBVIOUS
<1>. HIDE DEF c, g
<1>8. ASSUME NEW i \in Nat, i < len + 1
      PROVE  /\ Fits(q[i + 1].kind, b[i], f[i])
             /\ b[i + 1] = NextBlocks(q[i + 1].kind, b[i])
             /\ f[i + 1] = NextFlows(q[i + 1].kind, f[i])
  BY <1>2, <1>4, <1>8 DEF Counts
<1>9. Counts(r, c, g)
  <2>1. ASSUME NEW i \in Nat, i < len
        PROVE  /\ Fits(r[i + 1].kind, c[i], g[i])
               /\ c[i + 1] = NextBlocks(r[i + 1].kind, c[i])
               /\ g[i + 1] = NextFlows(r[i + 1].kind, g[i])
    <3>. PICK k \in Nat : k = i + 1
      OBVIOUS
    <3>1. k < len + 1 /\ 1 <= k /\ k <= len
      BY <2>1
    <3>2. r[k] = q[k + 1] /\ c[i] = b[k] /\ g[i] = f[k] /\ c[k] = b[k + 1] /\ g[k] = f[k + 1]
      BY <1>4, <1>7, <3>1
    <3>3. /\ Fits(q[k + 1].kind, b[k], f[k])
          /\ b[k + 1] = NextBlocks(q[k + 1].kind, b[k])
          /\ f[k + 1] = NextFlows(q[k + 1].kind, f[k])
      BY <1>8, <3>1
    <3>. QED
      BY <3>2, <3>3
  <2>. QED
    BY <2>1 DEF Counts
<1>10. c[len] = Len(ins) - 1 /\ g[len] = n
  BY <1>2, <1>4, <1>7
<1>11. Agree(Opened(o, q[1].kind), c[0], g[0])
  <2>1. /\ Fits(q[1].kind, b[0], f[0])
        /\ b[1] = NextBlocks(q[1].kind, b[0]) /\ f[1] = NextFlows(q[1].kind, f[0])
    <3>1. 0 \in Nat /\ 0 < len + 1 /\ 0 + 1 = 1
      OBVIOUS
    <3>. QED
      BY <1>8, <3>1
  <2>2. q[1].kind \in Kinds
    <3>1. 1 \in 1 .. Len(q) /\ q \in Seq(Tokens)
      BY <1>1, <1>4 DEF Typed
    <3>2. q[1] \in Tokens
      BY <3>1, ElementOfSeq
    <3>. QED
      BY <3>2 DEF Tokens
  <2>3. b[0] \in Nat /\ f[0] \in Nat
    BY <1>5
  <2>4. Agree(o, b[0], f[0])
    BY <1>2
  <2>5. c[0] = b[1] /\ g[0] = f[1]
    <3>1. 0 \in Nat /\ 0 + 1 = 1
      OBVIOUS
    <3>. QED
      BY <1>7, <3>1
  <2>6. Agree(Opened(o, q[1].kind), NextBlocks(q[1].kind, b[0]), NextFlows(q[1].kind, f[0]))
    BY <2>1, <2>2, <2>3, <2>4, OpenedAgrees
  <2>. QED
    BY <2>1, <2>5, <2>6
<1>12. ASSUME NEW i \in Nat, 1 <= i, i <= Len(ls), ls[i].possible
       PROVE  /\ i <= Len(ks) /\ ks[i].possible
              /\ ks[i].at \in Nat /\ ks[i].at # 0 /\ ls[i].at = ks[i].at - 1
              /\ ls[i].column = ks[i].column /\ ls[i].here = ks[i].here
              /\ ls[i].at \in Nat /\ ls[i].at + 1 = ks[i].at
  <2>1. i <= Len(ks)
    BY <1>12 DEF AllNearer
  <2>2. /\ ks[i].possible /\ ls[i].at = ks[i].at - 1
        /\ ls[i].column = ks[i].column /\ ls[i].here = ks[i].here
    BY <1>12, <2>1 DEF AllNearer
  <2>3. ks[i].at \in Nat /\ ks[i].at # 0
    BY <1>3, <1>12, <2>1, <2>2 DEF KeysTyped
  <2>. QED
    BY <2>1, <2>2, <2>3
<1>13. Placed(ls, r)
  <2>1. ASSUME NEW i \in Nat, 1 <= i, i <= Len(ls), ls[i].possible
        PROVE  /\ ls[i].at < Len(r)
               /\ r[ls[i].at + 1].column = ls[i].column
               /\ r[ls[i].at + 1].kind \in Keyable
    <3>. PICK a \in Nat : a = ls[i].at
      BY <1>12, <2>1
    <3>1. i <= Len(ks) /\ ks[i].possible /\ ks[i].at = a + 1 /\ ls[i].column = ks[i].column
      BY <1>12, <2>1
    <3>2. a + 1 < len + 1 /\ q[(a + 1) + 1].column = ks[i].column /\ q[(a + 1) + 1].kind \in Keyable
      BY <1>1, <1>4, <2>1, <3>1 DEF Placed
    <3>3. a < len /\ a + 1 \in Nat /\ 1 <= a + 1 /\ a + 1 <= len
      BY <3>2
    <3>4. r[a + 1] = q[(a + 1) + 1]
      BY <1>4, <3>3
    <3>. QED
      BY <3>1, <3>2, <3>3, <3>4
  <2>2. ASSUME NEW i \in Nat, 1 <= i, i <= Len(ls), ls[i].possible,
               NEW j \in Nat, 1 <= j, j < i, ls[j].possible
        PROVE  ls[j].at < ls[i].at
    <3>1. j <= Len(ls)
      <4>1. Len(ls) \in Nat
        BY TypedParts DEF KeysTyped
      <4>. QED
        BY <2>2, <4>1
    <3>2. /\ ks[i].possible /\ i <= Len(ks) /\ ks[j].possible
          /\ ks[i].at \in Nat /\ ls[i].at = ks[i].at - 1
          /\ ks[j].at \in Nat /\ ls[j].at = ks[j].at - 1
      BY <1>12, <2>2, <3>1
    <3>3. ks[j].at < ks[i].at
      BY <1>1, <2>2, <3>2 DEF Placed
    <3>. QED
      BY <3>2, <3>3
  <2>. QED
    BY <2>1, <2>2 DEF Placed
<1>14. Rooted(ls, r, ins, c, g)
  <2>. SUFFICES ASSUME Live(ls[1])
                PROVE  /\ ins[Len(ins)] <= ls[1].column
                       /\ g[ls[1].at] = 0
                       /\ \A j \in Nat : ls[1].at <= j /\ j <= len => c[j] = Len(ins) - 1
                       /\ \A j \in Nat : ls[1].at < j /\ j <= len => Inner(r[j].kind)
    BY DEF Rooted
  <2>1. /\ ks[1].possible /\ ls[1].column = ks[1].column /\ ls[1].here = ks[1].here
        /\ ls[1].at \in Nat /\ ls[1].at + 1 = ks[1].at
    <3>1. 1 <= Len(ls) /\ ls[1].possible
      BY <1>3 DEF Live, AllNearer
    <3>. QED
      BY <1>12, <3>1
  <2>. PICK a \in Nat : a = ls[1].at
    BY <2>1
  <2>2. ks[1].at = a + 1 /\ Live(ks[1])
    BY <2>1 DEF Live
  <2>3. /\ ins[Len(ins)] <= ks[1].column
        /\ f[a + 1] = 0
        /\ \A j \in Nat : a + 1 <= j /\ j <= len + 1 => b[j] = Len(ins) - 1
        /\ \A j \in Nat : a + 1 < j /\ j <= len + 1 => Inner(q[j].kind)
    BY <1>2, <1>4, <2>2 DEF Rooted
  <2>4. g[a] = 0
    BY <1>7, <2>3
  <2>5. ASSUME NEW j \in Nat, a <= j, j <= len PROVE c[j] = Len(ins) - 1
    <3>1. j + 1 \in Nat /\ a + 1 <= j + 1 /\ j + 1 <= len + 1
      BY <2>5
    <3>. QED
      BY <1>7, <2>3, <3>1
  <2>6. ASSUME NEW j \in Nat, a < j, j <= len PROVE Inner(r[j].kind)
    <3>1. j + 1 \in Nat /\ a + 1 < j + 1 /\ j + 1 <= len + 1 /\ 1 <= j
      BY <2>6
    <3>2. r[j] = q[j + 1]
      BY <1>4, <2>6, <3>1
    <3>3. Inner(q[j + 1].kind)
      BY <2>3, <3>1
    <3>. QED
      BY <3>2, <3>3
  <2>. QED
    BY <2>1, <2>3, <2>4, <2>5, <2>6
<1>15. c[Len(r)] = Len(ins) - 1 /\ g[Len(r)] = n
  BY <1>10
<1>. QED
  BY <1>1, <1>6, <1>9, <1>11, <1>13, <1>14, <1>15 DEF Sound

----------------------------------------------------------------------------
(* What the parser has open after the queue                                 *)

Runs(st, q, o) ==
  /\ st[0] = o
  /\ \A k \in Nat : k < Len(q) => st[k + 1] = Opened(st[k], q[k + 1].kind)

LEMMA KindOf ==
  ASSUME NEW q \in Seq(Tokens), NEW k \in Nat, k < Len(q)
  PROVE  q[k + 1] \in Tokens /\ q[k + 1].kind \in Kinds
<1>1. k + 1 \in 1 .. Len(q)
  OBVIOUS
<1>2. q[k + 1] \in Tokens
  BY <1>1, ElementOfSeq
<1>3. q[k + 1].kind \in Kinds
  BY <1>2 DEF Tokens
<1>. QED
  BY <1>2, <1>3

LEMMA RunExists ==
  ASSUME NEW q \in Seq(Tokens), NEW o \in Stacks
  PROVE  \E st \in [Nat -> Stacks] : Runs(st, q, o)
<1>. DEFINE next == [k \in Nat |-> [v \in Stacks |->
                       IF k < Len(q) THEN Opened(v, q[k + 1].kind) ELSE v]]
<1>1. next \in [Nat -> [Stacks -> Stacks]]
  <2>1. ASSUME NEW k \in Nat, NEW v \in Stacks, k < Len(q)
        PROVE  Opened(v, q[k + 1].kind) \in Stacks
    BY <2>1, KindOf, OpenedStack
  <2>. QED
    BY <2>1
<1>2. \A k \in Nat, v \in Stacks : k < Len(q) => next[k][v] = Opened(v, q[k + 1].kind)
  OBVIOUS
<1>. HIDE DEF next
<1>3. PICK st \in [Nat -> Stacks] : Computes(st, o, next)
  BY <1>1, Recursion
<1>4. ASSUME NEW k \in Nat, k < Len(q) PROVE st[k + 1] = Opened(st[k], q[k + 1].kind)
  <2>1. st[k] \in Stacks
    OBVIOUS
  <2>. QED
    BY <1>2, <1>3, <1>4, <2>1 DEF Computes
<1>. QED
  BY <1>3, <1>4 DEF Runs, Computes

LEMMA RunAgrees ==
  ASSUME NEW q \in Seq(Tokens), NEW o, NEW st, Runs(st, q, o),
         NEW b \in Counters, NEW f \in Counters, Counts(q, b, f), Agree(o, b[0], f[0])
  PROVE  Agree(st[Len(q)], b[Len(q)], f[Len(q)])
<1>. PICK n \in Nat : n = Len(q)
  OBVIOUS
<1>. DEFINE S == {k \in Nat : k <= n => Agree(st[k], b[k], f[k])}
<1>1. 0 \in S
  BY DEF Runs
<1>2. ASSUME NEW k \in S PROVE k + 1 \in S
  <2>1. k \in Nat /\ k + 1 \in Nat
    OBVIOUS
  <2>2. ASSUME k + 1 <= n PROVE Agree(st[k + 1], b[k + 1], f[k + 1])
    <3>1. k < n /\ k <= n
      BY <2>1, <2>2
    <3>2. Agree(st[k], b[k], f[k])
      BY <3>1
    <3>3. q[k + 1].kind \in Kinds
      BY <2>1, <3>1, KindOf
    <3>4. /\ Fits(q[k + 1].kind, b[k], f[k])
          /\ b[k + 1] = NextBlocks(q[k + 1].kind, b[k])
          /\ f[k + 1] = NextFlows(q[k + 1].kind, f[k])
      BY <2>1, <3>1 DEF Counts
    <3>5. st[k + 1] = Opened(st[k], q[k + 1].kind)
      BY <2>1, <3>1 DEF Runs
    <3>6. b[k] \in Nat /\ f[k] \in Nat
      BY <2>1 DEF Counters
    <3>7. Agree(Opened(st[k], q[k + 1].kind), NextBlocks(q[k + 1].kind, b[k]),
                NextFlows(q[k + 1].kind, f[k]))
      BY <3>2, <3>3, <3>4, <3>6, OpenedAgrees
    <3>. QED
      BY <3>4, <3>5, <3>7
  <2>. QED
    BY <2>1, <2>2
<1>3. S = Nat
  <2>1. S \subseteq Nat
    OBVIOUS
  <2>. HIDE DEF S
  <2>. QED
    BY <1>1, <1>2, <2>1, Induction
<1>. QED
  BY <1>3

\* BlocksNest folds over the kinds.
OpenAfter(q, o) == FoldLeft(Opened, o, [i \in DOMAIN q |-> q[i].kind])

LEMMA FoldRuns ==
  ASSUME NEW q \in Seq(Tokens), NEW o \in Stacks, NEW st \in [Nat -> Stacks], Runs(st, q, o)
  PROVE  OpenAfter(q, o) = st[Len(q)]
<1>. PICK n \in Nat : n = Len(q)
  OBVIOUS
<1>1. DOMAIN q = 1 .. n
  OBVIOUS
<1>. DEFINE kinds == [i \in DOMAIN q |-> q[i].kind]
<1>2. DOMAIN kinds = 1 .. n /\ \A k \in 1 .. n : kinds[k] = q[k].kind /\ kinds[k] \in Kinds
  <2>1. \A k \in 1 .. n : q[k].kind \in Kinds
    <3>1. \A k \in 1 .. n : q[k] \in Tokens
      BY ElementOfSeq
    <3>. QED
      BY <3>1 DEF Tokens
  <2>. QED
    BY <1>1, <2>1
<1>. HIDE DEF kinds
<1>. DEFINE Turn(f, t) == IF t = {} THEN o ELSE Opened(f[t \ {Max(t)}], kinds[Max(t)])
            Folds(f) == f = [t \in SUBSET (1 .. n) |-> Turn(f, t)]
            it == CHOOSE f : Folds(f)
<1>3. OpenAfter(q, o) = it[1 .. n]
  BY <1>2 DEF OpenAfter, FoldLeft, MapThenFoldSet, kinds
<1>4. \E f : Folds(f)
  <2>. DEFINE op == [k \in 1 .. n |-> [w \in Stacks |-> Opened(w, kinds[k])]]
  <2>1. op \in [1 .. n -> [Stacks -> Stacks]]
    BY <1>2, OpenedStack
  <2>2. \A k \in 1 .. n, w \in Stacks : op[k][w] = Opened(w, kinds[k])
    OBVIOUS
  <2>. HIDE DEF op
  <2>3. PICK f \in [SUBSET (1 .. n) -> Stacks] : FoldsTo(f, n, o, op)
    BY <2>1, FoldExists
  <2>4. ASSUME NEW t \in SUBSET (1 .. n) PROVE f[t] = Turn(f, t)
    <3>1. CASE t = {}
      BY <2>3, <3>1 DEF FoldsTo
    <3>2. CASE t # {}
      <4>1. Max(t) \in 1 .. n
        <5>1. t \subseteq Nat /\ \A x \in t : x <= n
          OBVIOUS
        <5>2. Max(t) \in t
          BY <3>2, <5>1, HasGreatest
        <5>. QED
          BY <5>2
      <4>2. f[t \ {Max(t)}] \in Stacks
        OBVIOUS
      <4>3. op[Max(t)][f[t \ {Max(t)}]] = Opened(f[t \ {Max(t)}], kinds[Max(t)])
        BY <2>2, <4>1, <4>2
      <4>4. f[t] = op[Max(t)][f[t \ {Max(t)}]]
        BY <2>3, <3>2 DEF FoldsTo
      <4>. QED
        BY <3>2, <4>3, <4>4
    <3>. QED
      BY <3>1, <3>2
  <2>5. f = [t \in SUBSET (1 .. n) |-> f[t]]
    BY <2>3
  <2>. HIDE DEF Turn
  <2>6. Folds(f)
    BY <2>4, <2>5
  <2>. QED
    BY <2>6
<1>5. Folds(it)
  <2>. HIDE DEF Folds
  <2>. QED
    BY <1>4
<1>. HIDE DEF it
<1>6. \A t \in SUBSET (1 .. n) : it[t] = Turn(it, t)
  <2>. HIDE DEF Turn
  <2>. QED
    BY <1>5
<1>. HIDE DEF Folds
<1>. DEFINE S == {k \in Nat : k <= n => it[1 .. k] = st[k]}
<1>7. 0 \in S
  <2>1. 1 .. 0 = {} /\ {} \in SUBSET (1 .. n)
    OBVIOUS
  <2>2. it[{}] = o
    BY <1>6, <2>1
  <2>. QED
    BY <2>1, <2>2 DEF Runs
<1>8. ASSUME NEW k \in S PROVE k + 1 \in S
  <2>1. ASSUME k + 1 <= n PROVE it[1 .. k + 1] = st[k + 1]
    <3>1. k \in Nat /\ it[1 .. k] = st[k] /\ k < n /\ k + 1 \in 1 .. n /\ (k + 1) - 1 = k
      BY <2>1
    <3>2. /\ 1 .. k + 1 \in SUBSET (1 .. n) /\ 1 .. k + 1 # {} /\ Max(1 .. k + 1) = k + 1
          /\ (1 .. k + 1) \ {k + 1} = 1 .. k
      BY <3>1, Prefix
    <3>3. it[1 .. k + 1] = Turn(it, 1 .. k + 1)
      BY <1>6, <3>2
    <3>4. it[1 .. k + 1] = Opened(it[1 .. k], kinds[k + 1])
      BY <3>2, <3>3
    <3>5. st[k + 1] = Opened(st[k], q[k + 1].kind)
      BY <3>1 DEF Runs
    <3>. QED
      BY <1>2, <3>1, <3>4, <3>5
  <2>2. k + 1 \in Nat
    OBVIOUS
  <2>. HIDE DEF Turn
  <2>. QED
    BY <2>1, <2>2
<1>9. S = Nat
  <2>1. S \subseteq Nat
    OBVIOUS
  <2>. HIDE DEF S
  <2>. QED
    BY <1>7, <1>8, <2>1, Induction
<1>10. it[1 .. n] = st[n]
  <2>1. n \in S
    BY <1>9
  <2>. QED
    BY <2>1
<1>. QED
  BY <1>3, <1>10

\* As many block collections open as there are indentations, which grow.
Nested(after, ins) ==
  /\ Cardinality({i \in DOMAIN after : after[i] \in BlockStarts}) = Len(ins) - 1
  /\ "broken" \notin Range(after)
  /\ \A i \in 1 .. Len(ins) - 1 : ins[i] < ins[i + 1]

\* After the queue the parser has open what the indentations say, or refused.
LEMMA SoundNests ==
  ASSUME NEW ks, NEW q, NEW ins, NEW n, NEW o \in Stacks, Sound(ks, q, ins, n, o),
         NEW after, after = OpenAfter(q, o), after # <<"refused">>
  PROVE  Nested(after, ins)
<1>1. Typed(ks, q, ins) /\ n \in Nat /\ Grow(ins)
  BY DEF Sound
<1>2. PICK b \in Counters, f \in Counters :
        /\ Counts(q, b, f) /\ b[Len(q)] = Len(ins) - 1 /\ f[Len(q)] = n
        /\ Agree(o, b[0], f[0])
  BY DEF Sound
<1>3. q \in Seq(Tokens) /\ Len(ins) \in Nat /\ 1 <= Len(ins)
  BY <1>1, TypedParts DEF Typed
<1>4. PICK st \in [Nat -> Stacks] : Runs(st, q, o)
  BY <1>3, RunExists
<1>5. after = st[Len(q)]
  BY <1>3, <1>4, FoldRuns
<1>6. Agree(after, b[Len(q)], f[Len(q)])
  BY <1>2, <1>3, <1>4, <1>5, RunAgrees
<1>. PICK m \in Nat : m = Len(ins) - 1
  <2>1. Len(ins) - 1 \in Nat
    BY <1>3
  <2>. QED
    BY <2>1
<1>7. Agree(after, m, n)
  BY <1>2, <1>6
<1>8. /\ after \in Stacks /\ Len(after) = m + n
      /\ \A i \in 1 .. m : after[i] \in BlockStarts
      /\ \A i \in m + 1 .. m + n : after[i] \in FlowStarts
  BY <1>7 DEF Agree
<1>9. DOMAIN after = 1 .. m + n
  BY <1>8 DEF Stacks
<1>10. {i \in DOMAIN after : after[i] \in BlockStarts} = 1 .. m
  <2>1. BlockStarts \cap FlowStarts = {}
    BY DEF BlockStarts, FlowStarts
  <2>2. ASSUME NEW i \in 1 .. m + n PROVE after[i] \in BlockStarts <=> i \in 1 .. m
    <3>1. i \in 1 .. m \/ i \in m + 1 .. m + n
      BY <1>1
    <3>. QED
      BY <1>8, <2>1, <3>1
  <2>3. 1 .. m \subseteq 1 .. m + n
    BY <1>1
  <2>. QED
    BY <1>9, <2>2, <2>3
<1>11. Cardinality(1 .. m) = m
  BY FS_Interval
<1>12. "broken" \notin Range(after)
  <2>1. ASSUME NEW i \in 1 .. m + n PROVE after[i] # "broken"
    <3>1. i \in 1 .. m \/ i \in m + 1 .. m + n
      BY <1>1
    <3>2. "broken" \notin BlockStarts /\ "broken" \notin FlowStarts
      BY DEF BlockStarts, FlowStarts
    <3>. QED
      BY <1>8, <3>1, <3>2
  <2>. QED
    BY <1>9, <2>1 DEF Range
<1>13. ASSUME NEW i \in 1 .. m PROVE ins[i] < ins[i + 1]
  <2>1. i \in Nat /\ i + 1 \in Nat /\ 1 <= i /\ i < i + 1 /\ i + 1 <= Len(ins)
    BY <1>3
  <2>. QED
    BY <1>1, <2>1 DEF Grow
<1>. QED
  BY <1>10, <1>11, <1>12, <1>13 DEF Nested

----------------------------------------------------------------------------
(* The fields of the scanner                                                *)

Shape(s) == s = [column |-> s.column, allowed |-> s.allowed, indents |-> s.indents,
                 keys |-> s.keys, queue |-> s.queue, err |-> s.err]

LEMMA Errs ==
  ASSUME NEW s, Shape(s), NEW why, NEW t, t = Error(s, why)
  PROVE  /\ Shape(t) /\ t.err = why
         /\ t.column = s.column /\ t.allowed = s.allowed /\ t.indents = s.indents
         /\ t.keys = s.keys /\ t.queue = s.queue
BY DEF Shape, Error

LEMMA Moving ==
  ASSUME NEW s, Shape(s), NEW d, NEW t, t = Along(s, d)
  PROVE  /\ Shape(t) /\ t.column = s.column + d
         /\ t.allowed = s.allowed /\ t.err = s.err /\ t.indents = s.indents
         /\ t.keys = s.keys /\ t.queue = s.queue
BY DEF Shape, Along

LEMMA Appending ==
  ASSUME NEW s, Shape(s), s.err = "none", NEW kind, NEW t, t = Append1(s, kind)
  PROVE  /\ Shape(t) /\ t.queue = Append(s.queue, Token(kind, s.column))
         /\ t.allowed = s.allowed /\ t.err = s.err /\ t.indents = s.indents
         /\ t.keys = s.keys /\ t.column = s.column
BY DEF Shape, Append1

LEMMA KeySet ==
  ASSUME NEW s, Shape(s), NEW key, NEW t, t = WithKey(s, key)
  PROVE  /\ Shape(t) /\ t.keys = [s.keys EXCEPT ![Len(s.keys)] = key]
         /\ t.allowed = s.allowed /\ t.err = s.err /\ t.indents = s.indents
         /\ t.queue = s.queue /\ t.column = s.column
BY DEF Shape, WithKey

----------------------------------------------------------------------------
(* The keys                                                                 *)

\* No key that was not there.
Fewer(ks, ls) ==
  /\ ls \in Seq(Simple) /\ Len(ls) > 0
  /\ \A i \in Nat : 1 <= i /\ i <= Len(ls) /\ ls[i].possible =>
       /\ i <= Len(ks) /\ ks[i].possible
       /\ ls[i].at = ks[i].at /\ ls[i].column = ks[i].column
       /\ ls[i].here => ks[i].here

\* The text has gone on since the keys of this line.
Behind(ks, c) ==
  \A i \in Nat : 1 <= i /\ i <= Len(ks) /\ Live(ks[i]) => 0 <= ks[i].column /\ ks[i].column < c
Dead(ks) == \A i \in Nat : 1 <= i /\ i <= Len(ks) => ~ Live(ks[i])
Current(ks) == \A i \in Nat : 1 <= i /\ i <= Len(ks) /\ ks[i].possible => ks[i].here

LEMMA NoKeySimple == NoKey \in Simple /\ ~ NoKey.possible
BY DEF NoKey, Simple

LEMMA FewerBehind ==
  ASSUME NEW ks, NEW ls, Fewer(ks, ls)
  PROVE  /\ \A c : Behind(ks, c) => Behind(ls, c)
         /\ Dead(ks) => Dead(ls)
         /\ ~ Live(ks[1]) => ~ Live(ls[1])
<1>1. Len(ls) \in Nat /\ 1 <= Len(ls)
  BY DEF Fewer
<1>2. ASSUME NEW i \in Nat, 1 <= i, i <= Len(ls), Live(ls[i])
      PROVE  i <= Len(ks) /\ Live(ks[i]) /\ ls[i].column = ks[i].column
  BY <1>2 DEF Fewer, Live
<1>3. \A c : Behind(ks, c) => Behind(ls, c)
  BY <1>2 DEF Behind
<1>4. Dead(ks) => Dead(ls)
  BY <1>2 DEF Dead
<1>. QED
  BY <1>1, <1>2, <1>3, <1>4

LEMMA FewerTwice ==
  ASSUME NEW ks, NEW ls, NEW ms, Fewer(ks, ls), Fewer(ls, ms)
  PROVE  Fewer(ks, ms)
BY DEF Fewer

LEMMA FewerSound ==
  ASSUME NEW ks, NEW q, NEW ins, NEW n, NEW o, Sound(ks, q, ins, n, o), NEW ls, Fewer(ks, ls)
  PROVE  Sound(ls, q, ins, n, o)
<1>1. ls \in Seq(Simple) /\ Len(ls) > 0
  BY DEF Fewer
<1>2. \A i \in Nat : 1 <= i /\ i <= Len(ls) /\ ls[i].possible =>
           /\ i <= Len(ks) /\ ks[i].possible
           /\ ls[i].at = ks[i].at /\ ls[i].column = ks[i].column
           /\ ls[i].here => ks[i].here
  BY DEF Fewer
<1>. QED
  BY <1>1, <1>2, FewerKeys

\* The last key changes.
Last1(ks, ls, key) ==
  /\ ls \in Seq(Simple) /\ Len(ls) = Len(ks) /\ ls[Len(ks)] = key
  /\ \A i \in Nat : 1 <= i /\ i < Len(ks) => ls[i] = ks[i]

LEMMA LastSet ==
  ASSUME NEW ks \in Seq(Simple), Len(ks) > 0, NEW key \in Simple,
         NEW ls, ls = [ks EXCEPT ![Len(ks)] = key]
  PROVE  Last1(ks, ls, key)
<1>. PICK n \in Nat : n = Len(ks) /\ n > 0
  OBVIOUS
<1>1. ks \in [1 .. n -> Simple]
  OBVIOUS
<1>2. ls \in [1 .. n -> Simple] /\ ls[n] = key /\ \A i \in 1 .. n : i # n => ls[i] = ks[i]
  BY <1>1
<1>3. ls \in Seq(Simple) /\ Len(ls) = n
  BY <1>2
<1>. QED
  BY <1>2, <1>3 DEF Last1

LEMMA LastFewer ==
  ASSUME NEW ks \in Seq(Simple), Len(ks) > 0, NEW ls, Last1(ks, ls, NoKey)
  PROVE  Fewer(ks, ls) /\ Resolved(ks, ls)
<1>. PICK n \in Nat : n = Len(ks) /\ n > 0
  OBVIOUS
<1>1. /\ ls \in Seq(Simple) /\ Len(ls) = n /\ ls[n] = NoKey
      /\ \A i \in Nat : 1 <= i /\ i < n => ls[i] = ks[i]
  BY DEF Last1
<1>2. ASSUME NEW i \in Nat, 1 <= i, i <= n, ls[i].possible PROVE ls[i] = ks[i]
  <2>1. i # n
    BY <1>1, <1>2, NoKeySimple
  <2>. QED
    BY <1>1, <1>2, <2>1
<1>3. Fewer(ks, ls)
  BY <1>1, <1>2 DEF Fewer
<1>4. Resolved(ks, ls)
  BY <1>1, NoKeySimple DEF Resolved
<1>. QED
  BY <1>3, <1>4

\* Every key is itself, or NoKey, or its like on an earlier line.
LEMMA MapFewer ==
  ASSUME NEW ks \in Seq(Simple), Len(ks) > 0,
         NEW ls, DOMAIN ls = DOMAIN ks, ls = [i \in DOMAIN ls |-> ls[i]],
         \A i \in DOMAIN ks : ls[i] \in {ks[i], NoKey, [ks[i] EXCEPT !.here = FALSE]}
  PROVE  Fewer(ks, ls) /\ Len(ls) = Len(ks)
<1>. PICK n \in Nat : n = Len(ks) /\ n > 0
  OBVIOUS
<1>0. DOMAIN ks = 1 .. n
  OBVIOUS
<1>1. ASSUME NEW i \in 1 .. n
      PROVE  /\ ls[i] \in Simple
             /\ ls[i].possible =>
                  /\ ks[i].possible
                  /\ ls[i].at = ks[i].at /\ ls[i].column = ks[i].column
                  /\ ls[i].here => ks[i].here
  <2>1. ks[i] \in Simple
    BY ElementOfSeq
  <2>2. CASE ls[i] = ks[i]
    BY <2>1, <2>2
  <2>3. CASE ls[i] = NoKey
    BY <2>3, NoKeySimple
  <2>4. CASE ls[i] = [ks[i] EXCEPT !.here = FALSE]
    BY <2>1, <2>4 DEF Simple
  <2>. QED
    BY <1>0, <2>2, <2>3, <2>4
<1>2. ls \in Seq(Simple) /\ Len(ls) = n
  <2>1. ls \in [1 .. n -> Simple]
    BY <1>0, <1>1
  <2>. QED
    BY <2>1
<1>3. \A i \in Nat : 1 <= i /\ i <= n => i \in 1 .. n
  OBVIOUS
<1>4. \A i \in Nat : 1 <= i /\ i <= Len(ls) /\ ls[i].possible =>
           /\ i <= Len(ks) /\ ks[i].possible
           /\ ls[i].at = ks[i].at /\ ls[i].column = ks[i].column
           /\ ls[i].here => ks[i].here
  BY <1>1, <1>2, <1>3
<1>. QED
  BY <1>2, <1>4 DEF Fewer

----------------------------------------------------------------------------
(* The helpers of the fetchers                                              *)

Shaped(s) ==
  /\ Shape(s) /\ s.column \in Nat /\ s.allowed \in BOOLEAN
  /\ Typed(s.keys, s.queue, s.indents)

LEMMA Retyped ==
  ASSUME NEW ks, NEW q, NEW ins, Typed(ks, q, ins), NEW ls, Fewer(ks, ls)
  PROVE  Typed(ls, q, ins)
BY DEF Typed, Fewer

LEMMA Stales ==
  ASSUME NEW s, Shaped(s), NEW t, t = StaleKeys(s)
  PROVE  /\ Shaped(t) /\ t.column = s.column /\ t.allowed = s.allowed
         /\ t.indents = s.indents /\ t.queue = s.queue
         /\ t.err = "none" => /\ s.err = "none" /\ Fewer(s.keys, t.keys)
                              /\ Len(t.keys) = Len(s.keys) /\ Current(t.keys)
<1>. DEFINE Lost == \E k \in Range(s.keys) : Stale(s, k) /\ k.required
            ls == [i \in DOMAIN s.keys |-> IF Stale(s, s.keys[i]) THEN NoKey ELSE s.keys[i]]
<1>1. CASE Lost
  <2>0. PICK why : why = "key without a value"
    OBVIOUS
  <2>1. t = Error(s, why)
    BY <1>1, <2>0 DEF StaleKeys
  <2>2. Shape(s)
    BY DEF Shaped
  <2>3. /\ Shape(t) /\ t.err = why
        /\ t.column = s.column /\ t.allowed = s.allowed /\ t.indents = s.indents
        /\ t.keys = s.keys /\ t.queue = s.queue
    BY <2>1, <2>2, Errs
  <2>4. t.err # "none"
    BY <2>0, <2>3
  <2>. QED
    BY <2>3, <2>4 DEF Shaped
<1>2. CASE ~ Lost
  <2>1. t = [s EXCEPT !.keys = ls]
    BY <1>2 DEF StaleKeys
  <2>2. PICK ms : ms = ls
    OBVIOUS
  <2>3. /\ DOMAIN ms = DOMAIN s.keys /\ ms = [i \in DOMAIN ms |-> ms[i]]
        /\ \A i \in DOMAIN s.keys :
             /\ ms[i] \in {s.keys[i], NoKey, [s.keys[i] EXCEPT !.here = FALSE]}
             /\ ms[i] = NoKey \/ (ms[i] = s.keys[i] /\ ~ Stale(s, s.keys[i]))
    BY <2>2
  <2>4. s.keys \in Seq(Simple) /\ Len(s.keys) > 0
    BY DEF Shaped, Typed
  <2>5. Fewer(s.keys, ms) /\ Len(ms) = Len(s.keys)
    BY <2>3, <2>4, MapFewer
  <2>6. Shape(s)
    BY DEF Shaped
  <2>. HIDE DEF ls, Lost
  <2>7. /\ Shape(t) /\ t.keys = ms
        /\ t.column = s.column /\ t.allowed = s.allowed /\ t.indents = s.indents
        /\ t.queue = s.queue /\ t.err = s.err
    BY <2>1, <2>2, <2>6 DEF Shape
  <2>8. Current(ms)
    <3>1. ASSUME NEW i \in Nat, 1 <= i, i <= Len(ms), ms[i].possible PROVE ms[i].here
      <4>1. i \in DOMAIN s.keys
        BY <2>4, <2>5, <3>1
      <4>2. ms[i] = s.keys[i] /\ ~ Stale(s, s.keys[i])
        BY <2>3, <3>1, <4>1, NoKeySimple
      <4>. QED
        BY <3>1, <4>2 DEF Stale
    <3>. QED
      BY <3>1 DEF Current
  <2>9. Typed(ms, s.queue, s.indents)
    BY <2>5, Retyped DEF Shaped
  <2>. QED
    BY <2>5, <2>7, <2>8, <2>9 DEF Shaped
<1>. QED
  BY <1>1, <1>2

LEMMA Lines ==
  ASSUME NEW s, Shaped(s), NEW c \in Nat, NEW t, t = NewLine(s, c)
  PROVE  /\ Shaped(t) /\ t.column = c /\ t.allowed = s.allowed /\ t.err = s.err
         /\ t.indents = s.indents /\ t.queue = s.queue
         /\ Fewer(s.keys, t.keys) /\ Len(t.keys) = Len(s.keys) /\ Dead(t.keys)
<1>. DEFINE ls == [i \in DOMAIN s.keys |-> [s.keys[i] EXCEPT !.here = FALSE]]
<1>1. PICK ms : ms = ls
  OBVIOUS
<1>2. t = [s EXCEPT !.column = c, !.keys = ms]
  BY <1>1 DEF NewLine
<1>3. /\ DOMAIN ms = DOMAIN s.keys /\ ms = [i \in DOMAIN ms |-> ms[i]]
      /\ \A i \in DOMAIN s.keys :
             /\ ms[i] = [s.keys[i] EXCEPT !.here = FALSE]
             /\ ms[i] \in {s.keys[i], NoKey, [s.keys[i] EXCEPT !.here = FALSE]}
  BY <1>1
<1>. HIDE DEF ls
<1>4. s.keys \in Seq(Simple) /\ Len(s.keys) > 0 /\ Shape(s)
  BY DEF Shaped, Typed
<1>5. Fewer(s.keys, ms) /\ Len(ms) = Len(s.keys)
  BY <1>3, <1>4, MapFewer
<1>6. /\ Shape(t) /\ t.keys = ms
      /\ t.column = c /\ t.allowed = s.allowed /\ t.indents = s.indents
      /\ t.queue = s.queue /\ t.err = s.err
  BY <1>2, <1>4 DEF Shape
<1>7. Dead(ms)
  <2>1. ASSUME NEW i \in Nat, 1 <= i, i <= Len(ms) PROVE ~ Live(ms[i])
    <3>1. i \in DOMAIN s.keys /\ s.keys[i] \in Simple
      BY <1>4, <1>5, <2>1, ElementOfSeq
    <3>2. ms[i].here = FALSE
      BY <1>3, <3>1 DEF Simple
    <3>. QED
      BY <3>2 DEF Live
  <2>. QED
    BY <2>1 DEF Dead
<1>8. Typed(ms, s.queue, s.indents)
  BY <1>5, Retyped DEF Shaped
<1>. QED
  BY <1>5, <1>6, <1>7, <1>8 DEF Shaped

LEMMA KeysRemoved ==
  ASSUME NEW s, Shaped(s), NEW t, t = RemoveKey(s)
  PROVE  /\ Shaped(t) /\ t.column = s.column /\ t.allowed = s.allowed
         /\ t.indents = s.indents /\ t.queue = s.queue /\ Len(t.keys) = Len(s.keys)
         /\ t.err = "none" => /\ s.err = "none" /\ Fewer(s.keys, t.keys)
                              /\ Last1(s.keys, t.keys, NoKey)
<1>0. Shape(s) /\ s.keys \in Seq(Simple) /\ Len(s.keys) > 0
  BY DEF Shaped, Typed
<1>1. CASE s.err # "none"
  <2>1. t = s
    BY <1>1 DEF RemoveKey
  <2>. QED
    BY <1>1, <2>1
<1>2. CASE s.err = "none" /\ Key(s).possible /\ Key(s).required
  <2>0. PICK why : why = "key without a value"
    OBVIOUS
  <2>1. t = Error(s, why)
    BY <1>2, <2>0 DEF RemoveKey
  <2>3. /\ Shape(t) /\ t.err = why
        /\ t.column = s.column /\ t.allowed = s.allowed /\ t.indents = s.indents
        /\ t.keys = s.keys /\ t.queue = s.queue
    BY <1>0, <2>1, Errs
  <2>4. t.err # "none"
    BY <2>0, <2>3
  <2>. QED
    BY <2>3, <2>4 DEF Shaped
<1>3. CASE s.err = "none" /\ ~ (Key(s).possible /\ Key(s).required)
  <2>1. t = WithKey(s, NoKey)
    BY <1>3 DEF RemoveKey
  <2>2. /\ Shape(t) /\ t.keys = [s.keys EXCEPT ![Len(s.keys)] = NoKey]
        /\ t.allowed = s.allowed /\ t.err = s.err /\ t.indents = s.indents
        /\ t.queue = s.queue /\ t.column = s.column
    BY <1>0, <2>1, KeySet
  <2>3. Last1(s.keys, t.keys, NoKey)
    BY <1>0, <2>2, NoKeySimple, LastSet
  <2>4. Fewer(s.keys, t.keys)
    BY <1>0, <2>3, LastFewer
  <2>5. Typed(t.keys, s.queue, s.indents)
    BY <2>4, Retyped DEF Shaped
  <2>. QED
    BY <1>3, <2>2, <2>3, <2>4, <2>5 DEF Shaped, Last1
<1>. QED
  BY <1>1, <1>2, <1>3

\* What After leaves to the fetchers, of a text that has no error so far.
Ready(s, o) ==
  s.err = "none" =>
    /\ Sound(s.keys, s.queue, s.indents, Len(s.keys) - 1, o)
    /\ Behind(s.keys, s.column) /\ Current(s.keys)
    /\ Len(s.keys) = 1 => s.indents[Len(s.indents)] <= s.column

LEMMA Depth ==
  ASSUME NEW s, Shaped(s)
  PROVE  /\ Len(s.keys) \in Nat /\ 1 <= Len(s.keys) /\ Len(s.keys) - 1 \in Nat
         /\ Len(s.queue) \in Nat /\ Len(s.indents) \in Nat /\ 1 <= Len(s.indents)
         /\ Block(s) <=> Len(s.keys) = 1
<1>1. /\ Len(s.keys) \in Nat /\ 1 <= Len(s.keys)
      /\ Len(s.queue) \in Nat /\ Len(s.indents) \in Nat /\ 1 <= Len(s.indents)
  BY TypedParts DEF Shaped, KeysTyped
<1>. QED
  BY <1>1 DEF Block, Flow

LEMMA KeysSaved ==
  ASSUME NEW s, Shaped(s), NEW o, Ready(s, o), NEW t, t = SaveKey(s), NEW kind \in Keyable
  PROVE  /\ Shaped(t) /\ t.column = s.column
         /\ t.indents = s.indents /\ t.queue = s.queue /\ Len(t.keys) = Len(s.keys)
         /\ t.err = "none" =>
              /\ s.err = "none"
              /\ Sound(t.keys, Append(s.queue, Token(kind, s.column)), s.indents,
                       NextFlows(kind, Len(s.keys) - 1), o)
              /\ Behind(t.keys, s.column + 1)
<1>. DEFINE required == Block(s) /\ Indent(s) = s.column
            key == [possible |-> TRUE, required |-> required, at |-> Len(s.queue),
                    column |-> s.column, here |-> TRUE]
<1>0. Shape(s) /\ s.keys \in Seq(Simple) /\ Len(s.keys) > 0 /\ s.column \in Nat
  BY DEF Shaped, Typed
<1>1. CASE s.err # "none"
  <2>1. t = s
    BY <1>1 DEF SaveKey
  <2>. QED
    BY <1>1, <2>1
<1>2. CASE s.err = "none" /\ required /\ ~ s.allowed
  <2>0. PICK why : why = "panic"
    OBVIOUS
  <2>1. t = Error(s, why)
    BY <1>2, <2>0 DEF SaveKey
  <2>3. /\ Shape(t) /\ t.err = why
        /\ t.column = s.column /\ t.allowed = s.allowed /\ t.indents = s.indents
        /\ t.keys = s.keys /\ t.queue = s.queue
    BY <1>0, <2>1, Errs
  <2>4. t.err # "none"
    BY <2>0, <2>3
  <2>. QED
    BY <2>3, <2>4 DEF Shaped
<1>. DEFINE tok == Token(kind, s.column)
<1>3. ASSUME s.err = "none"
      PROVE  /\ Sound(s.keys, s.queue, s.indents, Len(s.keys) - 1, o)
             /\ Behind(s.keys, s.column)
             /\ Len(s.keys) = 1 => s.indents[Len(s.indents)] <= s.column
  BY <1>3 DEF Ready
<1>4. tok \in Tokens /\ tok.kind = kind /\ tok.column = s.column
  <2>1. kind \in Kinds /\ s.column \in Int
    BY <1>0 DEF Keyable, Kinds
  <2>. QED
    BY <2>1, TokenParts
<1>5. CASE s.err = "none" /\ ~ required /\ ~ s.allowed
  <2>1. t = s
    BY <1>5 DEF SaveKey
  <2>2. Inner(tok.kind)
    BY <1>4, KeyableKinds
  <2>. HIDE DEF tok
  <2>3. Sound(s.keys, Append(s.queue, tok), s.indents, NextFlows(kind, Len(s.keys) - 1), o)
    BY <1>3, <1>4, <1>5, <2>2, InnerToken
  <2>4. Behind(s.keys, s.column + 1)
    <3>1. Behind(s.keys, s.column)
      BY <1>3, <1>5
    <3>2. \A i \in Nat : 1 <= i /\ i <= Len(s.keys) => s.keys[i].column \in Int
      BY TypedParts DEF Shaped, KeysTyped
    <3>. QED
      BY <1>0, <3>1, <3>2 DEF Behind
  <2>. QED
    BY <1>5, <2>1, <2>3, <2>4 DEF tok
<1>6. CASE s.err = "none" /\ s.allowed
  <2>. DEFINE r == RemoveKey(s)
  <2>1. t = IF r.err # "none" THEN r ELSE WithKey(r, key)
    BY <1>6 DEF SaveKey
  <2>2. /\ Shaped(r) /\ r.column = s.column /\ r.allowed = s.allowed
        /\ r.indents = s.indents /\ r.queue = s.queue /\ Len(r.keys) = Len(s.keys)
        /\ r.err = "none" => Fewer(s.keys, r.keys) /\ Last1(s.keys, r.keys, NoKey)
    BY KeysRemoved
  <2>3. key \in Simple /\ key.at = Len(s.queue) /\ key.column = s.column
    BY <1>0, Depth DEF Simple
  <2>. HIDE DEF key, required, r
  <2>4. CASE r.err # "none"
    BY <2>1, <2>2, <2>4
  <2>5. CASE r.err = "none"
    <3>1. t = WithKey(r, key)
      BY <2>1, <2>5
    <3>2. Shape(r) /\ r.keys \in Seq(Simple) /\ Len(r.keys) > 0
      BY <2>2 DEF Shaped, Typed
    <3>3. /\ Shape(t) /\ t.keys = [r.keys EXCEPT ![Len(r.keys)] = key]
          /\ t.allowed = r.allowed /\ t.err = r.err /\ t.indents = r.indents
          /\ t.queue = r.queue /\ t.column = r.column
      BY <3>1, <3>2, KeySet
    <3>4. Last1(r.keys, t.keys, key)
      BY <2>3, <3>2, <3>3, LastSet
    <3>5. Last1(s.keys, t.keys, key)
      BY <2>2, <2>5, <3>4 DEF Last1
    <3>6. /\ t.keys \in Seq(Simple) /\ Len(t.keys) = Len(s.keys)
          /\ t.keys[Len(s.keys)] = key
          /\ \A i \in Nat : 1 <= i /\ i < Len(s.keys) => t.keys[i] = s.keys[i]
      BY <3>5 DEF Last1
    <3>7. Sound(t.keys, Append(s.queue, tok), s.indents, NextFlows(tok.kind, Len(s.keys) - 1), o)
      <4>1. /\ Sound(s.keys, s.queue, s.indents, Len(s.keys) - 1, o)
            /\ Len(s.keys) - 1 = 0 => s.indents[Len(s.indents)] <= key.column
        BY <1>3, <1>6, <2>3, Depth
      <4>2. key.column = tok.column /\ tok.kind \in Keyable
        BY <1>4, <2>3
      <4>. HIDE DEF tok
      <4>. QED
        BY <1>4, <2>3, <3>6, <4>1, <4>2, KeyToken
    <3>8. Behind(t.keys, s.column + 1)
      <4>1. Behind(s.keys, s.column)
        BY <1>3, <1>6
      <4>2. \A i \in Nat : 1 <= i /\ i <= Len(s.keys) => s.keys[i].column \in Int
        BY TypedParts DEF Shaped, KeysTyped
      <4>3. ASSUME NEW i \in Nat, 1 <= i, i <= Len(t.keys), Live(t.keys[i])
            PROVE  0 <= t.keys[i].column /\ t.keys[i].column < s.column + 1
        <5>1. CASE i = Len(s.keys)
          BY <1>0, <2>3, <3>6, <5>1
        <5>2. CASE i # Len(s.keys)
          <6>1. i < Len(s.keys)
            BY <3>6, <4>3, <5>2, Depth
          <6>2. t.keys[i] = s.keys[i]
            BY <3>6, <4>3, <6>1
          <6>. QED
            BY <1>0, <4>1, <4>2, <4>3, <6>1, <6>2 DEF Behind
        <5>. QED
          BY <5>1, <5>2
      <4>. QED
        BY <4>3 DEF Behind
    <3>9. Typed(t.keys, s.queue, s.indents)
      BY <3>6, Depth DEF Shaped, Typed
    <3>. QED
      BY <1>4, <1>6, <2>2, <3>3, <3>6, <3>7, <3>8, <3>9 DEF Shaped
  <2>. QED
    BY <2>4, <2>5
<1>. QED
  BY <1>1, <1>2, <1>5, <1>6 DEF Shaped

LEMMA SoundParts ==
  ASSUME NEW ks, NEW q, NEW ins, NEW n, NEW o, Sound(ks, q, ins, n, o)
  PROVE  /\ Typed(ks, q, ins) /\ n \in Nat /\ Placed(ks, q) /\ Grow(ins)
         /\ Live(ks[1]) => ins[Len(ins)] <= ks[1].column
BY DEF Sound, Rooted

LEMMA SameSeq ==
  ASSUME NEW S, NEW s \in Seq(S), NEW t \in Seq(S), Len(s) = Len(t),
         \A i \in Nat : 1 <= i /\ i <= Len(s) => s[i] = t[i]
  PROVE  s = t
BY SeqEqual

\* What UnrollIndent computes: how many indentations stay, the queue, the stack.
Deepest(ins, c, n) ==
  LET kept == {i \in DOMAIN ins : ins[i] <= c}
  IN n = CHOOSE i \in kept : \A j \in kept : j <= i

LEMMA UnrolledData ==
  ASSUME NEW ks, NEW q, NEW ins, NEW o, Sound(ks, q, ins, 0, o), NEW c \in Int, -1 <= c,
         Live(ks[1]) => ks[1].column <= c, NEW e \in Tokens, e.kind = "BLOCK-END",
         NEW n, Deepest(ins, c, n), NEW r, Extended(q, Len(ins) - n, e, r), NEW js, js = SubSeq(ins, 1, n)
  PROVE  Sound(ks, r, js, 0, o) /\ js[Len(js)] <= c
<1>1. /\ Typed(ks, q, ins) /\ Grow(ins)
      /\ Live(ks[1]) => ins[Len(ins)] <= ks[1].column
  BY SoundParts
<1>2. KeysTyped(ks) /\ 1 <= Len(ks) /\ Len(q) \in Nat
  BY <1>1, TypedParts
<1>. PICK len \in Nat : len = Len(ins) /\ 1 <= len
  BY <1>1, TypedParts
<1>3. ins \in Seq(Int) /\ DOMAIN ins = 1 .. len /\ \A i \in 1 .. len : ins[i] \in Int
  <2>1. ins \in Seq(Int)
    BY <1>1 DEF Typed
  <2>. QED
    BY <2>1, ElementOfSeq
<1>. DEFINE kept == {i \in DOMAIN ins : ins[i] <= c}
<1>4. 1 \in kept /\ kept \subseteq Nat /\ \A i \in kept : i <= len
  <2>1. ins[1] <= c
    BY <1>1 DEF Grow
  <2>2. 1 \in 1 .. len
    OBVIOUS
  <2>. QED
    BY <1>3, <2>1, <2>2
<1>5. n \in kept /\ \A j \in kept : j <= n
  <2>0. n = CHOOSE i \in kept : \A j \in kept : j <= i
    BY DEF Deepest
  <2>. HIDE DEF kept
  <2>1. Max(kept) \in kept /\ \A x \in kept : x <= Max(kept)
    BY <1>4, HasGreatest
  <2>. QED
    BY <2>0, <2>1
<1>6. n \in Nat /\ 1 <= n /\ n <= len /\ ins[n] <= c
  BY <1>3, <1>4, <1>5
<1>7. ASSUME Live(ks[1]) PROVE n = len
  <2>1. ks[1].column \in Int
    BY <1>2 DEF KeysTyped
  <2>2. len \in 1 .. len /\ ins[len] \in Int
    BY <1>3
  <2>3. ins[len] <= c
    BY <1>1, <1>7, <2>1, <2>2
  <2>4. len \in kept
    BY <1>3, <2>2, <2>3
  <2>. QED
    BY <1>5, <1>6, <2>4
<1>. PICK k \in Nat : k = len - n
  <2>1. len - n \in Nat
    BY <1>6
  <2>. QED
    BY <2>1
<1>8. q \in Seq(Tokens)
  BY <1>1 DEF Typed
<1>. HIDE DEF kept
<1>9. Extended(q, k, e, r)
  OBVIOUS
<1>10. /\ r \in Seq(Tokens) /\ Len(r) = Len(q) + k
       /\ \A i \in Nat : 1 <= i /\ i <= Len(q) => r[i] = q[i]
       /\ \A i \in Nat : Len(q) < i /\ i <= Len(r) => r[i] = e
  BY <1>8, <1>9, Repeated
<1>11. js \in Seq(Int) /\ Len(js) = n /\ \A i \in Nat : 1 <= i /\ i <= n => js[i] = ins[i]
  <2>1. \A i \in 1 .. n : ins[i] \in Int
    BY <1>3, <1>6
  <2>. QED
    BY <1>6, <2>1, SubSeqProperties
<1>12. CASE n = len
  <2>1. js = ins
    BY <1>3, <1>11, <1>12, SameSeq
  <2>2. Len(r) = Len(q)
    BY <1>2, <1>10, <1>12
  <2>3. r = q
    BY <1>8, <1>10, <2>2, SameSeq
  <2>. QED
    BY <1>6, <1>11, <2>1, <2>3
<1>13. CASE n # len
  <2>1. ~ Live(ks[1])
    BY <1>7, <1>13
  <2>2. EndedBy(q, r, Len(ins) - n)
    BY <1>10 DEF EndedBy
  <2>3. Cut(ins, n, js) /\ n <= Len(ins)
    BY <1>6, <1>11 DEF Cut
  <2>4. Sound(ks, r, js, 0, o)
    BY <1>6, <2>1, <2>2, <2>3, EndTokens
  <2>. QED
    BY <1>6, <1>11, <2>4
<1>. QED
  BY <1>12, <1>13

LEMMA Unrolled ==
  ASSUME NEW s, Shaped(s), NEW c \in Int, -1 <= c, NEW o,
         s.err = "none" =>
           /\ Sound(s.keys, s.queue, s.indents, Len(s.keys) - 1, o)
           /\ Live(s.keys[1]) => s.keys[1].column <= c,
         NEW t, t = UnrollIndent(s, c)
  PROVE  /\ Shaped(t) /\ t.column = s.column /\ t.allowed = s.allowed
         /\ t.err = s.err /\ t.keys = s.keys
         /\ s.err = "none" =>
              /\ Sound(t.keys, t.queue, t.indents, Len(s.keys) - 1, o)
              /\ Len(s.keys) = 1 => t.indents[Len(t.indents)] <= c
<1>1. CASE s.err # "none" \/ ~ Block(s)
  <2>1. t = s
    BY <1>1 DEF UnrollIndent
  <2>. QED
    BY <1>1, <2>1, Depth
<1>2. CASE s.err = "none" /\ Block(s)
  <2>. PICK n : Deepest(s.indents, c, n)
    BY DEF Deepest
  <2>. PICK e \in Tokens : e = Token("BLOCK-END", s.column) /\ e.kind = "BLOCK-END"
    <3>0. PICK kind \in Kinds : kind = "BLOCK-END"
      BY DEF Kinds
    <3>1. Token(kind, s.column) \in Tokens /\ Token(kind, s.column).kind = kind
      BY TokenParts DEF Shaped
    <3>. QED
      BY <3>0, <3>1
  <2>. PICK r : Extended(s.queue, Len(s.indents) - n, e, r)
    BY DEF Extended
  <2>. PICK js : js = SubSeq(s.indents, 1, n)
    OBVIOUS
  <2>1. t = [s EXCEPT !.indents = js, !.queue = r]
    BY <1>2 DEF UnrollIndent, Deepest, Extended
  <2>2. /\ Sound(s.keys, s.queue, s.indents, 0, o) /\ Len(s.keys) = 1 /\ Len(s.keys) - 1 = 0
        /\ Live(s.keys[1]) => s.keys[1].column <= c
    <3>1. Len(s.keys) = 1 /\ Len(s.keys) - 1 = 0
      BY <1>2, Depth
    <3>. QED
      BY <1>2, <3>1
  <2>3. Sound(s.keys, r, js, 0, o) /\ js[Len(js)] <= c
    BY <2>2, UnrolledData, ZenonT(60)
  <2>4. /\ Shape(t) /\ t.indents = js /\ t.queue = r
        /\ t.column = s.column /\ t.allowed = s.allowed /\ t.err = s.err /\ t.keys = s.keys
    <3>1. Shape(s)
      BY DEF Shaped
    <3>. QED
      BY <2>1, <3>1 DEF Shape
  <2>5. Typed(s.keys, r, js)
    BY <2>3, SoundParts
  <2>6. Shaped(t)
    BY <2>4, <2>5 DEF Shaped
  <2>. QED
    BY <2>2, <2>3, <2>4, <2>6
<1>. QED
  BY <1>1, <1>2

LEMMA AtEnd ==
  ASSUME NEW S, NEW s \in Seq(S), NEW e \in S
  PROVE  InsertAt(s, Len(s) + 1, e) = Append(s, e)
<1>. PICK p \in Nat : p = Len(s)
  OBVIOUS
<1>. PICK t : Inserts(s, p, e, t)
  BY DEF Inserts
<1>. PICK u : u = Append(s, e)
  OBVIOUS
<1>1. Len(s) \in Nat /\ p <= Len(s)
  OBVIOUS
<1>2. /\ t \in Seq(S) /\ Len(t) = Len(s) + 1 /\ t[Len(s) + 1] = e
      /\ \A i \in Nat : 1 <= i /\ i <= Len(s) => t[i] = s[i]
  <2>1. /\ t \in Seq(S) /\ Len(t) = Len(s) + 1 /\ t[p + 1] = e
        /\ \A i \in Nat : 1 <= i /\ i <= p => t[i] = s[i]
    BY <1>1, Inserted
  <2>. QED
    BY <2>1
<1>3. /\ u \in Seq(S) /\ Len(u) = Len(s) + 1 /\ u[Len(s) + 1] = e
      /\ \A i \in Nat : 1 <= i /\ i <= Len(s) => u[i] = s[i]
  BY Appended
<1>4. \A i \in Nat : 1 <= i /\ i <= Len(t) => t[i] = u[i]
  <2>1. \A i \in Nat : 1 <= i /\ i <= Len(t) => i = Len(s) + 1 \/ i <= Len(s)
    BY <1>1, <1>2
  <2>. QED
    BY <1>2, <1>3, <2>1
<1>5. t = u
  BY <1>2, <1>3, <1>4, SameSeq
<1>. QED
  BY <1>5 DEF Inserts

\* Whether a block collection begins at the end of the queue.
LEMMA RolledFields ==
  ASSUME NEW s, Shaped(s), NEW kind \in BlockStarts,
         NEW t, t = RollIndent(s, s.column, Len(s.queue), kind)
  PROVE  /\ Shaped(t) /\ t.column = s.column /\ t.allowed = s.allowed
         /\ t.err = s.err /\ t.keys = s.keys
         /\ \/ t = s
            \/ /\ Len(s.keys) = 1 /\ s.indents[Len(s.indents)] < s.column
               /\ t.queue = Append(s.queue, Token(kind, s.column))
               /\ t.indents = Append(s.indents, s.column)
<1>0. /\ Shape(s) /\ s.column \in Int /\ Typed(s.keys, s.queue, s.indents)
      /\ s.queue \in Seq(Tokens) /\ s.indents \in Seq(Int)
  BY DEF Shaped, Typed
<1>1. CASE s.err # "none" \/ ~ Block(s) \/ Indent(s) >= s.column
  <2>1. t = s
    BY <1>1 DEF RollIndent
  <2>. QED
    BY <2>1
<1>2. CASE ~ (s.err # "none" \/ ~ Block(s) \/ Indent(s) >= s.column)
  <2>1. Token(kind, s.column) \in Tokens
    <3>1. kind \in Kinds
      BY DEF Kinds
    <3>. QED
      BY <1>0, <3>1, TokenParts
  <2>. PICK r : r = Append(s.queue, Token(kind, s.column))
    OBVIOUS
  <2>. PICK js : js = Append(s.indents, s.column)
    OBVIOUS
  <2>2. InsertAt(s.queue, Len(s.queue) + 1, Token(kind, s.column)) = r
    BY <1>0, <2>1, AtEnd
  <2>3. t = [s EXCEPT !.indents = js, !.queue = r]
    BY <1>2, <2>2 DEF RollIndent
  <2>4. /\ Shape(t) /\ t.indents = js /\ t.queue = r
        /\ t.column = s.column /\ t.allowed = s.allowed /\ t.err = s.err /\ t.keys = s.keys
    BY <1>0, <2>3 DEF Shape
  <2>5. Len(s.keys) = 1
    BY <1>2, Depth
  <2>6. s.indents[Len(s.indents)] < s.column
    <3>1. s.indents[Len(s.indents)] \in Int
      <4>1. Len(s.indents) \in 1 .. Len(s.indents)
        BY Depth
      <4>. QED
        BY <1>0, <4>1, ElementOfSeq
    <3>2. Indent(s) = s.indents[Len(s.indents)]
      BY DEF Indent, Last
    <3>. QED
      BY <1>0, <1>2, <3>1, <3>2
  <2>7. r \in Seq(Tokens) /\ js \in Seq(Int) /\ Len(js) = Len(s.indents) + 1
    BY <1>0, <2>1, Appended
  <2>8. Typed(s.keys, r, js)
    BY <1>0, <2>7, Depth DEF Typed
  <2>9. Shaped(t)
    BY <2>4, <2>8 DEF Shaped
  <2>. QED
    BY <2>4, <2>5, <2>6, <2>9
<1>. QED
  BY <1>1, <1>2

LEMMA Rolled ==
  ASSUME NEW s, Shaped(s), NEW o, Sound(s.keys, s.queue, s.indents, Len(s.keys) - 1, o),
         NEW kind \in BlockStarts,
         NEW t, t = RollIndent(s, s.column, Len(s.queue), kind),
         NEW ls, Fewer(s.keys, ls), Len(ls) = Len(s.keys), ~ ls[Len(ls)].possible
  PROVE  Sound(ls, t.queue, t.indents, Len(ls) - 1, o)
<1>1. Sound(ls, s.queue, s.indents, Len(s.keys) - 1, o)
  BY FewerSound
<1>2. \/ t = s
      \/ /\ Len(s.keys) = 1 /\ s.indents[Len(s.indents)] < s.column
         /\ t.queue = Append(s.queue, Token(kind, s.column))
         /\ t.indents = Append(s.indents, s.column)
  BY RolledFields
<1>3. CASE t = s
  BY <1>1, <1>3
<1>4. CASE /\ Len(s.keys) = 1 /\ s.indents[Len(s.indents)] < s.column
           /\ t.queue = Append(s.queue, Token(kind, s.column))
           /\ t.indents = Append(s.indents, s.column)
  <2>1. Sound(ls, s.queue, s.indents, 0, o) /\ ~ Live(ls[1]) /\ Len(ls) - 1 = 0
    <3>1. Len(s.keys) - 1 = 0 /\ Len(ls) = 1
      BY <1>4
    <3>. QED
      BY <1>1, <3>1 DEF Live
  <2>2. PICK tok \in Tokens : tok = Token(kind, s.column) /\ tok.kind \in BlockStarts
    <3>1. kind \in Kinds /\ s.column \in Int
      BY DEF Kinds, Shaped
    <3>. QED
      BY <3>1, TokenParts
  <2>3. s.column \in Int
    BY DEF Shaped
  <2>4. Sound(ls, Append(s.queue, tok), Append(s.indents, s.column), 0, o)
    BY <1>4, <2>1, <2>2, <2>3, StartToken
  <2>. QED
    BY <1>4, <2>1, <2>2, <2>4
<1>. QED
  BY <1>2, <1>3, <1>4

LEMMA Put ==
  ASSUME NEW q \in Seq(Tokens), NEW e \in Tokens, NEW p \in Nat, p <= Len(q),
         NEW r, Inserts(q, p, e, r)
  PROVE  Between(q, r, p, e) /\ r \in Seq(Tokens) /\ Len(r) = Len(q) + 1
<1>1. /\ r \in Seq(Tokens) /\ Len(r) = Len(q) + 1
      /\ r[p + 1] = e
      /\ \A i \in Nat : 1 <= i /\ i <= p => r[i] = q[i]
      /\ \A i \in Nat : p < i /\ i <= Len(q) => r[i + 1] = q[i]
  BY Inserted
<1>2. Len(q) \in Nat
  OBVIOUS
<1>. QED
  BY <1>1, <1>2 DEF Between

\* ':' after a simple key: KEY goes before it, and a mapping may begin there.
LEMMA SimpleValued ==
  ASSUME NEW s, Shaped(s), NEW o, s.err = "none",
         Sound(s.keys, s.queue, s.indents, Len(s.keys) - 1, o), Current(s.keys),
         s.keys[Len(s.keys)].possible, NEW t, t = SimpleValue(s)
  PROVE  /\ Shaped(t) /\ t.err = "none" /\ t.column = s.column
         /\ Len(t.keys) = Len(s.keys) /\ Fewer(s.keys, t.keys)
         /\ Sound(t.keys, t.queue, t.indents, Len(s.keys) - 1, o)
<1>1. /\ Shape(s) /\ Typed(s.keys, s.queue, s.indents) /\ s.allowed \in BOOLEAN
      /\ s.column \in Nat
      /\ s.queue \in Seq(Tokens) /\ s.indents \in Seq(Int)
      /\ s.keys \in Seq(Simple) /\ Len(s.keys) > 0
  BY DEF Shaped, Typed
<1>2. /\ Len(s.keys) \in Nat /\ 1 <= Len(s.keys) /\ Len(s.indents) \in Nat /\ 1 <= Len(s.indents)
      /\ Block(s) <=> Len(s.keys) = 1
  BY Depth
<1>. PICK key \in Simple : key = s.keys[Len(s.keys)]
  <2>1. Len(s.keys) \in 1 .. Len(s.keys)
    BY <1>2
  <2>. QED
    BY <1>1, <2>1, ElementOfSeq
<1>3. key.at \in Nat /\ key.column \in Int /\ key.possible
  BY DEF Simple
<1>4. Key(s) = key
  BY DEF Key, Last
<1>5. Placed(s.keys, s.queue) /\ Grow(s.indents)
  BY SoundParts
<1>6. key.at < Len(s.queue) /\ key.at <= Len(s.queue)
  <2>1. key.at < Len(s.queue)
    BY <1>2, <1>3, <1>5 DEF Placed
  <2>. QED
    BY <1>3, <2>1, Depth
<1>7. PICK tok \in Tokens : tok = Token("KEY", key.column) /\ tok.kind = "KEY"
  <2>1. PICK kind \in Kinds : kind = "KEY"
    BY DEF Kinds
  <2>. QED
    BY <1>3, <2>1, TokenParts
<1>8. PICK start \in Tokens :
        start = Token("BLOCK-MAPPING-START", key.column) /\ start.kind \in BlockStarts
  <2>1. PICK kind \in Kinds : kind = "BLOCK-MAPPING-START" /\ kind \in BlockStarts
    BY DEF Kinds, BlockStarts
  <2>. QED
    BY <1>3, <2>1, TokenParts
<1>9. PICK r : Inserts(s.queue, key.at, tok, r)
  BY DEF Inserts
<1>10. Between(s.queue, r, key.at, tok) /\ r \in Seq(Tokens) /\ Len(r) = Len(s.queue) + 1
  BY <1>1, <1>3, <1>6, <1>9, Put
<1>11. PICK ls : ls = [s.keys EXCEPT ![Len(s.keys)] = NoKey]
  OBVIOUS
<1>12. Last1(s.keys, ls, NoKey)
  BY <1>1, <1>11, LastSet, NoKeySimple
<1>13. Fewer(s.keys, ls) /\ Resolved(s.keys, ls) /\ Len(ls) = Len(s.keys)
  BY <1>1, <1>12, LastFewer DEF Last1
<1>. DEFINE keyed == [s EXCEPT !.queue = InsertAt(@, key.at + 1, Token("KEY", key.column))]
            rolled == RollIndent(keyed, key.column, key.at, "BLOCK-MAPPING-START")
<1>14. t = Allow(WithKey(rolled, NoKey), FALSE)
  BY <1>4 DEF SimpleValue
<1>. PICK k : k = keyed
  OBVIOUS
<1>15. /\ Shape(k) /\ k.queue = r
       /\ k.column = s.column /\ k.allowed = s.allowed /\ k.err = s.err /\ k.keys = s.keys
       /\ k.indents = s.indents
  <2>1. k = [s EXCEPT !.queue = r]
    BY <1>7, <1>9 DEF Inserts
  <2>. QED
    BY <1>1, <2>1 DEF Shape
<1>. PICK u : u = rolled
  OBVIOUS
<1>16. u = RollIndent(k, key.column, key.at, "BLOCK-MAPPING-START")
  OBVIOUS
<1>17. t = Allow(WithKey(u, NoKey), FALSE)
  BY <1>14
<1>. HIDE DEF keyed, rolled
<1>18. Block(k) <=> Len(s.keys) = 1
  BY <1>2, <1>15 DEF Block, Flow
<1>19. Indent(k) = s.indents[Len(s.indents)] /\ Indent(k) \in Int
  <2>1. Len(s.indents) \in 1 .. Len(s.indents)
    BY <1>2
  <2>2. s.indents[Len(s.indents)] \in Int
    BY <1>1, <2>1, ElementOfSeq
  <2>. QED
    BY <1>15, <2>2 DEF Indent, Last
<1>20. ASSUME Shape(u), u.keys = s.keys, u.err = s.err, u.column = s.column
       PROVE  /\ Shape(t) /\ t.keys = ls /\ t.err = "none" /\ t.column = s.column
              /\ t.allowed = FALSE /\ t.queue = u.queue /\ t.indents = u.indents
  <2>. PICK v : v = WithKey(u, NoKey)
    OBVIOUS
  <2>1. /\ Shape(v) /\ v.keys = ls /\ v.err = s.err /\ v.column = s.column
        /\ v.queue = u.queue /\ v.indents = u.indents
    BY <1>11, <1>20, KeySet
  <2>2. t = Allow(v, FALSE)
    BY <1>17
  <2>. QED
    BY <2>1, <2>2 DEF Allow, Shape
<1>21. CASE ~ (Block(k) /\ Indent(k) < key.column)
  <2>1. u = k
    <3>1. ~ Block(k) \/ Indent(k) >= key.column
      BY <1>3, <1>19, <1>21
    <3>. QED
      BY <1>16, <3>1 DEF RollIndent
  <2>2. /\ Shape(t) /\ t.keys = ls /\ t.err = "none" /\ t.column = s.column
        /\ t.allowed = FALSE /\ t.queue = r /\ t.indents = s.indents
    BY <1>15, <1>20, <2>1
  <2>3. Typed(ls, r, s.indents)
    BY <1>1, <1>10, <1>13 DEF Typed, Fewer
  <2>4. Sound(ls, r, s.indents, Len(s.keys) - 1, o)
    BY <1>3, <1>7, <1>10, <1>13, <2>3, KeyInserted
  <2>5. Shaped(t)
    BY <1>1, <2>2, <2>3 DEF Shaped
  <2>. QED
    BY <1>13, <2>2, <2>4, <2>5
<1>22. CASE Block(k) /\ Indent(k) < key.column
  <2>1. PICK w : Inserts(r, key.at, start, w)
    BY DEF Inserts
  <2>2. key.at <= Len(r)
    BY <1>3, <1>6, <1>10, Depth
  <2>3. Between(r, w, key.at, start) /\ w \in Seq(Tokens) /\ Len(w) = Len(r) + 1
    BY <1>3, <1>10, <2>1, <2>2, Put
  <2>4. PICK js : js = Append(s.indents, key.column)
    OBVIOUS
  <2>5. js \in Seq(Int) /\ Len(js) = Len(s.indents) + 1 /\ Grow(js)
    BY <1>1, <1>2, <1>3, <1>5, <1>19, <1>22, <2>4, GrowAppend, SMTT(20)
  <2>6. u = [k EXCEPT !.indents = js, !.queue = w]
    <3>1. ~ (k.err # "none" \/ ~ Block(k) \/ Indent(k) >= key.column)
      BY <1>3, <1>15, <1>19, <1>22
    <3>. QED
      BY <1>8, <1>15, <1>16, <2>1, <2>4, <3>1 DEF RollIndent, Inserts
  <2>7. /\ Shape(u) /\ u.keys = s.keys /\ u.err = s.err /\ u.column = s.column
        /\ u.queue = w /\ u.indents = js
    BY <1>15, <2>6 DEF Shape
  <2>8. /\ Shape(t) /\ t.keys = ls /\ t.err = "none" /\ t.column = s.column
        /\ t.allowed = FALSE /\ t.queue = w /\ t.indents = js
    BY <1>20, <2>7
  <2>9. Typed(ls, w, js)
    <3>1. Len(js) > 0
      BY <1>2, <2>5
    <3>. QED
      BY <1>13, <2>3, <2>5, <3>1 DEF Typed, Fewer
  <2>10. Len(s.keys) = 1 /\ Len(s.keys) - 1 = 0
    BY <1>18, <1>22
  <2>11. Live(s.keys[1]) /\ key = s.keys[1]
    BY <1>2, <1>3, <2>10 DEF Live, Current
  <2>12. Sound(s.keys, s.queue, s.indents, 0, o)
    BY <2>10
  <2>13. Sound(ls, w, js, 0, o)
    BY <1>3, <1>7, <1>8, <1>10, <1>13, <2>3, <2>5, <2>9, <2>10, <2>11, <2>12, MappingInserted
  <2>14. Shaped(t)
    BY <1>1, <2>8, <2>9 DEF Shaped
  <2>. QED
    BY <1>13, <2>8, <2>10, <2>13, <2>14
<1>. QED
  BY <1>21, <1>22

LEMMA GapColumns ==
  ASSUME scan.column \in Nat, NEW g \in Gaps
  PROVE  g.column \in Nat /\ (~ g.line => scan.column <= g.column)
<1>1. CASE g \in {[line |-> FALSE, column |-> c] : c \in {scan.column, scan.column + 1}}
  BY <1>1
<1>2. CASE g \in {[line |-> TRUE, column |-> c] : c \in 0 .. MaxColumn}
  BY <1>2
<1>. QED
  BY <1>1, <1>2 DEF Gaps

LEMMA LiveBehind ==
  ASSUME NEW ks, KeysTyped(ks), 1 <= Len(ks), NEW c \in Nat, Behind(ks, c)
  PROVE  /\ Live(ks[1]) => ks[1].column \in Int /\ ks[1].column <= c
         /\ c = 0 => Dead(ks)
         /\ \A d \in Nat : c <= d => Behind(ks, d)
<1>1. \A i \in Nat : 1 <= i /\ i <= Len(ks) => ks[i].column \in Int
  BY DEF KeysTyped
<1>2. Live(ks[1]) => ks[1].column \in Int /\ ks[1].column <= c
  BY <1>1 DEF Behind
<1>3. c = 0 => Dead(ks)
  BY <1>1 DEF Behind, Dead
<1>4. \A d \in Nat : c <= d => Behind(ks, d)
  BY <1>1 DEF Behind
<1>. QED
  BY <1>2, <1>3, <1>4

LEMMA DeadBehind ==
  ASSUME NEW ks, Dead(ks)
  PROVE  \A c : Behind(ks, c)
BY DEF Dead, Behind

LEMMA Afters ==
  ASSUME Shaped(scan), scan.err = "none",
         Sound(scan.keys, scan.queue, scan.indents, Len(scan.keys) - 1, open),
         Behind(scan.keys, scan.column), NEW g \in Gaps, NEW t, t = After(g)
  PROVE  /\ Shaped(t) /\ Ready(t, open)
         /\ t.err = "none" => /\ t.column = g.column /\ Len(t.keys) = Len(scan.keys)
                              /\ t.column = 0 => Dead(t.keys)
<1>1. g.column \in Nat /\ (~ g.line => scan.column <= g.column)
  BY GapColumns DEF Shaped
<1>. PICK s : s = StaleKeys(scan)
  OBVIOUS
<1>2. /\ Shaped(s) /\ s.column = scan.column /\ s.allowed = scan.allowed
      /\ s.indents = scan.indents /\ s.queue = scan.queue
      /\ s.err = "none" => Fewer(scan.keys, s.keys) /\ Len(s.keys) = Len(scan.keys)
  BY Stales
<1>. PICK moved : moved = IF g.line THEN NewLine(s, g.column) ELSE [s EXCEPT !.column = g.column]
  OBVIOUS
<1>. PICK a : a = (s.allowed \/ (g.line /\ Block(s)))
  OBVIOUS
<1>. PICK allowing : allowing = Allow(moved, a)
  OBVIOUS
<1>. PICK fresh : fresh = IF s.err # "none" THEN s ELSE StaleKeys(allowing)
  OBVIOUS
<1>3. t = UnrollIndent(fresh, fresh.column)
  BY DEF After
<1>4. /\ Shaped(moved) /\ moved.column = g.column /\ moved.indents = s.indents
      /\ moved.queue = s.queue /\ moved.err = s.err
      /\ Len(moved.keys) = Len(s.keys)
      /\ \/ moved.keys = s.keys /\ ~ g.line
         \/ Fewer(s.keys, moved.keys) /\ Dead(moved.keys)
  <2>1. CASE g.line
    <3>1. moved = NewLine(s, g.column)
      BY <2>1
    <3>. QED
      BY <1>1, <1>2, <3>1, Lines
  <2>2. CASE ~ g.line
    <3>1. moved = [s EXCEPT !.column = g.column]
      BY <2>2
    <3>2. /\ Shape(moved) /\ moved.column = g.column /\ moved.indents = s.indents
          /\ moved.queue = s.queue /\ moved.err = s.err /\ moved.keys = s.keys
          /\ moved.allowed = s.allowed
      BY <1>2, <3>1 DEF Shape, Shaped
    <3>. QED
      BY <1>1, <1>2, <2>2, <3>2 DEF Shaped
  <2>. QED
    BY <2>1, <2>2
<1>5. /\ Shaped(allowing) /\ allowing.column = g.column /\ allowing.indents = s.indents
      /\ allowing.queue = s.queue /\ allowing.err = s.err /\ allowing.keys = moved.keys
  <2>1. /\ Shape(allowing) /\ allowing.allowed = a
        /\ allowing.column = moved.column /\ allowing.err = moved.err
        /\ allowing.indents = moved.indents
        /\ allowing.keys = moved.keys /\ allowing.queue = moved.queue
    BY <1>4 DEF Shaped, Shape, Allow
  <2>2. a \in BOOLEAN
    OBVIOUS
  <2>. QED
    BY <1>4, <2>1, <2>2 DEF Shaped
<1>6. /\ Shaped(fresh)
      /\ fresh.err = "none" =>
           /\ fresh.column = g.column /\ Len(fresh.keys) = Len(scan.keys)
           /\ Sound(fresh.keys, fresh.queue, fresh.indents, Len(fresh.keys) - 1, open)
           /\ Behind(fresh.keys, fresh.column) /\ Current(fresh.keys)
  <2>1. CASE s.err # "none"
    BY <1>2, <2>1
  <2>2. CASE s.err = "none"
    <3>1. fresh = StaleKeys(allowing)
      BY <2>2
    <3>2. /\ Shaped(fresh) /\ fresh.column = allowing.column
          /\ fresh.indents = allowing.indents /\ fresh.queue = allowing.queue
          /\ fresh.err = "none" => /\ Fewer(allowing.keys, fresh.keys)
                                   /\ Len(fresh.keys) = Len(allowing.keys)
                                   /\ Current(fresh.keys)
      BY <1>5, <3>1, Stales
    <3>3. ASSUME fresh.err = "none"
          PROVE  /\ Len(fresh.keys) = Len(scan.keys)
                 /\ Sound(fresh.keys, fresh.queue, fresh.indents, Len(fresh.keys) - 1, open)
                 /\ Behind(fresh.keys, fresh.column)
      <4>1. Fewer(scan.keys, s.keys) /\ Len(s.keys) = Len(scan.keys)
        BY <1>2, <2>2
      <4>2. Fewer(moved.keys, fresh.keys) /\ Len(fresh.keys) = Len(moved.keys)
        BY <1>5, <3>2, <3>3
      <4>3. Fewer(s.keys, fresh.keys)
        BY <1>4, <4>2, FewerTwice
      <4>4. Fewer(scan.keys, fresh.keys)
        BY <4>1, <4>3, FewerTwice
      <4>5. Sound(fresh.keys, scan.queue, scan.indents, Len(scan.keys) - 1, open)
        BY <4>4, FewerSound
      <4>6. Behind(fresh.keys, g.column)
        <5>1. CASE moved.keys = s.keys /\ ~ g.line
          <6>1. Behind(fresh.keys, scan.column)
            BY <4>4, FewerBehind
          <6>2. KeysTyped(fresh.keys) /\ 1 <= Len(fresh.keys)
            BY <3>2, TypedParts DEF Shaped
          <6>3. scan.column \in Nat
            BY DEF Shaped
          <6>. QED
            BY <1>1, <5>1, <6>1, <6>2, <6>3, LiveBehind
        <5>2. CASE Dead(moved.keys)
          <6>1. Dead(fresh.keys)
            BY <4>2, <5>2, FewerBehind
          <6>. QED
            BY <6>1, DeadBehind
        <5>. QED
          BY <1>4, <5>1, <5>2
      <4>. QED
        BY <1>2, <1>4, <1>5, <3>2, <4>1, <4>2, <4>5, <4>6
    <3>. QED
      BY <1>5, <3>2, <3>3
  <2>. QED
    BY <2>1, <2>2
<1>7. fresh.column \in Int /\ -1 <= fresh.column /\ fresh.column \in Nat
  BY <1>6 DEF Shaped
<1>8. ASSUME fresh.err = "none"
      PROVE  /\ Live(fresh.keys[1]) => fresh.keys[1].column <= fresh.column
             /\ fresh.column = 0 => Dead(fresh.keys)
  <2>1. KeysTyped(fresh.keys) /\ 1 <= Len(fresh.keys)
    BY <1>6, TypedParts DEF Shaped
  <2>2. Behind(fresh.keys, fresh.column)
    BY <1>6, <1>8
  <2>. QED
    BY <1>7, <2>1, <2>2, LiveBehind
<1>9. /\ Shaped(t) /\ t.column = fresh.column /\ t.allowed = fresh.allowed
      /\ t.err = fresh.err /\ t.keys = fresh.keys
      /\ fresh.err = "none" =>
           /\ Sound(t.keys, t.queue, t.indents, Len(fresh.keys) - 1, open)
           /\ Len(fresh.keys) = 1 => t.indents[Len(t.indents)] <= fresh.column
  <2>. PICK c \in Int : c = fresh.column /\ -1 <= c
    BY <1>7
  <2>1. t = UnrollIndent(fresh, c)
    BY <1>3
  <2>2. fresh.err = "none" =>
          /\ Sound(fresh.keys, fresh.queue, fresh.indents, Len(fresh.keys) - 1, open)
          /\ Live(fresh.keys[1]) => fresh.keys[1].column <= c
    BY <1>6, <1>8
  <2>3. Shaped(fresh)
    BY <1>6
  <2>4. /\ Shaped(t) /\ t.column = fresh.column /\ t.allowed = fresh.allowed
        /\ t.err = fresh.err /\ t.keys = fresh.keys
        /\ fresh.err = "none" =>
             /\ Sound(t.keys, t.queue, t.indents, Len(fresh.keys) - 1, open)
             /\ Len(fresh.keys) = 1 => t.indents[Len(t.indents)] <= c
    BY <2>1, <2>2, <2>3, Unrolled
  <2>. QED
    BY <2>4
<1>10. Ready(t, open)
  BY <1>6, <1>9 DEF Ready
<1>. QED
  BY <1>6, <1>8, <1>9, <1>10

----------------------------------------------------------------------------
(* The fetchers                                                             *)

\* Before anything goes on from a token: it may be at the mark.
Through(s, o) ==
  /\ Shaped(s)
  /\ s.err = "none" => /\ Sound(s.keys, s.queue, s.indents, Len(s.keys) - 1, o)
                       /\ Behind(s.keys, s.column + 1)

Whole(s, o) ==
  /\ Shaped(s)
  /\ s.err = "none" => /\ Sound(s.keys, s.queue, s.indents, Len(s.keys) - 1, o)
                       /\ Behind(s.keys, s.column)

LEMMA Allowed ==
  ASSUME NEW s, Shaped(s), NEW a \in BOOLEAN, NEW t, t = Allow(s, a)
  PROVE  /\ Shaped(t) /\ t.column = s.column /\ t.err = s.err /\ t.indents = s.indents
         /\ t.keys = s.keys /\ t.queue = s.queue
<1>1. /\ Shape(t) /\ t.allowed = a
      /\ t.column = s.column /\ t.err = s.err /\ t.indents = s.indents
      /\ t.keys = s.keys /\ t.queue = s.queue
  BY DEF Shaped, Shape, Allow
<1>. QED
  BY <1>1 DEF Shaped

LEMMA Appends ==
  ASSUME NEW s, Shaped(s), NEW kind \in Kinds, NEW t, t = Append1(s, kind)
  PROVE  /\ Shaped(t) /\ t.column = s.column /\ t.err = s.err /\ t.indents = s.indents
         /\ t.keys = s.keys
         /\ s.err = "none" => t.queue = Append(s.queue, Token(kind, s.column))
<1>1. CASE s.err # "none"
  <2>1. t = s
    BY <1>1 DEF Append1
  <2>. QED
    BY <1>1, <2>1
<1>2. CASE s.err = "none"
  <2>1. /\ Shape(t) /\ t.queue = Append(s.queue, Token(kind, s.column))
        /\ t.allowed = s.allowed /\ t.err = s.err /\ t.indents = s.indents
        /\ t.keys = s.keys /\ t.column = s.column
    BY <1>2, Appending DEF Shaped
  <2>2. s.column \in Int /\ Typed(s.keys, s.queue, s.indents)
    BY DEF Shaped
  <2>3. Token(kind, s.column) \in Tokens
    BY <2>2, TokenParts
  <2>4. Typed(s.keys, t.queue, s.indents)
    BY <2>1, <2>2, <2>3, LongerQueue
  <2>. QED
    BY <2>1, <2>4 DEF Shaped
<1>. QED
  BY <1>1, <1>2

\* A token within collections, at the mark of an otherwise sound text.
LEMMA InnerAppended ==
  ASSUME NEW s, Shaped(s), NEW o,
         s.err = "none" => Sound(s.keys, s.queue, s.indents, Len(s.keys) - 1, o),
         NEW kind \in Kinds, Inner(kind), NEW t, t = Append1(s, kind)
  PROVE  /\ Shaped(t) /\ t.column = s.column /\ t.err = s.err /\ t.keys = s.keys
         /\ t.err = "none" =>
              Sound(t.keys, t.queue, t.indents, NextFlows(kind, Len(s.keys) - 1), o)
<1>1. /\ Shaped(t) /\ t.column = s.column /\ t.err = s.err /\ t.indents = s.indents
      /\ t.keys = s.keys
      /\ s.err = "none" => t.queue = Append(s.queue, Token(kind, s.column))
  BY Appends
<1>2. PICK tok \in Tokens : tok = Token(kind, s.column) /\ tok.kind = kind
  BY TokenParts DEF Shaped
<1>3. ASSUME s.err = "none"
      PROVE  Sound(s.keys, Append(s.queue, tok), s.indents, NextFlows(tok.kind, Len(s.keys) - 1), o)
  <2>1. Inner(tok.kind) /\ Sound(s.keys, s.queue, s.indents, Len(s.keys) - 1, o)
    BY <1>2, <1>3
  <2>. QED
    BY <2>1, InnerToken
<1>. QED
  BY <1>1, <1>2, <1>3

\* Tokens that leave the flow collections as they are.
Even == {"FLOW-ENTRY", "BLOCK-ENTRY", "KEY", "VALUE", "SCALAR", "ANCHOR"}

LEMMA EvenKinds ==
  ASSUME NEW kind \in Even
  PROVE  kind \in Kinds /\ Inner(kind) /\ \A n : NextFlows(kind, n) = n
BY DEF Even, Kinds, Inner, NextFlows, BlockStarts, FlowStarts, FlowEnds, Outer

LEMMA EvenAppended ==
  ASSUME NEW s, Shaped(s), NEW o,
         s.err = "none" => /\ Sound(s.keys, s.queue, s.indents, Len(s.keys) - 1, o)
                           /\ Behind(s.keys, s.column + 1),
         NEW kind \in Even, NEW t, t = Append1(s, kind)
  PROVE  Through(t, o)
<1>1. kind \in Kinds /\ Inner(kind) /\ NextFlows(kind, Len(s.keys) - 1) = Len(s.keys) - 1
  BY EvenKinds
<1>2. /\ Shaped(t) /\ t.column = s.column /\ t.err = s.err /\ t.keys = s.keys
      /\ t.err = "none" =>
           Sound(t.keys, t.queue, t.indents, NextFlows(kind, Len(s.keys) - 1), o)
  BY <1>1, InnerAppended
<1>. QED
  BY <1>1, <1>2 DEF Through

LEMMA WentOn ==
  ASSUME NEW s, NEW o, Through(s, o), NEW d \in Nat, d >= 1, NEW t, t = Along(s, d)
  PROVE  Whole(t, o)
<1>1. Shaped(s)
  BY DEF Through
<1>2. /\ Shape(t) /\ t.column = s.column + d
      /\ t.allowed = s.allowed /\ t.err = s.err /\ t.indents = s.indents
      /\ t.keys = s.keys /\ t.queue = s.queue
  BY <1>1, Moving DEF Shaped
<1>3. Shaped(t)
  BY <1>1, <1>2 DEF Shaped
<1>4. ASSUME s.err = "none" PROVE Behind(s.keys, s.column + d)
  <2>1. KeysTyped(s.keys) /\ 1 <= Len(s.keys)
    BY <1>1, TypedParts DEF Shaped
  <2>2. PICK c \in Nat : c = s.column + 1 /\ c <= s.column + d
    BY <1>1 DEF Shaped
  <2>3. PICK e \in Nat : e = s.column + d
    BY <1>1 DEF Shaped
  <2>4. Behind(s.keys, c)
    BY <1>4, <2>2 DEF Through
  <2>. QED
    BY <2>1, <2>2, <2>3, <2>4, LiveBehind
<1>. QED
  BY <1>2, <1>3, <1>4 DEF Whole, Through

LEMMA WentDown ==
  ASSUME NEW s, Shaped(s), NEW o,
         s.err = "none" => Sound(s.keys, s.queue, s.indents, Len(s.keys) - 1, o),
         NEW c \in Nat, NEW t, t = NewLine(s, c)
  PROVE  Whole(t, o) /\ Dead(t.keys)
<1>1. /\ Shaped(t) /\ t.column = c /\ t.allowed = s.allowed /\ t.err = s.err
      /\ t.indents = s.indents /\ t.queue = s.queue
      /\ Fewer(s.keys, t.keys) /\ Len(t.keys) = Len(s.keys) /\ Dead(t.keys)
  BY Lines
<1>2. Behind(t.keys, t.column)
  BY <1>1, DeadBehind
<1>3. s.err = "none" => Sound(t.keys, t.queue, t.indents, Len(t.keys) - 1, o)
  <2>1. ASSUME s.err = "none" PROVE Sound(t.keys, s.queue, s.indents, Len(s.keys) - 1, o)
    BY <1>1, <2>1, FewerSound
  <2>. QED
    BY <1>1, <2>1
<1>. QED
  BY <1>1, <1>2, <1>3 DEF Whole

LEMMA ScalarEnds ==
  ASSUME NEW s, NEW o, Through(s, o), NEW to \in Ends, NEW t, t = Ended(s, to)
  PROVE  Whole(t, o)
<1>1. CASE to.line
  <2>1. to.column \in Nat
    BY <1>1 DEF Ends
  <2>2. t = NewLine(s, to.column)
    BY <1>1 DEF Ended
  <2>. QED
    BY <2>1, <2>2, WentDown DEF Through
<1>2. CASE ~ to.line
  <2>1. t = Along(s, 1)
    BY <1>2 DEF Ended
  <2>2. PICK d \in Nat : d = 1 /\ d >= 1
    OBVIOUS
  <2>. QED
    BY <2>1, <2>2, WentOn
<1>. QED
  BY <1>1, <1>2

LEMMA RemovedReady ==
  ASSUME NEW s, Shaped(s), NEW o, Ready(s, o), NEW t, t = RemoveKey(s)
  PROVE  /\ Through(t, o) /\ t.column = s.column /\ t.queue = s.queue
         /\ t.indents = s.indents /\ Len(t.keys) = Len(s.keys)
         /\ t.err = "none" => s.err = "none" /\ Fewer(s.keys, t.keys)
<1>1. /\ Shaped(t) /\ t.column = s.column /\ t.allowed = s.allowed
      /\ t.indents = s.indents /\ t.queue = s.queue /\ Len(t.keys) = Len(s.keys)
      /\ t.err = "none" => s.err = "none" /\ Fewer(s.keys, t.keys)
  BY KeysRemoved
<1>2. ASSUME t.err = "none"
      PROVE  /\ Sound(t.keys, t.queue, t.indents, Len(t.keys) - 1, o)
             /\ Behind(t.keys, t.column + 1)
  <2>1. /\ Sound(s.keys, s.queue, s.indents, Len(s.keys) - 1, o)
        /\ Behind(s.keys, s.column) /\ Fewer(s.keys, t.keys)
    BY <1>1, <1>2 DEF Ready
  <2>2. Sound(t.keys, s.queue, s.indents, Len(s.keys) - 1, o)
    BY <2>1, FewerSound
  <2>3. Behind(t.keys, s.column)
    BY <2>1, FewerBehind
  <2>4. KeysTyped(t.keys) /\ 1 <= Len(t.keys)
    BY <1>1, TypedParts DEF Shaped
  <2>5. s.column \in Nat /\ s.column + 1 \in Nat /\ s.column <= s.column + 1
    BY DEF Shaped
  <2>6. Behind(t.keys, s.column + 1)
    BY <2>3, <2>4, <2>5, LiveBehind
  <2>. QED
    BY <1>1, <2>2, <2>6
<1>. QED
  BY <1>1, <1>2 DEF Through

LEMMA SavedAppended ==
  ASSUME NEW s, Shaped(s), NEW o, Ready(s, o), NEW kind \in {"SCALAR", "ANCHOR"},
         NEW a \in BOOLEAN, NEW t, t = Append1(Allow(SaveKey(s), a), kind)
  PROVE  Through(t, o)
<1>1. kind \in Keyable /\ kind \in Even
  BY DEF Keyable, Even
<1>2. kind \in Kinds /\ NextFlows(kind, Len(s.keys) - 1) = Len(s.keys) - 1
  BY <1>1, EvenKinds
<1>. PICK u : u = SaveKey(s)
  OBVIOUS
<1>3. /\ Shaped(u) /\ u.column = s.column
      /\ u.indents = s.indents /\ u.queue = s.queue /\ Len(u.keys) = Len(s.keys)
      /\ u.err = "none" =>
           /\ Sound(u.keys, Append(s.queue, Token(kind, s.column)), s.indents,
                    NextFlows(kind, Len(s.keys) - 1), o)
           /\ Behind(u.keys, s.column + 1)
  BY <1>1, KeysSaved
<1>. PICK v : v = Allow(u, a)
  OBVIOUS
<1>4. /\ Shaped(v) /\ v.column = u.column /\ v.err = u.err /\ v.indents = u.indents
      /\ v.keys = u.keys /\ v.queue = u.queue
  BY <1>3, Allowed
<1>5. t = Append1(v, kind)
  OBVIOUS
<1>6. /\ Shaped(t) /\ t.column = v.column /\ t.err = v.err /\ t.indents = v.indents
      /\ t.keys = v.keys
      /\ v.err = "none" => t.queue = Append(v.queue, Token(kind, v.column))
  BY <1>2, <1>4, <1>5, Appends
<1>. QED
  BY <1>2, <1>3, <1>4, <1>6 DEF Through

LEMMA RemovedAppended ==
  ASSUME NEW s, Shaped(s), NEW o, Ready(s, o), NEW kind \in Even,
         NEW a \in BOOLEAN, NEW t, t = Append1(Allow(RemoveKey(s), a), kind)
  PROVE  Through(t, o)
<1>. PICK u : u = RemoveKey(s)
  OBVIOUS
<1>1. Through(u, o)
  BY RemovedReady
<1>. PICK v : v = Allow(u, a)
  OBVIOUS
<1>2. /\ Shaped(v) /\ v.column = u.column /\ v.err = u.err /\ v.indents = u.indents
      /\ v.keys = u.keys /\ v.queue = u.queue
  BY <1>1, Allowed DEF Through
<1>3. t = Append1(v, kind)
  OBVIOUS
<1>4. v.err = "none" => /\ Sound(v.keys, v.queue, v.indents, Len(v.keys) - 1, o)
                        /\ Behind(v.keys, v.column + 1)
  BY <1>1, <1>2 DEF Through
<1>. QED
  BY <1>2, <1>3, <1>4, EvenAppended

\* How FetchFlowStart and FetchFlowEnd change the keys.
Deeper(s) == IF s.err # "none" THEN s ELSE [s EXCEPT !.keys = Append(@, NoKey)]
Shallower(s) == IF s.err # "none" \/ Block(s) THEN s ELSE [s EXCEPT !.keys = Front(@)]

LEMMA FlowStarted ==
  ASSUME NEW s, Shaped(s), NEW o, Ready(s, o), NEW kind \in FlowStarts, NEW a \in BOOLEAN,
         NEW u, u = SaveKey(s),
         NEW w, w = Deeper(u),
         NEW t, t = Append1(Allow(w, a), kind)
  PROVE  Through(t, o)
<1>1. kind \in Keyable /\ kind \in Kinds
  BY DEF Keyable, Kinds
<1>2. NextFlows(kind, Len(s.keys) - 1) = (Len(s.keys) - 1) + 1
  BY DEF NextFlows
<1>3. /\ Shaped(u) /\ u.column = s.column
      /\ u.indents = s.indents /\ u.queue = s.queue /\ Len(u.keys) = Len(s.keys)
      /\ u.err = "none" =>
           /\ Sound(u.keys, Append(s.queue, Token(kind, s.column)), s.indents,
                    NextFlows(kind, Len(s.keys) - 1), o)
           /\ Behind(u.keys, s.column + 1)
  BY <1>1, KeysSaved
<1>. PICK v : v = Allow(w, a)
  OBVIOUS
<1>4. t = Append1(v, kind)
  OBVIOUS
<1>5. CASE u.err # "none"
  <2>1. w = u
    BY <1>5 DEF Deeper
  <2>2. Shaped(v) /\ v.err = u.err
    BY <1>3, <2>1, Allowed
  <2>3. Shaped(t) /\ t.err = v.err
    BY <1>1, <1>4, <2>2, Appends
  <2>. QED
    BY <1>5, <2>2, <2>3 DEF Through
<1>6. CASE u.err = "none"
  <2>. PICK ls : ls = Append(u.keys, NoKey)
    OBVIOUS
  <2>1. w = [u EXCEPT !.keys = ls]
    BY <1>6 DEF Deeper
  <2>2. /\ Shape(w) /\ w.keys = ls /\ w.column = u.column /\ w.allowed = u.allowed
        /\ w.indents = u.indents /\ w.queue = u.queue /\ w.err = u.err
    BY <1>3, <2>1 DEF Shaped, Shape
  <2>3. /\ ls \in Seq(Simple) /\ Len(ls) = Len(u.keys) + 1 /\ ls[Len(u.keys) + 1] = NoKey
        /\ \A i \in Nat : 1 <= i /\ i <= Len(u.keys) => ls[i] = u.keys[i]
    <3>1. u.keys \in Seq(Simple) /\ NoKey \in Simple
      BY <1>3, NoKeySimple DEF Shaped, Typed
    <3>. QED
      BY <3>1, Appended
  <2>4. Fewer(u.keys, ls)
    <3>1. Len(u.keys) \in Nat
      BY <1>3, Depth
    <3>2. ASSUME NEW i \in Nat, 1 <= i, i <= Len(ls), ls[i].possible
          PROVE  i <= Len(u.keys) /\ ls[i] = u.keys[i]
      <4>1. i # Len(u.keys) + 1
        BY <2>3, <3>2, NoKeySimple
      <4>2. i <= Len(u.keys)
        BY <2>3, <3>1, <3>2, <4>1
      <4>. QED
        BY <2>3, <3>2, <4>2
    <3>3. Len(ls) > 0
      BY <2>3, <3>1
    <3>. QED
      BY <2>3, <3>2, <3>3 DEF Fewer
  <2>5. Typed(ls, u.queue, u.indents)
    BY <1>3, <2>4, Retyped DEF Shaped
  <2>6. Shaped(w)
    BY <1>3, <2>2, <2>5 DEF Shaped
  <2>7. /\ Shaped(v) /\ v.column = w.column /\ v.err = w.err /\ v.indents = w.indents
        /\ v.keys = w.keys /\ v.queue = w.queue
    BY <2>6, Allowed
  <2>8. /\ Shaped(t) /\ t.column = v.column /\ t.err = v.err /\ t.indents = v.indents
        /\ t.keys = v.keys
        /\ v.err = "none" => t.queue = Append(v.queue, Token(kind, v.column))
    BY <1>1, <1>4, <2>7, Appends
  <2>9. Sound(ls, t.queue, t.indents, NextFlows(kind, Len(s.keys) - 1), o)
    <3>1. /\ t.queue = Append(s.queue, Token(kind, s.column)) /\ t.indents = s.indents
      BY <1>3, <1>6, <2>2, <2>7, <2>8
    <3>2. Sound(u.keys, t.queue, t.indents, NextFlows(kind, Len(s.keys) - 1), o)
      BY <1>3, <1>6, <3>1
    <3>. QED
      BY <2>4, <3>2, FewerSound
  <2>10. Behind(ls, s.column + 1)
    BY <1>3, <1>6, <2>4, FewerBehind
  <2>11. Len(ls) - 1 = NextFlows(kind, Len(s.keys) - 1)
    BY <1>2, <1>3, <2>3, Depth
  <2>. QED
    BY <1>3, <2>2, <2>7, <2>8, <2>9, <2>10, <2>11 DEF Through
<1>. QED
  BY <1>5, <1>6

LEMMA Depths ==
  ASSUME NEW s, Shaped(s)
  PROVE  \E n \in Nat : n = Len(s.keys) - 1 /\ Len(s.keys) = n + 1 /\ (~ Block(s) => n > 0)
                     /\ (Block(s) => n = 0)
<1>1. PICK n \in Nat : n = Len(s.keys) - 1
  BY Depth
<1>2. Len(s.keys) = n + 1
  BY <1>1, Depth
<1>3. Len(s.keys) = 1 <=> n = 0
  BY <1>2
<1>4. Block(s) => n = 0
  BY <1>3, Depth
<1>5. ~ Block(s) => n > 0
  <2>1. ~ Block(s) => n # 0
    BY <1>3, Depth
  <2>. QED
    BY <2>1
<1>. QED
  BY <1>1, <1>2, <1>4, <1>5

LEMMA FlowEnded ==
  ASSUME NEW s, Shaped(s), NEW o, Ready(s, o), NEW kind \in FlowEnds, NEW a \in BOOLEAN,
         NEW u, u = RemoveKey(s),
         NEW w, w = Shallower(u),
         NEW t, t = Append1(Allow(w, a), kind)
  PROVE  Through(t, o)
<1>1. kind \in Kinds /\ Inner(kind) /\ kind \notin FlowStarts
  BY DEF Kinds, Inner, FlowEnds, FlowStarts, BlockStarts, Outer
<1>2. Through(u, o) /\ Shaped(u)
  BY RemovedReady DEF Through
<1>3. PICK n \in Nat : n = Len(u.keys) - 1 /\ Len(u.keys) = n + 1 /\ (~ Block(u) => n > 0)
                        /\ (Block(u) => n = 0)
  BY <1>2, Depths
<1>. PICK v : v = Allow(w, a)
  OBVIOUS
<1>4. t = Append1(v, kind)
  OBVIOUS
<1>5. CASE u.err # "none" \/ Block(u)
  <2>1. w = u
    BY <1>5 DEF Shallower
  <2>2. /\ Shaped(v) /\ v.column = u.column /\ v.err = u.err /\ v.indents = u.indents
        /\ v.keys = u.keys /\ v.queue = u.queue
    BY <1>2, <2>1, Allowed
  <2>3. v.err = "none" => Sound(v.keys, v.queue, v.indents, Len(v.keys) - 1, o)
    BY <1>2, <2>2 DEF Through
  <2>4. /\ Shaped(t) /\ t.column = v.column /\ t.err = v.err /\ t.keys = v.keys
        /\ t.err = "none" =>
             Sound(t.keys, t.queue, t.indents, NextFlows(kind, Len(v.keys) - 1), o)
    <3>. HIDE DEF NextFlows
    <3>1. t = Append1(v, kind) /\ Shaped(v)
      BY <1>4, <2>2
    <3>. QED
      BY <1>1, <2>3, <3>1, InnerAppended
  <2>5. u.err = "none" => NextFlows(kind, Len(v.keys) - 1) = Len(v.keys) - 1
    <3>1. u.err = "none" => Len(v.keys) - 1 = 0
      BY <1>3, <1>5, <2>2
    <3>2. NextFlows(kind, 0) = 0
      BY <1>1 DEF NextFlows
    <3>. QED
      BY <3>1, <3>2
  <2>6. t.err = "none" => Behind(t.keys, t.column + 1)
    BY <1>2, <2>2, <2>4 DEF Through
  <2>. QED
    BY <2>2, <2>4, <2>5, <2>6 DEF Through
<1>6. CASE u.err = "none" /\ ~ Block(u)
  <2>0. n > 0
    BY <1>3, <1>6
  <2>. PICK ls : ls = Front(u.keys)
    OBVIOUS
  <2>1. w = [u EXCEPT !.keys = ls]
    BY <1>6 DEF Shallower
  <2>2. /\ Shape(w) /\ w.keys = ls /\ w.column = u.column /\ w.allowed = u.allowed
        /\ w.indents = u.indents /\ w.queue = u.queue /\ w.err = u.err
    BY <1>2, <2>1 DEF Shaped, Shape
  <2>3. /\ ls \in Seq(Simple) /\ Len(ls) = Len(u.keys) - 1
        /\ \A i \in Nat : 1 <= i /\ i <= Len(u.keys) - 1 => ls[i] = u.keys[i]
    <3>1. u.keys \in Seq(Simple)
      BY <1>2 DEF Shaped, Typed
    <3>2. n = Len(u.keys) - 1
      BY <1>3
    <3>3. \A i \in 1 .. n : u.keys[i] \in Simple
      <4>1. \A i \in 1 .. n : i \in 1 .. Len(u.keys)
        BY <1>3, <3>2
      <4>. QED
        BY <3>1, <4>1, ElementOfSeq
    <3>4. ls = SubSeq(u.keys, 1, n)
      BY <3>2 DEF Front
    <3>5. ls \in Seq(Simple) /\ Len(ls) = n /\ \A i \in 1 .. n : ls[i] = u.keys[i]
      BY <3>3, <3>4, SubSeqProperties
    <3>. QED
      BY <3>2, <3>5
  <2>4. Fewer(u.keys, ls) /\ Len(ls) > 0
    <3>1. Len(ls) > 0
      BY <1>3, <2>0, <2>3
    <3>2. \A i \in Nat : i <= Len(ls) => i <= Len(u.keys) /\ i <= Len(u.keys) - 1
      BY <1>3, <2>3
    <3>. QED
      BY <2>3, <3>1, <3>2 DEF Fewer
  <2>5. Typed(ls, u.queue, u.indents)
    BY <1>2, <2>4, Retyped DEF Shaped
  <2>6. Shaped(w)
    BY <1>2, <2>2, <2>5 DEF Shaped
  <2>7. /\ Shaped(v) /\ v.column = w.column /\ v.err = w.err /\ v.indents = w.indents
        /\ v.keys = w.keys /\ v.queue = w.queue
    BY <2>6, Allowed
  <2>8. /\ Shaped(t) /\ t.column = v.column /\ t.err = v.err /\ t.indents = v.indents
        /\ t.keys = v.keys
        /\ v.err = "none" => t.queue = Append(v.queue, Token(kind, v.column))
    BY <1>1, <1>4, <2>7, Appends
  <2>9. PICK tok \in Tokens : tok = Token(kind, u.column) /\ tok.kind = kind
    <3>1. u.column \in Int
      BY <1>2 DEF Shaped
    <3>. QED
      BY <1>1, <3>1, TokenParts
  <2>10. Sound(u.keys, Append(u.queue, tok), u.indents, NextFlows(tok.kind, Len(u.keys) - 1), o)
    <3>1. Sound(u.keys, u.queue, u.indents, Len(u.keys) - 1, o) /\ Inner(tok.kind)
      BY <1>1, <1>2, <1>6, <2>9 DEF Through
    <3>. QED
      BY <3>1, InnerToken
  <2>11. Sound(ls, Append(u.queue, tok), u.indents, NextFlows(tok.kind, Len(u.keys) - 1), o)
    BY <2>4, <2>10, FewerSound
  <2>12. NextFlows(tok.kind, Len(u.keys) - 1) = Len(ls) - 1
    <3>1. NextFlows(kind, n) = n - 1
      BY <1>1, <2>0 DEF NextFlows
    <3>. QED
      BY <1>3, <2>3, <2>9, <3>1
  <2>13. Behind(ls, u.column + 1)
    <3>1. Behind(u.keys, u.column + 1)
      BY <1>2, <1>6 DEF Through
    <3>. QED
      BY <2>4, <3>1, FewerBehind
  <2>. QED
    BY <1>6, <2>2, <2>7, <2>8, <2>9, <2>11, <2>12, <2>13 DEF Through
<1>. QED
  BY <1>5, <1>6

LEMMA AllowedAppended ==
  ASSUME NEW u, NEW o, Through(u, o), NEW kind \in Even,
         NEW a \in BOOLEAN, NEW t, t = Append1(Allow(u, a), kind)
  PROVE  Through(t, o)
<1>. PICK v : v = Allow(u, a)
  OBVIOUS
<1>1. /\ Shaped(v) /\ v.column = u.column /\ v.err = u.err /\ v.indents = u.indents
      /\ v.keys = u.keys /\ v.queue = u.queue
  BY Allowed DEF Through
<1>2. t = Append1(v, kind)
  OBVIOUS
<1>3. v.err = "none" => /\ Sound(v.keys, v.queue, v.indents, Len(v.keys) - 1, o)
                        /\ Behind(v.keys, v.column + 1)
  BY <1>1 DEF Through
<1>. QED
  BY <1>1, <1>2, <1>3, EvenAppended

LEMMA BehindMore ==
  ASSUME NEW ks, NEW q, NEW ins, Typed(ks, q, ins), NEW c \in Nat, Behind(ks, c)
  PROVE  Behind(ks, c + 1)
<1>1. KeysTyped(ks) /\ 1 <= Len(ks)
  BY TypedParts
<1>2. c + 1 \in Nat /\ c <= c + 1
  OBVIOUS
<1>. QED
  BY <1>1, <1>2, LiveBehind

\* '-' and '?': a collection may begin before them.
Begun(s, kind) == IF Block(s) /\ ~s.allowed THEN Error(s, "not allowed here")
                  ELSE RollIndent(s, s.column, Len(s.queue), kind)

LEMMA BegunThrough ==
  ASSUME NEW s, Shaped(s), NEW o, Ready(s, o), NEW kind \in BlockStarts,
         NEW t, t = RemoveKey(Begun(s, kind))
  PROVE  Through(t, o)
<1>. PICK u : u = Begun(s, kind)
  OBVIOUS
<1>1. t = RemoveKey(u)
  OBVIOUS
<1>2. CASE Block(s) /\ ~s.allowed
  <2>0. PICK why : why = "not allowed here"
    OBVIOUS
  <2>1. u = Error(s, why)
    BY <1>2, <2>0 DEF Begun
  <2>2. Shape(s)
    BY DEF Shaped
  <2>3. /\ Shape(u) /\ u.err = why
        /\ u.column = s.column /\ u.allowed = s.allowed /\ u.indents = s.indents
        /\ u.keys = s.keys /\ u.queue = s.queue
    BY <2>1, <2>2, Errs
  <2>4. Shaped(u) /\ u.err # "none"
    BY <2>0, <2>3 DEF Shaped
  <2>5. Shaped(t) /\ t.err # "none"
    BY <1>1, <2>4, KeysRemoved
  <2>. QED
    BY <2>5 DEF Through
<1>3. CASE ~ (Block(s) /\ ~s.allowed)
  <2>1. u = RollIndent(s, s.column, Len(s.queue), kind)
    BY <1>3 DEF Begun
  <2>2. /\ Shaped(u) /\ u.column = s.column /\ u.allowed = s.allowed
        /\ u.err = s.err /\ u.keys = s.keys
    BY <2>1, RolledFields
  <2>3. /\ Shaped(t) /\ t.column = u.column /\ t.allowed = u.allowed
        /\ t.indents = u.indents /\ t.queue = u.queue /\ Len(t.keys) = Len(u.keys)
        /\ t.err = "none" => /\ u.err = "none" /\ Fewer(u.keys, t.keys)
                             /\ Last1(u.keys, t.keys, NoKey)
    BY <1>1, <2>2, KeysRemoved
  <2>4. ASSUME t.err = "none"
        PROVE  /\ Sound(t.keys, t.queue, t.indents, Len(t.keys) - 1, o)
               /\ Behind(t.keys, t.column + 1)
    <3>1. /\ Sound(s.keys, s.queue, s.indents, Len(s.keys) - 1, o)
          /\ Behind(s.keys, s.column) /\ Fewer(s.keys, t.keys) /\ Len(t.keys) = Len(s.keys)
          /\ Last1(s.keys, t.keys, NoKey)
      BY <2>2, <2>3, <2>4 DEF Ready
    <3>2. ~ t.keys[Len(t.keys)].possible
      BY <3>1, NoKeySimple DEF Last1
    <3>3. Sound(t.keys, u.queue, u.indents, Len(t.keys) - 1, o)
      BY <2>1, <3>1, <3>2, Rolled
    <3>4. Behind(t.keys, s.column)
      BY <3>1, FewerBehind
    <3>5. Behind(t.keys, s.column + 1)
      BY <2>3, <3>4, BehindMore DEF Shaped
    <3>. QED
      BY <2>2, <2>3, <3>3, <3>5
  <2>. QED
    BY <2>3, <2>4 DEF Through
<1>. QED
  BY <1>2, <1>3

Valued(s) == IF s.err # "none" THEN s
             ELSE IF Key(s).possible THEN SimpleValue(s) ELSE ComplexValue(s)

LEMMA ValuedThrough ==
  ASSUME NEW s, Shaped(s), NEW o, Ready(s, o), NEW t, t = Valued(s)
  PROVE  Through(t, o)
<1>0. Key(s) = s.keys[Len(s.keys)] /\ s.column \in Nat /\ s.keys \in Seq(Simple) /\ Len(s.keys) > 0
  BY DEF Key, Last, Shaped, Typed
<1>1. CASE s.err # "none"
  BY <1>1 DEF Valued, Through
<1>2. ASSUME s.err = "none"
      PROVE  /\ Sound(s.keys, s.queue, s.indents, Len(s.keys) - 1, o)
             /\ Behind(s.keys, s.column) /\ Current(s.keys)
             /\ Behind(s.keys, s.column + 1)
  <2>1. /\ Sound(s.keys, s.queue, s.indents, Len(s.keys) - 1, o)
        /\ Behind(s.keys, s.column) /\ Current(s.keys)
    BY <1>2 DEF Ready
  <2>2. Behind(s.keys, s.column + 1)
    BY <1>0, <2>1, BehindMore DEF Shaped
  <2>. QED
    BY <2>1, <2>2
<1>3. CASE s.err = "none" /\ Key(s).possible
  <2>1. t = SimpleValue(s)
    BY <1>3 DEF Valued
  <2>2. /\ Shaped(t) /\ t.err = "none" /\ t.column = s.column
        /\ Len(t.keys) = Len(s.keys) /\ Fewer(s.keys, t.keys)
        /\ Sound(t.keys, t.queue, t.indents, Len(s.keys) - 1, o)
    BY <1>0, <1>2, <1>3, <2>1, SimpleValued
  <2>3. Behind(t.keys, s.column + 1)
    BY <1>2, <1>3, <2>2, FewerBehind
  <2>. QED
    BY <2>2, <2>3 DEF Through
<1>4. CASE s.err = "none" /\ ~ Key(s).possible /\ Block(s) /\ ~ s.allowed
  <2>0. PICK why : why = "not allowed here"
    OBVIOUS
  <2>1. t = Error(s, why)
    BY <1>4, <2>0 DEF Valued, ComplexValue
  <2>2. Shape(s)
    BY DEF Shaped
  <2>3. /\ Shape(t) /\ t.err = why
        /\ t.column = s.column /\ t.allowed = s.allowed /\ t.indents = s.indents
        /\ t.keys = s.keys /\ t.queue = s.queue
    BY <2>1, <2>2, Errs
  <2>4. Shaped(t) /\ t.err # "none"
    BY <2>0, <2>3 DEF Shaped
  <2>. QED
    BY <2>4 DEF Through
<1>5. CASE s.err = "none" /\ ~ Key(s).possible /\ ~ (Block(s) /\ ~ s.allowed)
  <2>. PICK kind \in BlockStarts : kind = "BLOCK-MAPPING-START"
    BY DEF BlockStarts
  <2>. PICK u : u = RollIndent(s, s.column, Len(s.queue), kind)
    OBVIOUS
  <2>1. t = Allow(u, Block(s))
    BY <1>5 DEF Valued, ComplexValue
  <2>2. /\ Shaped(u) /\ u.column = s.column /\ u.allowed = s.allowed
        /\ u.err = s.err /\ u.keys = s.keys
    BY RolledFields
  <2>3. Fewer(s.keys, s.keys)
    BY <1>0 DEF Fewer
  <2>4. Sound(s.keys, u.queue, u.indents, Len(s.keys) - 1, o)
    BY <1>0, <1>2, <1>5, <2>3, Rolled
  <2>5. Block(s) \in BOOLEAN
    BY DEF Block
  <2>6. /\ Shaped(t) /\ t.column = u.column /\ t.err = u.err /\ t.indents = u.indents
        /\ t.keys = u.keys /\ t.queue = u.queue
    BY <2>1, <2>2, <2>5, Allowed
  <2>. QED
    BY <1>2, <1>5, <2>2, <2>4, <2>6 DEF Through
<1>. QED
  BY <1>1, <1>3, <1>4, <1>5

LEMMA OneIndent ==
  ASSUME NEW ks, NEW q, NEW ins, Typed(ks, q, ins), Grow(ins), ins[Len(ins)] <= -1
  PROVE  Len(ins) = 1
<1>. PICK n \in Nat : n = Len(ins) /\ 1 <= n
  BY TypedParts
<1>1. \A i \in 1 .. n : ins[i] \in Int
  BY ElementOfSeq DEF Typed
<1>2. n \in 1 .. n
  OBVIOUS
<1>3. PICK x \in Int : x = ins[n]
  BY <1>1, <1>2
<1>4. n > 1 => -1 < x
  BY <1>3 DEF Grow
<1>. QED
  BY <1>3, <1>4

\* The end of the text, a directive, and the marks of documents.
Outside(s, kind) == Append1(Allow(RemoveKey(UnrollIndent(s, -1)), FALSE), kind)

LEMMA OutsideFetched ==
  ASSUME NEW s, Shaped(s), NEW o,
         s.err = "none" => /\ Sound(s.keys, s.queue, s.indents, Len(s.keys) - 1, o)
                           /\ Dead(s.keys),
         NEW kind \in Outer, NEW t, t = Outside(s, kind)
  PROVE  Through(t, o) /\ (t.err = "none" => Dead(t.keys))
<1>. PICK c \in Int : c = -1 /\ -1 <= c
  OBVIOUS
<1>. PICK u : u = UnrollIndent(s, c)
  OBVIOUS
<1>. PICK v : v = RemoveKey(u)
  OBVIOUS
<1>. PICK a \in BOOLEAN : a = FALSE
  OBVIOUS
<1>. PICK w : w = Allow(v, a)
  OBVIOUS
<1>1. t = Append1(w, kind)
  BY DEF Outside
<1>2. kind \in Kinds
  BY DEF Kinds
<1>3. ASSUME s.err = "none" PROVE ~ Live(s.keys[1])
  BY <1>3, Depth DEF Dead
<1>4. /\ Shaped(u) /\ u.column = s.column /\ u.allowed = s.allowed
      /\ u.err = s.err /\ u.keys = s.keys
      /\ s.err = "none" =>
           /\ Sound(u.keys, u.queue, u.indents, Len(s.keys) - 1, o)
           /\ Len(s.keys) = 1 => u.indents[Len(u.indents)] <= c
  <2>1. s.err = "none" =>
           /\ Sound(s.keys, s.queue, s.indents, Len(s.keys) - 1, o)
           /\ Live(s.keys[1]) => s.keys[1].column <= c
    BY <1>3
  <2>. QED
    BY <2>1, Unrolled
<1>5. /\ Shaped(v) /\ v.column = u.column /\ v.allowed = u.allowed
      /\ v.indents = u.indents /\ v.queue = u.queue /\ Len(v.keys) = Len(u.keys)
      /\ v.err = "none" => u.err = "none" /\ Fewer(u.keys, v.keys)
  BY <1>4, KeysRemoved
<1>6. /\ Shaped(w) /\ w.column = v.column /\ w.err = v.err /\ w.indents = v.indents
      /\ w.keys = v.keys /\ w.queue = v.queue
  BY <1>5, Allowed
<1>7. /\ Shaped(t) /\ t.column = w.column /\ t.err = w.err /\ t.indents = w.indents
      /\ t.keys = w.keys
      /\ w.err = "none" => t.queue = Append(w.queue, Token(kind, w.column))
  BY <1>1, <1>2, <1>6, Appends
<1>8. ASSUME t.err = "none"
      PROVE  /\ Sound(t.keys, t.queue, t.indents, Len(t.keys) - 1, o) /\ Dead(t.keys)
  <2>1. /\ v.err = "none" /\ u.err = "none" /\ s.err = "none" /\ Fewer(s.keys, v.keys)
        /\ Dead(s.keys) /\ Sound(s.keys, u.queue, u.indents, Len(s.keys) - 1, o)
        /\ Len(s.keys) = 1 => u.indents[Len(u.indents)] <= c
    BY <1>4, <1>5, <1>6, <1>7, <1>8
  <2>2. Sound(v.keys, u.queue, u.indents, Len(s.keys) - 1, o)
    BY <2>1, FewerSound
  <2>3. Dead(v.keys)
    BY <2>1, FewerBehind
  <2>4. ~ Live(v.keys[1])
    BY <1>5, <2>3, Depth DEF Dead
  <2>5. ASSUME Len(s.keys) - 1 = 0 PROVE Len(u.indents) = 1
    <3>1. Grow(u.indents) /\ Typed(v.keys, u.queue, u.indents)
      BY <2>2, SoundParts
    <3>2. u.indents[Len(u.indents)] <= -1
      BY <1>4, <2>1, <2>5, Depth
    <3>. QED
      BY <3>1, <3>2, OneIndent
  <2>6. PICK tok \in Tokens : tok = Token(kind, v.column) /\ tok.kind \in Outer
    <3>1. v.column \in Int
      BY <1>5 DEF Shaped
    <3>. QED
      BY <1>2, <3>1, TokenParts
  <2>7. Sound(v.keys, Append(u.queue, tok), u.indents, Len(s.keys) - 1, o)
    BY <2>2, <2>4, <2>5, <2>6, OuterToken
  <2>8. t.keys = v.keys /\ t.indents = u.indents /\ Len(t.keys) = Len(s.keys)
    BY <1>4, <1>5, <1>6, <1>7
  <2>9. t.queue = Append(u.queue, tok)
    BY <1>5, <1>6, <1>7, <2>1, <2>6
  <2>. QED
    BY <2>3, <2>7, <2>8, <2>9
<1>9. t.err = "none" => Behind(t.keys, t.column + 1)
  BY <1>8, DeadBehind
<1>. QED
  BY <1>7, <1>8, <1>9 DEF Through

----------------------------------------------------------------------------
(* The inductive invariant                                                  *)

IInv ==
  /\ lexemes \in Int /\ open \in Stacks
  /\ follows \in {"any", "blank", "end"} /\ ended \in BOOLEAN
  /\ lexemes < 0 =>
       /\ scan = [column |-> 0, allowed |-> FALSE, indents |-> <<>>, keys |-> <<>>,
                  queue |-> <<>>, err |-> "none"]
       /\ ~ ended /\ open = <<>>
  /\ lexemes >= 0 => /\ Whole(scan, open)
                     /\ ended /\ scan.err = "none" => Dead(scan.keys)

LEMMA InitIInv ==
  ASSUME ScannerInit
  PROVE  IInv
<1>1. open \in Stacks
  BY DEF ScannerInit, Stacks
<1>2. lexemes \in Int /\ lexemes < 0 /\ ~ (lexemes >= 0)
  BY DEF ScannerInit
<1>3. /\ scan = [column |-> 0, allowed |-> FALSE, indents |-> <<>>, keys |-> <<>>,
                 queue |-> <<>>, err |-> "none"]
      /\ follows = "any" /\ ended = FALSE /\ open = <<>>
  BY DEF ScannerInit
<1>4. follows \in {"any", "blank", "end"} /\ ended \in BOOLEAN /\ ~ ended
  BY <1>3
<1>. QED
  BY <1>1, <1>2, <1>3, <1>4 DEF IInv

LEMMA AfterGap ==
  ASSUME IInv, NEW g \in Gaps, InGap(g), NEW t, t = After(g)
  PROVE  /\ lexemes >= 0 /\ lexemes \in Int /\ Shaped(scan)
         /\ Shaped(t) /\ Ready(t, open)
         /\ t.err = "none" => /\ t.column = g.column /\ Len(t.keys) = Len(scan.keys)
                              /\ t.column = 0 => Dead(t.keys)
<1>1. lexemes >= 0 /\ lexemes \in Int /\ scan.err = "none"
  BY DEF InGap, Lives, IInv
<1>2. Whole(scan, open)
  BY <1>1 DEF IInv
<1>3. /\ Shaped(scan)
      /\ Sound(scan.keys, scan.queue, scan.indents, Len(scan.keys) - 1, open)
      /\ Behind(scan.keys, scan.column)
  BY <1>1, <1>2 DEF Whole
<1>. QED
  BY <1>1, <1>3, Afters

LEMMA Fetched ==
  ASSUME IInv, NEW g \in Gaps, NEW kind, NEW next \in {"any", "blank", "end"}, NEW t,
         Fetch(g, kind, next, t), Whole(t, open)
  PROVE  IInv'
<1>1. lexemes >= 0 /\ lexemes \in Int
  BY DEF Fetch, InGap, Lives, IInv
<1>2. /\ scan' = t /\ follows' = next /\ lexemes' = lexemes + 1
      /\ ended' = ended /\ open' = open /\ ~ ended
  BY DEF Fetch
<1>3. lexemes' \in Int /\ lexemes' >= 0
  BY <1>1, <1>2
<1>. QED
  BY <1>2, <1>3 DEF IInv, Whole, Shaped, Shape, Sound

LEMMA StartAppended ==
  ASSUME NEW s, Shaped(s), NEW o, Sound(s.keys, s.queue, s.indents, 0, o),
         Len(s.keys) = 1, Dead(s.keys), s.err = "none",
         NEW t, t = Append1(s, "STREAM-START")
  PROVE  Whole(t, o) /\ Dead(t.keys)
<1>1. PICK kind \in Kinds :
        kind = "STREAM-START" /\ Inner(kind) /\ NextFlows(kind, 0) = 0
  BY DEF Kinds, Inner, NextFlows, BlockStarts, FlowStarts, FlowEnds, Outer
<1>2. t = Append1(s, kind)
  BY <1>1
<1>3. Len(s.keys) - 1 = 0
  OBVIOUS
<1>4. Sound(s.keys, s.queue, s.indents, Len(s.keys) - 1, o)
  BY <1>3
<1>5. /\ Shaped(t) /\ t.column = s.column /\ t.err = s.err /\ t.keys = s.keys
      /\ t.err = "none" =>
           Sound(t.keys, t.queue, t.indents, NextFlows(kind, Len(s.keys) - 1), o)
  BY <1>1, <1>2, <1>4, InnerAppended, ZenonT(60)
<1>6. NextFlows(kind, Len(s.keys) - 1) = Len(t.keys) - 1
  BY <1>1, <1>3, <1>5
<1>7. Behind(t.keys, t.column)
  BY <1>5, DeadBehind
<1>. QED
  BY <1>5, <1>6, <1>7 DEF Whole

LEMMA StartFetched ==
  ASSUME IInv, FetchStreamStart
  PROVE  IInv'
<1>a. PICK s : s = [scan EXCEPT !.indents = <<-1>>, !.keys = <<NoKey>>, !.allowed = TRUE]
  OBVIOUS
<1>b. PICK ks, ins, q : ks = <<NoKey>> /\ ins = <<-1>> /\ q = <<>>
  OBVIOUS
<1>1. scan = [column |-> 0, allowed |-> FALSE, indents |-> <<>>, keys |-> <<>>,
              queue |-> <<>>, err |-> "none"]
  BY DEF FetchStreamStart, IInv
<1>2. /\ Shape(s) /\ s.column = 0 /\ s.allowed \in BOOLEAN /\ s.indents = ins /\ s.keys = ks
      /\ s.queue = q /\ s.err = "none"
  BY <1>a, <1>b, <1>1 DEF Shape
<1>3. Typed(ks, q, ins) /\ Len(ks) = 1 /\ ks[1] = NoKey /\ Len(q) = 0 /\ Len(ins) = 1 /\ ins[1] = -1
  <2>1. ks \in Seq(Simple) /\ Len(ks) = 1 /\ ks[1] = NoKey
    BY <1>b, NoKeySimple
  <2>2. ins \in Seq(Int) /\ Len(ins) = 1 /\ ins[1] = -1
    BY <1>b
  <2>3. q \in Seq(Tokens) /\ Len(q) = 0
    BY <1>b
  <2>. QED
    BY <2>1, <2>2, <2>3 DEF Typed
<1>4. Shaped(s)
  <2>1. Shape(s) /\ s.column \in Nat /\ s.allowed \in BOOLEAN
    BY <1>2
  <2>2. Typed(s.keys, s.queue, s.indents)
    BY <1>2, <1>3
  <2>. QED
    BY <2>1, <2>2 DEF Shaped
<1>5. /\ scan' = Append1(s, "STREAM-START") /\ lexemes' = 0 /\ follows' = follows
      /\ ended' = ended /\ open' = open
  BY <1>a DEF FetchStreamStart
<1>6. Sound(ks, q, ins, 0, open)
  <2>. DEFINE z == [i \in Nat |-> 0]
  <2>1. z \in Counters /\ \A i \in Nat : z[i] = 0
    BY DEF Counters
  <2>. HIDE DEF z
  <2>2. Counts(q, z, z)
    BY <1>3 DEF Counts
  <2>3. Agree(open, z[0], z[0])
    <3>1. open \in Stacks /\ Len(open) = 0
      BY <1>5 DEF FetchStreamStart, IInv, Stacks
    <3>. QED
      BY <2>1, <3>1 DEF Agree
  <2>4. Rooted(ks, q, ins, z, z)
    BY <1>3, NoKeySimple DEF Rooted, Live
  <2>5. Placed(ks, q)
    BY <1>3, NoKeySimple DEF Placed
  <2>6. Grow(ins)
    BY <1>3 DEF Grow
  <2>7. z[Len(q)] = Len(ins) - 1 /\ z[Len(q)] = 0
    BY <1>3, <2>1
  <2>8. \E b, f \in Counters :
       /\ Counts(q, b, f) /\ b[Len(q)] = Len(ins) - 1 /\ f[Len(q)] = 0
       /\ Agree(open, b[0], f[0])
       /\ Rooted(ks, q, ins, b, f)
    BY <2>1, <2>2, <2>3, <2>4, <2>7
  <2>. QED
    BY <1>3, <2>5, <2>6, <2>8 DEF Sound
<1>10. Dead(ks)
  BY <1>3, NoKeySimple DEF Dead, Live
<1>11. /\ Sound(s.keys, s.queue, s.indents, 0, open) /\ Len(s.keys) = 1 /\ Dead(s.keys)
       /\ s.err = "none" /\ scan' = Append1(s, "STREAM-START")
  BY <1>2, <1>3, <1>5, <1>6, <1>10
<1>12. Whole(scan', open) /\ Dead(scan'.keys)
  <2>. PICK t : t = Append1(s, "STREAM-START")
    OBVIOUS
  <2>. QED
    BY <1>4, <1>11, StartAppended
<1>13. lexemes' \in Int /\ lexemes' >= 0 /\ ~ (lexemes' < 0)
  BY <1>5
<1>14. Whole(scan', open') /\ Dead(scan'.keys)
  BY <1>5, <1>12
<1>. QED
  BY <1>5, <1>13, <1>14 DEF IInv, Whole, Shaped, Shape, Sound, Dead, Live

LEMMA BranchOut ==
  ASSUME NEW t, NEW o, Through(t, o), t.err = "none" => Dead(t.keys)
  PROVE  Whole(t, o)
BY DeadBehind DEF Through, Whole

LEMMA OuterKinds ==
  /\ "STREAM-END" \in Outer /\ "DIRECTIVE" \in Outer
  /\ "DOCUMENT-START" \in Outer /\ "DOCUMENT-END" \in Outer
BY DEF Outer

LEMMA EndFetched ==
  ASSUME IInv, NEW g \in Gaps, FetchStreamEnd(g)
  PROVE  IInv'
<1>1. InGap(g)
  BY DEF FetchStreamEnd
<1>. PICK s : s = After(g)
  OBVIOUS
<1>2. /\ lexemes >= 0 /\ lexemes \in Int
      /\ Shaped(s) /\ Ready(s, open)
      /\ s.err = "none" => (s.column = 0 => Dead(s.keys))
  BY <1>1, AfterGap
<1>. PICK line : line = IF s.column # 0 THEN NewLine(s, 0) ELSE s
  OBVIOUS
<1>3. /\ Shaped(line)
      /\ line.err = "none" => /\ Sound(line.keys, line.queue, line.indents, Len(line.keys) - 1, open)
                              /\ Dead(line.keys)
  <2>1. CASE s.column = 0
    <3>1. line = s
      BY <2>1
    <3>. QED
      BY <1>2, <2>1, <3>1 DEF Ready
  <2>2. CASE s.column # 0
    <3>0. PICK c \in Nat : c = 0
      OBVIOUS
    <3>1. line = NewLine(s, c)
      BY <2>2, <3>0
    <3>2. s.err = "none" => Sound(s.keys, s.queue, s.indents, Len(s.keys) - 1, open)
      BY <1>2 DEF Ready
    <3>3. Whole(line, open) /\ Dead(line.keys)
      BY <1>2, <3>1, <3>2, WentDown
    <3>. QED
      BY <3>3 DEF Whole
  <2>. QED
    BY <2>1, <2>2
<1>. PICK kind \in Outer : kind = "STREAM-END"
  BY OuterKinds
<1>. PICK t : t = Outside(line, kind)
  OBVIOUS
<1>4. /\ scan' = t /\ ended' = TRUE /\ follows' = follows /\ lexemes' = lexemes /\ open' = open
  BY DEF FetchStreamEnd, Outside
<1>5. Through(t, open) /\ (t.err = "none" => Dead(t.keys))
  BY <1>3, OutsideFetched
<1>6. Whole(t, open)
  BY <1>5, BranchOut
<1>7. lexemes' \in Int /\ lexemes' >= 0 /\ ~ (lexemes' < 0)
  BY <1>2, <1>4
<1>8. open' \in Stacks /\ follows' \in {"any", "blank", "end"} /\ ended' \in BOOLEAN
  BY <1>4 DEF IInv
<1>9. Whole(scan', open') /\ (scan'.err = "none" => Dead(scan'.keys))
  BY <1>4, <1>5, <1>6
<1>. QED
  BY <1>7, <1>8, <1>9 DEF IInv, Whole, Shaped, Shape, Sound, Dead, Live

LEMMA Lefts ==
  /\ "any" \in {"any", "blank", "end"} /\ "blank" \in {"any", "blank", "end"}
  /\ \A c : (IF c THEN "blank" ELSE "any") \in {"any", "blank", "end"}
  /\ \A c : (IF c THEN "any" ELSE "end") \in {"any", "blank", "end"}
OBVIOUS

LEMMA DirectiveFetched ==
  ASSUME IInv, NEW g \in Gaps, FetchDirective(g)
  PROVE  IInv'
<1>. PICK s : s = After(g)
  OBVIOUS
<1>. PICK kind \in Outer : kind = "DIRECTIVE"
  BY OuterKinds
<1>. PICK t : t = Outside(s, kind)
  OBVIOUS
<1>. PICK c \in Nat : c = 0
  OBVIOUS
<1>. PICK u : u = NewLine(t, c)
  OBVIOUS
<1>1. g.column = 0 /\ Fetch(g, "directive", "any", u)
  BY DEF FetchDirective, Outside
<1>2. InGap(g)
  BY <1>1 DEF Fetch
<1>3. /\ Shaped(s) /\ Ready(s, open)
      /\ s.err = "none" => s.column = g.column /\ (s.column = 0 => Dead(s.keys))
  BY <1>2, AfterGap
<1>4. s.err = "none" => /\ Sound(s.keys, s.queue, s.indents, Len(s.keys) - 1, open)
                        /\ Dead(s.keys)
  BY <1>1, <1>3 DEF Ready
<1>5. Through(t, open)
  BY <1>3, <1>4, OutsideFetched
<1>6. Whole(u, open)
  BY <1>5, WentDown DEF Through
<1>. QED
  BY <1>1, <1>6, Fetched, Lefts

LEMMA DocumentFetched ==
  ASSUME IInv, NEW g \in Gaps, NEW kind \in {"DOCUMENT-START", "DOCUMENT-END"},
         FetchDocumentIndicator(g, kind)
  PROVE  IInv'
<1>. PICK s : s = After(g)
  OBVIOUS
<1>. PICK t : t = Outside(s, kind)
  OBVIOUS
<1>. PICK d \in Nat : d = 3 /\ d >= 1
  OBVIOUS
<1>. PICK u : u = Along(t, d)
  OBVIOUS
<1>1. g.column = 0 /\ Fetch(g, "document", "blank", u)
  BY DEF FetchDocumentIndicator, Outside
<1>2. InGap(g)
  BY <1>1 DEF Fetch
<1>3. /\ Shaped(s) /\ Ready(s, open)
      /\ s.err = "none" => s.column = g.column /\ (s.column = 0 => Dead(s.keys))
  BY <1>2, AfterGap
<1>4. s.err = "none" => /\ Sound(s.keys, s.queue, s.indents, Len(s.keys) - 1, open)
                        /\ Dead(s.keys)
  BY <1>1, <1>3 DEF Ready
<1>5. Through(t, open)
  <2>1. kind \in Outer
    BY OuterKinds
  <2>. QED
    BY <1>3, <1>4, <2>1, OutsideFetched
<1>6. Whole(u, open)
  BY <1>5, WentOn
<1>. QED
  BY <1>1, <1>6, Fetched, Lefts

\* The other fetchers go on by one column.
LEMMA FetchedThrough ==
  ASSUME IInv, NEW g \in Gaps, NEW kind, NEW next \in {"any", "blank", "end"}, NEW t,
         Through(t, open), Fetch(g, kind, next, Along(t, 1))
  PROVE  IInv'
<1>. PICK d \in Nat : d = 1 /\ d >= 1
  OBVIOUS
<1>. PICK u : u = Along(t, d)
  OBVIOUS
<1>1. Fetch(g, kind, next, u)
  OBVIOUS
<1>2. Whole(u, open)
  BY WentOn
<1>. QED
  BY <1>1, <1>2, Fetched

LEMMA FlowStartFetched ==
  ASSUME IInv, NEW g \in Gaps, NEW kind \in FlowStarts, FetchFlowStart(g, kind)
  PROVE  IInv'
<1>. PICK s : s = After(g)
  OBVIOUS
<1>. PICK u : u = SaveKey(s)
  OBVIOUS
<1>. PICK w : w = Deeper(u)
  OBVIOUS
<1>. PICK a \in BOOLEAN : a = TRUE
  OBVIOUS
<1>. PICK t : t = Append1(Allow(w, a), kind)
  OBVIOUS
<1>1. Fetch(g, "flow start", "any", Along(t, 1))
  BY DEF FetchFlowStart, Deeper
<1>2. InGap(g)
  BY <1>1 DEF Fetch
<1>3. Shaped(s) /\ Ready(s, open)
  BY <1>2, AfterGap
<1>4. Through(t, open)
  BY <1>3, FlowStarted
<1>. QED
  BY <1>1, <1>4, FetchedThrough, Lefts

LEMMA FlowEndFetched ==
  ASSUME IInv, NEW g \in Gaps, NEW kind \in FlowEnds, FetchFlowEnd(g, kind)
  PROVE  IInv'
<1>. PICK s : s = After(g)
  OBVIOUS
<1>. PICK u : u = RemoveKey(s)
  OBVIOUS
<1>. PICK w : w = Shallower(u)
  OBVIOUS
<1>. PICK a \in BOOLEAN : a = FALSE
  OBVIOUS
<1>. PICK t : t = Append1(Allow(w, a), kind)
  OBVIOUS
<1>1. Fetch(g, "flow end", "any", Along(t, 1))
  BY DEF FetchFlowEnd, Shallower
<1>2. InGap(g)
  BY <1>1 DEF Fetch
<1>3. Shaped(s) /\ Ready(s, open)
  BY <1>2, AfterGap
<1>4. Through(t, open)
  BY <1>3, FlowEnded
<1>. QED
  BY <1>1, <1>4, FetchedThrough, Lefts

LEMMA FlowEntryFetched ==
  ASSUME IInv, NEW g \in Gaps, FetchFlowEntry(g)
  PROVE  IInv'
<1>. PICK s : s = After(g)
  OBVIOUS
<1>. PICK a \in BOOLEAN : a = TRUE
  OBVIOUS
<1>. PICK kind \in Even : kind = "FLOW-ENTRY"
  BY DEF Even
<1>. PICK t : t = Append1(Allow(RemoveKey(s), a), kind)
  OBVIOUS
<1>1. Fetch(g, "entry", "any", Along(t, 1))
  BY DEF FetchFlowEntry
<1>2. InGap(g)
  BY <1>1 DEF Fetch
<1>3. Shaped(s) /\ Ready(s, open)
  BY <1>2, AfterGap
<1>4. Through(t, open)
  BY <1>3, RemovedAppended
<1>. QED
  BY <1>1, <1>4, FetchedThrough, Lefts

LEMMA BlockEntryFetched ==
  ASSUME IInv, NEW g \in Gaps, FetchBlockEntry(g)
  PROVE  IInv'
<1>. PICK s : s = After(g)
  OBVIOUS
<1>. PICK start \in BlockStarts : start = "BLOCK-SEQUENCE-START"
  BY DEF BlockStarts
<1>. PICK u : u = RemoveKey(Begun(s, start))
  OBVIOUS
<1>. PICK a \in BOOLEAN : a = TRUE
  OBVIOUS
<1>. PICK kind \in Even : kind = "BLOCK-ENTRY"
  BY DEF Even
<1>. PICK t : t = Append1(Allow(u, a), kind)
  OBVIOUS
<1>1. Fetch(g, "block entry", "blank", Along(t, 1))
  BY DEF FetchBlockEntry, Begun
<1>2. InGap(g)
  BY <1>1 DEF Fetch
<1>3. Shaped(s) /\ Ready(s, open)
  BY <1>2, AfterGap
<1>4. Through(u, open)
  BY <1>3, BegunThrough
<1>5. Through(t, open)
  BY <1>4, AllowedAppended
<1>. QED
  BY <1>1, <1>5, FetchedThrough, Lefts

LEMMA KeyFetched ==
  ASSUME IInv, NEW g \in Gaps, FetchKey(g)
  PROVE  IInv'
<1>. PICK s : s = After(g)
  OBVIOUS
<1>. PICK start \in BlockStarts : start = "BLOCK-MAPPING-START"
  BY DEF BlockStarts
<1>. PICK u : u = RemoveKey(Begun(s, start))
  OBVIOUS
<1>. PICK a \in BOOLEAN : a = Block(s)
  BY DEF Block
<1>. PICK kind \in Even : kind = "KEY"
  BY DEF Even
<1>. PICK t : t = Append1(Allow(u, a), kind)
  OBVIOUS
<1>1. PICK next \in {"any", "blank", "end"} : Fetch(g, "key", next, Along(t, 1))
  BY Lefts DEF FetchKey, Begun
<1>2. InGap(g)
  BY <1>1 DEF Fetch
<1>3. Shaped(s) /\ Ready(s, open)
  BY <1>2, AfterGap
<1>4. Through(u, open)
  BY <1>3, BegunThrough
<1>5. Through(t, open)
  BY <1>4, AllowedAppended
<1>. QED
  BY <1>1, <1>5, FetchedThrough

LEMMA ValueFetched ==
  ASSUME IInv, NEW g \in Gaps, FetchValue(g)
  PROVE  IInv'
<1>. PICK s : s = After(g)
  OBVIOUS
<1>. PICK u : u = Valued(s)
  OBVIOUS
<1>. PICK kind \in Even : kind = "VALUE"
  BY DEF Even
<1>. PICK t : t = Append1(u, kind)
  OBVIOUS
<1>1. PICK next \in {"any", "blank", "end"} : Fetch(g, "value", next, Along(t, 1))
  BY Lefts DEF FetchValue, Valued
<1>2. InGap(g)
  BY <1>1 DEF Fetch
<1>3. Shaped(s) /\ Ready(s, open)
  BY <1>2, AfterGap
<1>4. Through(u, open)
  BY <1>3, ValuedThrough
<1>5. Through(t, open)
  BY <1>4, EvenAppended DEF Through
<1>. QED
  BY <1>1, <1>5, FetchedThrough

LEMMA AnchorFetched ==
  ASSUME IInv, NEW g \in Gaps, FetchAnchor(g)
  PROVE  IInv'
<1>. PICK s : s = After(g)
  OBVIOUS
<1>. PICK a \in BOOLEAN : a = FALSE
  OBVIOUS
<1>. PICK kind \in {"SCALAR", "ANCHOR"} : kind = "ANCHOR"
  OBVIOUS
<1>. PICK t : t = Append1(Allow(SaveKey(s), a), kind)
  OBVIOUS
<1>1. Fetch(g, "anchor", "any", Along(t, 1))
  BY DEF FetchAnchor
<1>2. InGap(g)
  BY <1>1 DEF Fetch
<1>3. Shaped(s) /\ Ready(s, open)
  BY <1>2, AfterGap
<1>4. Through(t, open)
  BY <1>3, SavedAppended
<1>. QED
  BY <1>1, <1>4, FetchedThrough, Lefts

LEMMA ScalarFetched ==
  ASSUME IInv, NEW g \in Gaps, NEW to \in Ends,
         FetchBlockScalar(g, to) \/ FetchFlowScalar(g, to) \/ FetchPlainScalar(g, to)
  PROVE  IInv'
<1>. PICK s : s = After(g)
  OBVIOUS
<1>. PICK kind \in {"SCALAR", "ANCHOR"} : kind = "SCALAR"
  OBVIOUS
<1>. PICK no \in BOOLEAN : no = FALSE
  OBVIOUS
<1>. PICK yes \in BOOLEAN : yes = TRUE
  OBVIOUS
<1>. PICK saved : saved = Append1(Allow(SaveKey(s), no), kind)
  OBVIOUS
<1>. PICK removed : removed = Append1(Allow(RemoveKey(s), yes), kind)
  OBVIOUS
<1>1. ASSUME InGap(g) PROVE Whole(Ended(saved, to), open) /\ Whole(Ended(removed, to), open)
  <2>1. Shaped(s) /\ Ready(s, open)
    BY <1>1, AfterGap
  <2>2. Through(saved, open)
    BY <2>1, SavedAppended
  <2>3. Through(removed, open)
    <3>1. kind \in Even
      BY DEF Even
    <3>. QED
      BY <2>1, <3>1, RemovedAppended
  <2>. QED
    BY <2>2, <2>3, ScalarEnds
<1>2. CASE FetchBlockScalar(g, to)
  <2>1. Fetch(g, "block scalar", "any", Ended(removed, to))
    BY <1>2 DEF FetchBlockScalar
  <2>2. InGap(g)
    BY <2>1 DEF Fetch
  <2>. QED
    BY <1>1, <2>1, <2>2, Fetched, Lefts
<1>3. CASE FetchFlowScalar(g, to)
  <2>1. Fetch(g, "quoted", "any", Ended(saved, to))
    BY <1>3 DEF FetchFlowScalar
  <2>2. InGap(g)
    BY <2>1 DEF Fetch
  <2>. QED
    BY <1>1, <2>1, <2>2, Fetched, Lefts
<1>4. CASE FetchPlainScalar(g, to)
  <2>. PICK u : u = Ended(saved, to)
    OBVIOUS
  <2>0. PICK a \in BOOLEAN : a = (saved.allowed \/ to.broken)
    OBVIOUS
  <2>. PICK t : t = Allow(u, a)
    OBVIOUS
  <2>1. PICK next \in {"any", "blank", "end"} : Fetch(g, "plain", next, t)
    BY <1>4, <2>0, Lefts DEF FetchPlainScalar
  <2>2. InGap(g)
    BY <2>1 DEF Fetch
  <2>3. Whole(u, open)
    BY <1>1, <2>2
  <2>4. /\ Shaped(t) /\ t.column = u.column /\ t.err = u.err /\ t.indents = u.indents
        /\ t.keys = u.keys /\ t.queue = u.queue
    <3>1. Shaped(u)
      BY <2>3 DEF Whole
    <3>. QED
      BY <3>1, Allowed
  <2>5. Whole(t, open)
    BY <2>3, <2>4 DEF Whole
  <2>. QED
    BY <2>1, <2>5, Fetched
<1>. QED
  BY <1>2, <1>3, <1>4

LEMMA NothingFetched ==
  ASSUME IInv, NEW g \in Gaps, FetchNothing(g)
  PROVE  IInv'
<1>. PICK why : why = "not a token"
  OBVIOUS
<1>. PICK t : t = Error(scan, why)
  OBVIOUS
<1>1. Fetch(g, "bad", "any", t)
  BY DEF FetchNothing
<1>2. InGap(g)
  BY <1>1 DEF Fetch
<1>3. Shaped(scan) /\ Shape(scan)
  BY <1>2, AfterGap DEF Shaped
<1>4. /\ Shape(t) /\ t.err = why
      /\ t.column = scan.column /\ t.allowed = scan.allowed /\ t.indents = scan.indents
      /\ t.keys = scan.keys /\ t.queue = scan.queue
  BY <1>3 DEF Error, Shape
<1>5. Shaped(t) /\ t.err # "none"
  BY <1>3, <1>4 DEF Shaped
<1>6. Whole(t, open)
  BY <1>5 DEF Whole
<1>. QED
  BY <1>1, <1>6, Fetched, Lefts

\* Taking a token: the keys are one nearer, and the parser has opened it.
LEMMA NearerKeys ==
  ASSUME NEW ks \in Seq(Simple), Len(ks) > 0,
         \A i \in Nat : 1 <= i /\ i <= Len(ks) /\ ks[i].possible => ks[i].at # 0,
         NEW ls, ls = [i \in DOMAIN ks |-> Nearer(ks[i])]
  PROVE  /\ AllNearer(ks, ls) /\ ls \in Seq(Simple)
         /\ Dead(ks) => Dead(ls)
         /\ \A c : Behind(ks, c) => Behind(ls, c)
<1>. PICK n \in Nat : n = Len(ks) /\ n > 0
  OBVIOUS
<1>1. DOMAIN ks = 1 .. n
  OBVIOUS
<1>2. ASSUME NEW i \in 1 .. n
      PROVE  /\ Nearer(ks[i]) \in Simple
             /\ IF ks[i].possible
                THEN /\ Nearer(ks[i]).possible /\ Nearer(ks[i]).at = ks[i].at - 1
                     /\ Nearer(ks[i]).column = ks[i].column
                     /\ Nearer(ks[i]).here = ks[i].here
                ELSE ~ Nearer(ks[i]).possible
  <2>1. PICK k \in Simple : k = ks[i]
    BY <1>1, ElementOfSeq
  <2>2. CASE ~ k.possible
    BY <2>1, <2>2 DEF Nearer
  <2>3. CASE k.possible
    <3>1. k.at \in Nat /\ k.at # 0
      BY <2>1, <2>3 DEF Simple
    <3>2. k.at - 1 \in Nat
      BY <3>1
    <3>3. Nearer(k) = [k EXCEPT !.at = k.at - 1]
      BY <2>3 DEF Nearer
    <3>. QED
      BY <2>1, <2>3, <3>2, <3>3 DEF Simple
  <2>. QED
    BY <2>2, <2>3
<1>3. Len(ls) = n /\ ls \in Seq(Simple) /\ \A i \in 1 .. n : ls[i] = Nearer(ks[i])
  <2>1. ls \in [1 .. n -> Simple] /\ \A i \in 1 .. n : ls[i] = Nearer(ks[i])
    BY <1>1, <1>2
  <2>. QED
    BY <2>1
<1>4. AllNearer(ks, ls)
  BY <1>2, <1>3 DEF AllNearer
<1>5. \A i \in Nat : 1 <= i /\ i <= Len(ls) /\ Live(ls[i]) =>
        i <= Len(ks) /\ Live(ks[i]) /\ ls[i].column = ks[i].column
  BY <1>4 DEF AllNearer, Live
<1>. QED
  BY <1>3, <1>4, <1>5 DEF Dead, Behind

LEMMA TokenStep ==
  ASSUME IInv, TakeToken
  PROVE  IInv'
<1>. PICK s : s = StaleKeys(scan)
  OBVIOUS
<1>1. /\ lexemes >= 0 /\ lexemes \in Int /\ scan.err = "none" /\ Whole(scan, open)
      /\ open \in Stacks /\ follows \in {"any", "blank", "end"} /\ ended \in BOOLEAN
      /\ ended => Dead(scan.keys)
  BY DEF TakeToken, Lives, IInv
<1>2. /\ Shaped(scan)
      /\ Sound(scan.keys, scan.queue, scan.indents, Len(scan.keys) - 1, open)
      /\ Behind(scan.keys, scan.column)
  BY <1>1 DEF Whole
<1>3. /\ Shaped(s) /\ s.column = scan.column /\ s.allowed = scan.allowed
      /\ s.indents = scan.indents /\ s.queue = scan.queue
      /\ s.err = "none" => /\ Fewer(scan.keys, s.keys)
                           /\ Len(s.keys) = Len(scan.keys) /\ Current(s.keys)
  BY <1>2, Stales
<1>4. follows' = follows /\ lexemes' = lexemes /\ ended' = ended
  BY DEF TakeToken
<1>5. lexemes' \in Int /\ lexemes' >= 0 /\ ~ (lexemes' < 0)
      /\ follows' \in {"any", "blank", "end"} /\ ended' \in BOOLEAN
  BY <1>1, <1>4
<1>6. ASSUME open' \in Stacks, Whole(scan', open'), ended' /\ scan'.err = "none" => Dead(scan'.keys)
      PROVE  IInv'
  BY <1>5, <1>6 DEF IInv, Whole, Shaped, Shape, Sound, Dead, Live
<1>7. CASE s.err # "none"
  <2>1. scan' = s /\ open' = open
    BY <1>7 DEF TakeToken
  <2>. QED
    BY <1>1, <1>3, <1>6, <1>7, <2>1 DEF Whole
<1>8. CASE s.err = "none"
  <2>. DEFINE nearer == [i \in DOMAIN s.keys |-> Nearer(s.keys[i])]
  <2>1. /\ scan' = [s EXCEPT !.queue = Tail(s.queue), !.keys = nearer]
        /\ open' = Opened(open, Head(s.queue).kind) /\ s.queue # <<>>
        /\ ~ KeyAtHead(s)
    BY <1>3, <1>8 DEF TakeToken, NeedMore
  <2>2. PICK ls : ls = nearer
    OBVIOUS
  <2>3. PICK r : r = Tail(s.queue)
    OBVIOUS
  <2>. HIDE DEF nearer
  <2>4. /\ Shape(scan') /\ scan'.queue = r /\ scan'.keys = ls /\ scan'.err = "none"
        /\ scan'.column = s.column /\ scan'.allowed = s.allowed /\ scan'.indents = s.indents
    BY <1>3, <1>8, <2>1, <2>2, <2>3 DEF Shaped, Shape
  <2>5. s.keys \in Seq(Simple) /\ Len(s.keys) > 0 /\ s.queue \in Seq(Tokens)
    BY <1>3 DEF Shaped, Typed
  <2>6. \A i \in Nat : 1 <= i /\ i <= Len(s.keys) /\ s.keys[i].possible => s.keys[i].at # 0
    <3>1. ASSUME NEW i \in Nat, 1 <= i, i <= Len(s.keys), s.keys[i].possible
          PROVE  s.keys[i].at # 0
      <4>1. i \in DOMAIN s.keys
        BY <2>5, <3>1
      <4>2. s.keys[i] \in Range(s.keys)
        BY <4>1 DEF Range
      <4>. QED
        BY <1>8, <2>1, <3>1, <4>2 DEF KeyAtHead
    <3>. QED
      BY <3>1
  <2>7. /\ AllNearer(s.keys, ls) /\ ls \in Seq(Simple)
        /\ Dead(s.keys) => Dead(ls)
        /\ \A c : Behind(s.keys, c) => Behind(ls, c)
    BY <2>2, <2>5, <2>6, NearerKeys DEF nearer
  <2>8. /\ r \in Seq(Tokens) /\ Len(s.queue) = Len(r) + 1
        /\ \A i \in Nat : 1 <= i /\ i <= Len(r) => r[i] = s.queue[i + 1]
        /\ s.queue[1] \in Tokens
    <3>1. /\ Tail(s.queue) \in Seq(Tokens) /\ Len(Tail(s.queue)) = Len(s.queue) - 1
          /\ \A i \in 1 .. Len(Tail(s.queue)) : Tail(s.queue)[i] = s.queue[i + 1]
      BY <2>1, <2>5, HeadTailProperties
    <3>2. Len(s.queue) \in Nat /\ Len(s.queue) > 0
      BY <2>1, <2>5
    <3>3. 1 \in 1 .. Len(s.queue)
      BY <3>2
    <3>. QED
      BY <2>3, <2>5, <3>1, <3>2, <3>3, ElementOfSeq
  <2>9. Sound(s.keys, s.queue, s.indents, Len(s.keys) - 1, open)
    <3>1. Sound(s.keys, scan.queue, scan.indents, Len(scan.keys) - 1, open)
      BY <1>2, <1>3, <1>8, FewerSound
    <3>. QED
      BY <1>3, <1>8, <3>1
  <2>10. Typed(ls, r, s.indents) /\ Len(ls) = Len(s.keys)
    <3>1. Len(ls) = Len(s.keys)
      BY <2>7 DEF AllNearer
    <3>. QED
      BY <1>3, <2>5, <2>7, <2>8, <3>1 DEF Shaped, Typed
  <2>11. Sound(ls, r, s.indents, Len(s.keys) - 1, Opened(open, s.queue[1].kind))
    BY <2>6, <2>7, <2>8, <2>9, <2>10, TokenTaken
  <2>12. Head(s.queue) = s.queue[1]
    OBVIOUS
  <2>13. Behind(ls, scan.column) /\ (ended => Dead(ls))
    BY <1>1, <1>2, <1>3, <1>8, <2>7, FewerBehind
  <2>14. Shaped(scan')
    BY <1>3, <2>4, <2>10 DEF Shaped
  <2>15. Whole(scan', open')
    BY <1>3, <2>1, <2>4, <2>10, <2>11, <2>12, <2>13, <2>14 DEF Whole
  <2>16. open' \in Stacks
    <3>1. s.queue[1].kind \in Kinds
      BY <2>8 DEF Tokens
    <3>. QED
      BY <1>1, <2>1, <2>12, <3>1, OpenedStack
  <2>17. ended' => Dead(scan'.keys)
    BY <1>4, <2>4, <2>13
  <2>. QED
    BY <1>6, <2>15, <2>16, <2>17
<1>. QED
  BY <1>7, <1>8

LEMMA StepIInv ==
  ASSUME IInv, [ScannerNext]_scannerVars
  PROVE  IInv'
<1>1. CASE UNCHANGED scannerVars
  BY <1>1 DEF scannerVars, IInv, Whole, Shaped, Shape, Sound, Dead, Live
<1>2. CASE TakeToken
  BY <1>2, TokenStep
<1>3. CASE FetchStreamStart
  BY <1>3, StartFetched
<1>4. CASE FetchNextToken
  <2>. PICK g \in Gaps :
    \/ FetchStreamEnd(g)
    \/ FetchDirective(g)
    \/ \E kind \in {"DOCUMENT-START", "DOCUMENT-END"} : FetchDocumentIndicator(g, kind)
    \/ \E kind \in DOMAIN FlowEnd : FetchFlowStart(g, kind)
    \/ \E kind \in DOMAIN FlowEnd : FetchFlowEnd(g, FlowEnd[kind])
    \/ FetchFlowEntry(g)
    \/ FetchBlockEntry(g)
    \/ FetchKey(g)
    \/ FetchValue(g)
    \/ FetchAnchor(g)
    \/ \E to \in Ends : FetchBlockScalar(g, to)
    \/ \E to \in Ends : FetchFlowScalar(g, to)
    \/ \E to \in Ends : FetchPlainScalar(g, to)
    \/ FetchNothing(g)
    BY <1>4 DEF FetchNextToken
  <2>1. CASE FetchStreamEnd(g)
    BY <2>1, EndFetched
  <2>2. CASE FetchDirective(g)
    BY <2>2, DirectiveFetched
  <2>3. CASE \E kind \in {"DOCUMENT-START", "DOCUMENT-END"} : FetchDocumentIndicator(g, kind)
    BY <2>3, DocumentFetched
  <2>4. CASE \E kind \in DOMAIN FlowEnd : FetchFlowStart(g, kind)
    BY <2>4, FlowStartFetched, FlowKinds
  <2>5. CASE \E kind \in DOMAIN FlowEnd : FetchFlowEnd(g, FlowEnd[kind])
    BY <2>5, FlowEndFetched, FlowKinds
  <2>6. CASE FetchFlowEntry(g)
    BY <2>6, FlowEntryFetched
  <2>7. CASE FetchBlockEntry(g)
    BY <2>7, BlockEntryFetched
  <2>8. CASE FetchKey(g)
    BY <2>8, KeyFetched
  <2>9. CASE FetchValue(g)
    BY <2>9, ValueFetched
  <2>10. CASE FetchAnchor(g)
    BY <2>10, AnchorFetched
  <2>11. CASE \E to \in Ends : FetchBlockScalar(g, to)
    BY <2>11, ScalarFetched
  <2>12. CASE \E to \in Ends : FetchFlowScalar(g, to)
    BY <2>12, ScalarFetched
  <2>13. CASE \E to \in Ends : FetchPlainScalar(g, to)
    BY <2>13, ScalarFetched
  <2>14. CASE FetchNothing(g)
    BY <2>14, NothingFetched
  <2>. QED
    BY <2>1, <2>2, <2>3, <2>4, <2>5, <2>6, <2>7, <2>8, <2>9, <2>10, <2>11, <2>12, <2>13, <2>14
<1>. QED
  BY <1>1, <1>2, <1>3, <1>4 DEF ScannerNext

LEMMA TypesFollow ==
  ASSUME IInv
  PROVE  ScannerTypeOK
<1>1. CASE lexemes < 0
  <2>1. /\ scan = [column |-> 0, allowed |-> FALSE, indents |-> <<>>, keys |-> <<>>,
                   queue |-> <<>>, err |-> "none"]
    BY <1>1 DEF IInv
  <2>2. scan.column \in Nat /\ scan.allowed \in BOOLEAN /\ scan.keys = <<>>
    BY <2>1
  <2>3. Range(scan.keys) = {}
    BY <2>2 DEF Range
  <2>. QED
    BY <2>2, <2>3 DEF IInv, ScannerTypeOK
<1>2. CASE lexemes >= 0
  <2>1. Shaped(scan)
    BY <1>2 DEF IInv, Whole
  <2>2. scan.column \in Nat /\ scan.allowed \in BOOLEAN /\ scan.keys \in Seq(Simple)
    BY <2>1 DEF Shaped, Typed
  <2>3. ASSUME NEW k \in Range(scan.keys) PROVE k.at \in Nat /\ k.possible \in BOOLEAN
    <3>1. PICK i \in DOMAIN scan.keys : k = scan.keys[i]
      BY DEF Range
    <3>2. k \in Simple
      BY <2>2, <3>1, ElementOfSeq
    <3>. QED
      BY <3>2 DEF Simple
  <2>. QED
    BY <2>2, <2>3 DEF IInv, ScannerTypeOK
<1>. QED
  BY <1>1, <1>2 DEF IInv

LEMMA KeysFollow ==
  ASSUME IInv
  PROVE  KeysInQueue
<1>1. CASE lexemes < 0
  <2>1. scan.keys = <<>>
    BY <1>1 DEF IInv
  <2>. QED
    BY <2>1 DEF KeysInQueue
<1>2. CASE lexemes >= 0
  <2>. SUFFICES ASSUME scan.err = "none", NEW i \in DOMAIN scan.keys, scan.keys[i].possible
                PROVE  /\ scan.keys[i].at \in 0 .. Len(scan.queue) - 1
                       /\ scan.queue[scan.keys[i].at + 1].column = scan.keys[i].column
                       /\ scan.queue[scan.keys[i].at + 1].kind
                            \in {"SCALAR", "ANCHOR"} \cup DOMAIN FlowEnd
                       /\ \A j \in 1 .. i - 1 : scan.keys[j].possible =>
                            scan.keys[j].at < scan.keys[i].at
    BY DEF KeysInQueue
  <2>1. Shaped(scan) /\ Placed(scan.keys, scan.queue)
    BY <1>2, SoundParts DEF IInv, Whole
  <2>2. /\ scan.keys \in Seq(Simple) /\ KeysTyped(scan.keys) /\ Len(scan.queue) \in Nat
    BY <2>1, TypedParts DEF Shaped, Typed
  <2>3. i \in Nat /\ 1 <= i /\ i <= Len(scan.keys)
    BY <2>2
  <2>4. scan.keys[i].at \in Nat
    BY <2>2, <2>3 DEF KeysTyped
  <2>5. /\ scan.keys[i].at < Len(scan.queue)
        /\ scan.queue[scan.keys[i].at + 1].column = scan.keys[i].column
        /\ scan.queue[scan.keys[i].at + 1].kind \in Keyable
        /\ \A j \in Nat : 1 <= j /\ j < i /\ scan.keys[j].possible =>
             scan.keys[j].at < scan.keys[i].at
    BY <2>1, <2>3 DEF Placed
  <2>6. scan.keys[i].at \in 0 .. Len(scan.queue) - 1
    BY <2>2, <2>4, <2>5
  <2>7. Keyable = {"SCALAR", "ANCHOR"} \cup DOMAIN FlowEnd
    BY FlowKinds DEF Keyable
  <2>8. \A j \in 1 .. i - 1 : j \in Nat /\ 1 <= j /\ j < i
    BY <2>3
  <2>. QED
    BY <2>5, <2>6, <2>7, <2>8
<1>. QED
  BY <1>1, <1>2 DEF IInv

LEMMA NestingFollows ==
  ASSUME IInv
  PROVE  BlocksNest
<1>1. SUFFICES ASSUME scan.err = "none", lexemes >= 0,
                      OpenAfter(scan.queue, open) # <<"refused">>
               PROVE  Nested(OpenAfter(scan.queue, open), scan.indents)
  BY DEF BlocksNest, OpenAfter, Nested
<1>2. Sound(scan.keys, scan.queue, scan.indents, Len(scan.keys) - 1, open) /\ open \in Stacks
  BY <1>1 DEF IInv, Whole
<1>. QED
  BY <1>1, <1>2, SoundNests

LEMMA EndFollows ==
  ASSUME IInv
  PROVE  EndIsEnd
<1>. SUFFICES ASSUME ended, scan.err = "none", scan.queue # <<>>
              PROVE  ~ NeedMore
  BY DEF EndIsEnd
<1>1. lexemes >= 0 /\ Whole(scan, open) /\ Dead(scan.keys)
  BY DEF IInv
<1>. PICK s : s = StaleKeys(scan)
  OBVIOUS
<1>2. /\ Shaped(s)
      /\ s.err = "none" => Fewer(scan.keys, s.keys) /\ Current(s.keys)
  BY <1>1, Stales DEF Whole
<1>3. ~ KeyAtHead(s)
  <2>1. SUFFICES ASSUME s.err = "none", NEW k \in Range(s.keys), k.possible PROVE FALSE
    BY DEF KeyAtHead
  <2>2. PICK i \in DOMAIN s.keys : k = s.keys[i]
    BY DEF Range
  <2>3. s.keys \in Seq(Simple)
    BY <1>2 DEF Shaped, Typed
  <2>4. i \in Nat /\ 1 <= i /\ i <= Len(s.keys)
    BY <2>3
  <2>5. Dead(s.keys)
    BY <1>1, <1>2, <2>1, FewerBehind
  <2>. QED
    BY <1>2, <2>1, <2>2, <2>4, <2>5 DEF Dead, Current, Live
<1>. QED
  BY <1>3 DEF NeedMore

\* Whatever the text: the scanner keeps the types of its state, every possible
\* simple key has its token in the queue, where KEY can be put before it, block
\* collections open and close at their indentation, and nothing is fetched
\* after STREAM-END (yaml_parser_fetch_more_tokens and the fetchers).
THEOREM ScannerCorrect == ScannerSpec => []ScannerInv
<1>1. ScannerInit => IInv
  BY InitIInv
<1>2. IInv /\ [ScannerNext]_scannerVars => IInv'
  BY StepIInv
<1>3. IInv => ScannerInv
  BY TypesFollow, KeysFollow, NestingFollows, EndFollows DEF ScannerInv
<1>. QED
  BY <1>1, <1>2, <1>3, PTL DEF ScannerSpec

----------------------------------------------------------------------------
(* Where the parser is, and what decode.go has under construction there     *)

NoDocument == {"STREAM-START", "IMPLICIT-DOCUMENT-START", "DOCUMENT-START", "DIRECTIVES", "END"}
NodePlaces == {"BLOCK-NODE", "NODE", "DOCUMENT-CONTENT"}
InSequence == {"BLOCK-SEQUENCE-FIRST", "BLOCK-SEQUENCE", "BlockEntry",
               "INDENTLESS-SEQUENCE", "IndentlessEntry",
               "FLOW-SEQUENCE-FIRST", "FLOW-SEQUENCE-BEGIN", "FLOW-SEQUENCE",
               "FLOW-SEQUENCE-ITEM"}
AtKey == {"BLOCK-MAPPING-FIRST", "BLOCK-MAPPING", "BlockKey",
          "FLOW-MAPPING-FIRST", "FLOW-MAPPING-BEGIN", "FLOW-MAPPING", "FLOW-MAPPING-ITEM",
          "FlowKey", "PairKey", "PAIR-END"}
AtValue == {"BLOCK-MAPPING-VALUE", "BlockValue", "FLOW-MAPPING-VALUE", "FlowValue",
            "FLOW-MAPPING-EMPTY-VALUE", "PAIR-VALUE", "PairValue"}
Pairs == {"PairKey", "PAIR-VALUE", "PairValue", "PAIR-END"}
Collections == InSequence \cup AtKey \cup AtValue
Frames == Collections \cup {"DOCUMENT-CONTENT", "DOCUMENT-END"}
Unmarked == {"BLOCK-SEQUENCE-FIRST", "FLOW-SEQUENCE-FIRST", "BLOCK-MAPPING-FIRST",
             "FLOW-MAPPING-FIRST", "INDENTLESS-SEQUENCE", "IndentlessEntry",
             "DOCUMENT-CONTENT", "DOCUMENT-END"}
Returns == {"DOCUMENT-END", "BLOCK-SEQUENCE", "INDENTLESS-SEQUENCE", "BLOCK-MAPPING-VALUE",
            "BLOCK-MAPPING", "PAIR-VALUE", "PAIR-END", "FLOW-MAPPING-VALUE", "FLOW-MAPPING",
            "FLOW-SEQUENCE", "FLOW-MAPPING-EMPTY-VALUE"}
Loops == {"document", "full", "sequence", "key", "value"}

\* The loop of decode.go at a place, the loops of the place, and its marks.
Loop(x) == IF x \in InSequence THEN "sequence" ELSE IF x \in AtKey THEN "key"
           ELSE IF x \in AtValue THEN "value"
           ELSE IF x = "DOCUMENT-END" THEN "full" ELSE "document"
Loopings(x) == IF x \in Pairs THEN 2 ELSE 1
Markings(x) == IF x \in Unmarked THEN 0 ELSE 1

\* What a loop is after one more child.
Upon(l) == IF l = "document" THEN "full" ELSE IF l = "key" THEN "value"
           ELSE IF l = "value" THEN "key" ELSE l

\* Where the parser was when it called for a node, by where it goes on.
Awaits(r) == CASE r = "DOCUMENT-END" -> "DOCUMENT-CONTENT"
               [] r = "BLOCK-SEQUENCE" -> "BlockEntry"
               [] r = "INDENTLESS-SEQUENCE" -> "IndentlessEntry"
               [] r = "BLOCK-MAPPING-VALUE" -> "BlockKey"
               [] r = "BLOCK-MAPPING" -> "BlockValue"
               [] r = "PAIR-VALUE" -> "PairKey"
               [] r = "PAIR-END" -> "PairValue"
               [] r = "FLOW-MAPPING-VALUE" -> "FlowKey"
               [] r = "FLOW-MAPPING" -> "FlowValue"
               [] r = "FLOW-SEQUENCE" -> "FLOW-SEQUENCE-ITEM"
               [] r = "FLOW-MAPPING-EMPTY-VALUE" -> "FLOW-MAPPING-ITEM"

LEMMA PlaceKinds ==
  ASSUME NEW r \in Returns
  PROVE  /\ Awaits(r) \in Frames /\ r \in Frames
         /\ Loopings(Awaits(r)) = Loopings(r)
         /\ Markings(Awaits(r)) = Markings(r)
         /\ Loop(r) = Upon(Loop(Awaits(r))) /\ Loop(Awaits(r)) # "full"
         /\ r \in Collections \/ r = "DOCUMENT-END"
BY DEF Returns, Awaits, Frames, Collections, Loopings, Markings, Loop, Upon, InSequence,
       AtKey, AtValue, Pairs, Unmarked

LEMMA FrameKinds ==
  ASSUME NEW x \in Frames
  PROVE  /\ Loop(x) \in Loops /\ Loopings(x) \in {1, 2} /\ Markings(x) \in {0, 1}
         /\ x \in Pairs => Loopings(x) = 2
BY DEF Frames, Loop, Loops, Loopings, Markings

----------------------------------------------------------------------------
(* The layers of building, one for each collection the parser is in         *)

\* t has k elements more than s, behind those of s.
More(s, t, k) == /\ Len(t) = Len(s) + k
                 /\ \A i \in Nat : 1 <= i /\ i <= Len(s) => t[i] = s[i]

\* p[i] loops of building and f[i] marks are in the first i layers.
Layers(fr, b, m, p, f) ==
  /\ p[0] = 0 /\ p[Len(fr)] = Len(b) /\ f[0] = 0 /\ f[Len(fr)] = m
  /\ \A i \in Nat : i < Len(fr) =>
       /\ p[i + 1] = p[i] + Loopings(fr[i + 1])
       /\ f[i + 1] = f[i] + Markings(fr[i + 1])
       /\ b[p[i + 1]] = Loop(fr[i + 1])
       /\ fr[i + 1] \in Pairs => b[p[i] + 1] = "sequence"
  /\ \A i, j \in Nat : i < j /\ j <= Len(fr) => p[i] < p[j]
Pile(fr, b, m) == \E p, f \in Counters : Layers(fr, b, m, p, f)

LEMMA Less ==
  ASSUME NEW S, NEW s \in Seq(S), NEW k \in Nat, k <= Len(s)
  PROVE  \E r \in Seq(S) : More(r, s, k)
<1>0. Len(s) \in Nat
  OBVIOUS
<1>. PICK n \in Nat : n = Len(s) - k
  BY <1>0
<1>1. \A i \in 1 .. n : s[i] \in S
  BY ElementOfSeq
<1>2. PICK r : r = SubSeq(s, 1, n)
  OBVIOUS
<1>3. /\ r \in Seq(S) /\ Len(r) = IF 1 <= n THEN n - 1 + 1 ELSE 0
      /\ \A i \in 1 .. n - 1 + 1 : r[i] = s[1 + i - 1]
  BY <1>1, <1>2, SubSeqProperties
<1>4. Len(r) = n /\ \A i \in Nat : 1 <= i /\ i <= n => r[i] = s[i]
  BY <1>3
<1>5. Len(s) = n + k
  BY <1>0
<1>. QED
  BY <1>3, <1>4, <1>5 DEF More

\* What the last layer is.
LEMMA PileLast ==
  ASSUME NEW fr \in Seq(Frames), NEW b \in Seq(Loops), NEW m, Pile(fr, b, m),
         NEW n \in Nat, Len(fr) = n + 1, NEW x, x = fr[n + 1]
  PROVE  /\ x \in Frames /\ m \in Nat /\ Markings(x) <= m /\ Loopings(x) <= Len(b)
         /\ b[Len(b)] = Loop(x)
         /\ x \in Pairs => b[Len(b) - 1] = "sequence"
<1>1. PICK p \in Counters, f \in Counters : Layers(fr, b, m, p, f)
  BY DEF Pile
<1>2. p[n] \in Nat /\ f[n] \in Nat /\ f[n + 1] \in Nat
  <2>1. n + 1 \in Nat
    OBVIOUS
  <2>. QED
    BY <2>1 DEF Counters
<1>3. x \in Frames
  BY ElementOfSeq
<1>4. /\ p[n + 1] = p[n] + Loopings(x) /\ f[n + 1] = f[n] + Markings(x)
      /\ b[p[n + 1]] = Loop(x)
      /\ x \in Pairs => b[p[n] + 1] = "sequence"
      /\ p[n + 1] = Len(b) /\ f[n + 1] = m
  <2>1. n < n + 1
    OBVIOUS
  <2>. QED
    BY <1>1, <2>1 DEF Layers
<1>5. x \in Pairs => Len(b) - 1 = p[n] + 1
  BY <1>2, <1>3, <1>4, FrameKinds
<1>. QED
  BY <1>2, <1>3, <1>4, <1>5, FrameKinds

LEMMA PileCut ==
  ASSUME NEW fr \in Seq(Frames), NEW gr \in Seq(Frames),
         NEW b \in Seq(Loops), NEW c \in Seq(Loops), NEW m, Pile(fr, b, m),
         NEW n \in Nat, Len(gr) = n, More(gr, fr, 1), NEW x, x = fr[n + 1],
         More(c, b, Loopings(x))
  PROVE  Pile(gr, c, m - Markings(x))
<1>1. PICK p \in Counters, f \in Counters : Layers(fr, b, m, p, f)
  BY DEF Pile
<1>2. Len(fr) = n + 1 /\ \A i \in Nat : 1 <= i /\ i <= n => gr[i] = fr[i]
  BY DEF More
<1>3. x \in Frames
  BY <1>2, ElementOfSeq
<1>4. \A i \in Nat : p[i] \in Nat /\ f[i] \in Nat
  BY DEF Counters
<1>5. /\ p[n + 1] = p[n] + Loopings(x) /\ f[n + 1] = f[n] + Markings(x)
      /\ p[n + 1] = Len(b) /\ f[n + 1] = m /\ p[0] = 0 /\ f[0] = 0
  BY <1>1, <1>2 DEF Layers
<1>. PICK l \in Nat : l = Len(c)
  OBVIOUS
<1>6. Len(b) = l + Loopings(x) /\ \A i \in Nat : 1 <= i /\ i <= l => c[i] = b[i]
  BY DEF More
<1>7. p[n] = l /\ f[n] = m - Markings(x)
  <2>1. PICK w \in Nat, u \in Nat : w = Loopings(x) /\ u = Markings(x)
    BY <1>3, FrameKinds
  <2>2. p[n] \in Nat /\ f[n] \in Nat
    BY <1>4
  <2>. QED
    BY <1>5, <1>6, <2>1, <2>2, SMTT(20)
<1>8. \A i, j \in Nat : i < j /\ j <= n => p[i] < p[j]
  BY <1>1, <1>2 DEF Layers
<1>9. ASSUME NEW i \in Nat, i < n
      PROVE  /\ p[i + 1] = p[i] + Loopings(gr[i + 1])
             /\ f[i + 1] = f[i] + Markings(gr[i + 1])
             /\ c[p[i + 1]] = Loop(gr[i + 1])
             /\ gr[i + 1] \in Pairs => c[p[i] + 1] = "sequence"
  <2>1. i + 1 \in Nat /\ 1 <= i + 1 /\ i + 1 <= n /\ i < n + 1 /\ gr[i + 1] = fr[i + 1]
    BY <1>2, <1>9
  <2>2. /\ p[i + 1] = p[i] + Loopings(fr[i + 1])
        /\ f[i + 1] = f[i] + Markings(fr[i + 1])
        /\ b[p[i + 1]] = Loop(fr[i + 1])
        /\ fr[i + 1] \in Pairs => b[p[i] + 1] = "sequence"
    BY <1>1, <1>2, <2>1 DEF Layers
  <2>3. p[i + 1] <= l
    <3>1. CASE i + 1 = n
      BY <1>7, <3>1
    <3>2. CASE i + 1 < n
      <4>1. PICK u \in Nat : u = i + 1 /\ u < n
        BY <2>1, <3>2
      <4>2. p[u] < p[n]
        BY <1>8, <4>1
      <4>. QED
        BY <1>4, <1>7, <4>1, <4>2
    <3>. QED
      BY <2>1, <3>1, <3>2
  <2>4. p[i] < p[i + 1]
    BY <1>8, <2>1
  <2>5. c[p[i + 1]] = b[p[i + 1]] /\ c[p[i] + 1] = b[p[i] + 1]
    <3>1. p[i] \in Nat /\ p[i + 1] \in Nat
      BY <1>4, <2>1
    <3>2. 1 <= p[i + 1] /\ p[i] + 1 \in Nat /\ 1 <= p[i] + 1 /\ p[i] + 1 <= l
      BY <2>3, <2>4, <3>1
    <3>. QED
      BY <1>6, <2>3, <3>1, <3>2
  <2>. QED
    BY <2>1, <2>2, <2>5
<1>10. Layers(gr, c, m - Markings(x), p, f)
  BY <1>5, <1>7, <1>8, <1>9 DEF Layers
<1>. QED
  BY <1>10 DEF Pile

LEMMA PileGrow ==
  ASSUME NEW fr \in Seq(Frames), NEW gr \in Seq(Frames),
         NEW b \in Seq(Loops), NEW c \in Seq(Loops), NEW m \in Nat, Pile(gr, c, m),
         NEW n \in Nat, Len(gr) = n, More(gr, fr, 1), NEW x, x = fr[n + 1],
         More(c, b, Loopings(x)), b[Len(b)] = Loop(x),
         x \in Pairs => b[Len(c) + 1] = "sequence"
  PROVE  Pile(fr, b, m + Markings(x))
<1>1. PICK p \in Counters, f \in Counters : Layers(gr, c, m, p, f)
  BY DEF Pile
<1>2. Len(fr) = n + 1 /\ \A i \in Nat : 1 <= i /\ i <= n => gr[i] = fr[i]
  BY DEF More
<1>3. x \in Frames
  BY <1>2, ElementOfSeq
<1>4. \A i \in Nat : p[i] \in Nat /\ f[i] \in Nat
  BY DEF Counters
<1>. PICK l \in Nat : l = Len(c)
  OBVIOUS
<1>. PICK w \in Nat : w = Loopings(x)
  BY <1>3, FrameKinds
<1>. PICK u \in Nat : u = Markings(x)
  BY <1>3, FrameKinds
<1>5. /\ p[n] = l /\ f[n] = m /\ p[0] = 0 /\ f[0] = 0
      /\ \A i, j \in Nat : i < j /\ j <= n => p[i] < p[j]
  BY <1>1 DEF Layers
<1>6. Len(b) = l + w /\ \A i \in Nat : 1 <= i /\ i <= l => c[i] = b[i]
  BY DEF More
<1>7. 1 <= w
  BY <1>3, FrameKinds
<1>. DEFINE q == [i \in Nat |-> IF i <= n THEN p[i] ELSE l + w]
            g == [i \in Nat |-> IF i <= n THEN f[i] ELSE m + u]
<1>8. q \in Counters /\ g \in Counters
  <2>1. \A i \in Nat : (IF i <= n THEN p[i] ELSE l + w) \in Nat
    BY <1>4
  <2>2. \A i \in Nat : (IF i <= n THEN f[i] ELSE m + u) \in Nat
    BY <1>4
  <2>. QED
    BY <2>1, <2>2 DEF Counters
<1>9. /\ \A i \in Nat : i <= n => q[i] = p[i] /\ g[i] = f[i]
      /\ q[n + 1] = l + w /\ g[n + 1] = m + u
  OBVIOUS
<1>. HIDE DEF q, g
<1>10. ASSUME NEW i \in Nat, NEW j \in Nat, i < j, j <= n + 1 PROVE q[i] < q[j]
  <2>1. CASE j <= n
    BY <1>5, <1>9, <1>10, <2>1
  <2>2. CASE j = n + 1
    <3>1. i <= n
      BY <1>10
    <3>2. p[i] <= l
      <4>1. CASE i = n
        BY <1>5, <4>1
      <4>2. CASE i < n
        <5>1. p[i] < p[n]
          BY <1>5, <4>2
        <5>. QED
          BY <1>4, <1>5, <5>1
      <4>. QED
        BY <3>1, <4>1, <4>2
    <3>3. q[i] = p[i] /\ q[j] = l + w /\ p[i] \in Nat
      BY <1>4, <1>9, <2>2, <3>1
    <3>. QED
      BY <1>7, <3>2, <3>3
  <2>. QED
    BY <1>10, <2>1, <2>2
<1>11. ASSUME NEW i \in Nat, i < n + 1
       PROVE  /\ q[i + 1] = q[i] + Loopings(fr[i + 1])
              /\ g[i + 1] = g[i] + Markings(fr[i + 1])
              /\ b[q[i + 1]] = Loop(fr[i + 1])
              /\ fr[i + 1] \in Pairs => b[q[i] + 1] = "sequence"
  <2>1. CASE i = n
    <3>1. q[i] = l /\ g[i] = m /\ q[i + 1] = l + w /\ g[i + 1] = m + u
      BY <1>5, <1>9, <2>1, SMTT(20)
    <3>2. fr[i + 1] = x
      BY <2>1
    <3>. QED
      BY <1>6, <3>1, <3>2
  <2>2. CASE i < n
    <3>1. /\ i + 1 \in Nat /\ 1 <= i + 1 /\ i + 1 <= n /\ i <= n
          /\ gr[i + 1] = fr[i + 1]
      BY <1>2, <2>2
    <3>2. /\ p[i + 1] = p[i] + Loopings(gr[i + 1])
          /\ f[i + 1] = f[i] + Markings(gr[i + 1])
          /\ c[p[i + 1]] = Loop(gr[i + 1])
          /\ gr[i + 1] \in Pairs => c[p[i] + 1] = "sequence"
      BY <1>1, <2>2 DEF Layers
    <3>3. p[i + 1] <= l
      <4>1. CASE i + 1 = n
        BY <1>5, <4>1
      <4>2. CASE i + 1 < n
        <5>1. p[i + 1] < p[n]
          BY <1>5, <3>1, <4>2
        <5>. QED
          BY <1>4, <1>5, <3>1, <5>1
      <4>. QED
        BY <3>1, <4>1, <4>2
    <3>4. p[i] < p[i + 1]
      BY <1>5, <3>1
    <3>5. c[p[i + 1]] = b[p[i + 1]] /\ c[p[i] + 1] = b[p[i] + 1]
      <4>1. p[i] \in Nat /\ p[i + 1] \in Nat
        BY <1>4, <3>1
      <4>2. 1 <= p[i + 1] /\ p[i] + 1 \in Nat /\ 1 <= p[i] + 1 /\ p[i] + 1 <= l
        BY <3>3, <3>4, <4>1, SMTT(20)
      <4>. QED
        BY <1>6, <3>3, <4>1, <4>2
    <3>6. q[i] = p[i] /\ q[i + 1] = p[i + 1] /\ g[i] = f[i] /\ g[i + 1] = f[i + 1]
      BY <1>9, <3>1
    <3>. QED
      BY <3>1, <3>2, <3>5, <3>6
  <2>. QED
    BY <1>11, <2>1, <2>2
<1>12. q[0] = 0 /\ g[0] = 0
  BY <1>5, <1>9, SMTT(20)
<1>13. Layers(fr, b, m + u, q, g)
  BY <1>2, <1>6, <1>9, <1>10, <1>11, <1>12 DEF Layers
<1>. QED
  BY <1>8, <1>13 DEF Pile

\* The last layer becomes another one, with as many loops.
LEMMA PileSwap ==
  ASSUME NEW fr \in Seq(Frames), NEW gr \in Seq(Frames),
         NEW b \in Seq(Loops), NEW c \in Seq(Loops), NEW m, Pile(fr, b, m),
         NEW n \in Nat, Len(fr) = n + 1, Len(gr) = n + 1,
         \A i \in Nat : 1 <= i /\ i <= n => gr[i] = fr[i],
         NEW x, x = fr[n + 1], NEW y, y = gr[n + 1], Loopings(x) = Loopings(y),
         Len(c) = Len(b),
         \A i \in Nat : 1 <= i /\ i < Len(b) => c[i] = b[i],
         c[Len(c)] = Loop(y)
  PROVE  Pile(gr, c, (m - Markings(x)) + Markings(y))
<1>1. /\ x \in Frames /\ m \in Nat /\ Markings(x) <= m /\ Loopings(x) <= Len(b)
      /\ x \in Pairs => b[Len(b) - 1] = "sequence"
  BY PileLast
<1>2. y \in Frames
  BY ElementOfSeq
<1>. PICK w \in Nat : w = Loopings(x) /\ 1 <= w /\ (y \in Pairs => w = 2)
  BY <1>1, <1>2, FrameKinds
<1>. PICK l \in Nat : l = m - Markings(x)
  BY <1>1, FrameKinds
<1>3. PICK hr \in Seq(Frames) : More(hr, fr, 1)
  <2>1. 1 <= Len(fr) /\ 1 \in Nat
    OBVIOUS
  <2>. QED
    BY <2>1, Less
<1>4. PICK d \in Seq(Loops) : More(d, b, w)
  BY <1>1, Less
<1>5. Len(hr) = n /\ \A i \in Nat : 1 <= i /\ i <= n => fr[i] = hr[i]
  <2>1. Len(hr) \in Nat
    OBVIOUS
  <2>. QED
    BY <1>3, <2>1 DEF More
<1>6. Pile(hr, d, l)
  BY <1>3, <1>4, <1>5, PileCut
<1>7. More(hr, gr, 1)
  BY <1>5 DEF More
<1>8. /\ Len(d) \in Nat /\ Len(b) = Len(d) + w
      /\ \A i \in Nat : 1 <= i /\ i <= Len(d) => b[i] = d[i]
  BY <1>4 DEF More
<1>9. More(d, c, w)
  BY <1>8 DEF More
<1>10. x \in Pairs <=> y \in Pairs
  BY DEF Loopings
<1>11. y \in Pairs => c[Len(d) + 1] = "sequence"
  <2>1. SUFFICES ASSUME y \in Pairs PROVE c[Len(d) + 1] = "sequence"
    OBVIOUS
  <2>2. Len(b) - 1 = Len(d) + 1 /\ Len(d) + 1 \in Nat /\ 1 <= Len(d) + 1 /\ Len(d) + 1 < Len(b)
    BY <1>8, <2>1
  <2>. QED
    BY <1>1, <1>10, <2>1, <2>2
<1>12. Pile(gr, c, l + Markings(y))
  BY <1>5, <1>6, <1>7, <1>9, <1>11, PileGrow
<1>. QED
  BY <1>12

----------------------------------------------------------------------------
(* The stacks as sequences                                                  *)

LEMMA FrontLess ==
  ASSUME NEW S, NEW s \in Seq(S), Len(s) # 0
  PROVE  /\ Front(s) \in Seq(S) /\ More(Front(s), s, 1) /\ Last(s) = s[Len(s)]
         /\ Last(s) \in S /\ s # <<>>
<1>1. Len(s) \in Nat
  OBVIOUS
<1>. PICK n \in Nat : Len(s) = n + 1
  BY <1>1
<1>2. \A i \in 1 .. n + 1 : s[i] \in S
  BY ElementOfSeq
<1>. PICK r : r = Front(s)
  OBVIOUS
<1>3. r = SubSeq(s, 1, n)
  <2>1. Len(s) - 1 = n
    OBVIOUS
  <2>. QED
    BY <2>1 DEF Front
<1>4. /\ r \in Seq(S) /\ Len(r) = IF 1 <= n THEN n - 1 + 1 ELSE 0
      /\ \A i \in 1 .. n - 1 + 1 : r[i] = s[1 + i - 1]
  BY <1>2, <1>3, SubSeqProperties
<1>5. More(r, s, 1)
  BY <1>4 DEF More
<1>6. Last(s) = s[Len(s)] /\ n + 1 \in 1 .. n + 1
  BY DEF Last
<1>7. s # <<>>
  BY EmptySeq
<1>. QED
  BY <1>2, <1>4, <1>5, <1>6, <1>7

\* c is b with its last loop after one more child.
Grown(b, c) == /\ Len(c) = Len(b)
               /\ \A i \in Nat : 1 <= i /\ i < Len(b) => c[i] = b[i]
               /\ c[Len(c)] = Upon(b[Len(b)])

LEMMA CountedGrown ==
  ASSUME NEW b \in Seq(Loops), Len(b) # 0, b[Len(b)] # "full"
  PROVE  Counted(b) \in Seq(Loops) /\ Grown(b, Counted(b))
<1>1. PICK a \in Seq(Loops) : a = Front(b) /\ More(a, b, 1)
  BY FrontLess
<1>2. PICK l \in Loops : l = Last(b) /\ l = b[Len(b)]
  BY FrontLess
<1>3. b # <<>> /\ Len(a) \in Nat /\ Len(b) = Len(a) + 1
  BY <1>1, FrontLess DEF More
<1>4. ASSUME NEW e \in Loops, e = Upon(l)
      PROVE  a \o <<e>> \in Seq(Loops) /\ Grown(b, a \o <<e>>)
  <2>1. PICK c : c = Append(a, e)
    OBVIOUS
  <2>2. /\ c \in Seq(Loops) /\ Len(c) = Len(a) + 1 /\ c[Len(a) + 1] = e
        /\ \A i \in Nat : 1 <= i /\ i <= Len(a) => c[i] = a[i]
    BY <1>4, <2>1, Appended
  <2>3. Grown(b, c)
    BY <1>1, <1>2, <1>3, <1>4, <2>2 DEF Grown, More
  <2>4. a \o <<e>> = Append(a, e)
    OBVIOUS
  <2>. QED
    BY <2>1, <2>2, <2>3, <2>4
<1>5. CASE l = "document"
  <2>1. PICK e \in Loops : e = "full"
    BY DEF Loops
  <2>2. Counted(b) = a \o <<e>>
    BY <1>1, <1>2, <1>3, <1>5, <2>1 DEF Counted
  <2>3. e = Upon(l)
    BY <1>5, <2>1 DEF Upon
  <2>. QED
    BY <1>4, <2>2, <2>3
<1>6. CASE l = "key"
  <2>1. PICK e \in Loops : e = "value"
    BY DEF Loops
  <2>2. Counted(b) = a \o <<e>>
    BY <1>1, <1>2, <1>3, <1>6, <2>1 DEF Counted
  <2>3. e = Upon(l)
    BY <1>6, <2>1 DEF Upon
  <2>. QED
    BY <1>4, <2>2, <2>3
<1>7. CASE l = "value"
  <2>1. PICK e \in Loops : e = "key"
    BY DEF Loops
  <2>2. Counted(b) = a \o <<e>>
    BY <1>1, <1>2, <1>3, <1>7, <2>1 DEF Counted
  <2>3. e = Upon(l)
    BY <1>7, <2>1 DEF Upon
  <2>. QED
    BY <1>4, <2>2, <2>3
<1>8. CASE l = "sequence"
  <2>1. Counted(b) = b
    BY <1>2, <1>3, <1>8 DEF Counted
  <2>2. Upon(l) = l
    BY <1>8 DEF Upon
  <2>. QED
    BY <1>2, <2>1, <2>2 DEF Grown
<1>. QED
  BY <1>2, <1>5, <1>6, <1>7, <1>8 DEF Loops

----------------------------------------------------------------------------
(* The layers of a state of the parser                                      *)

\* The layers of the states to return to and of the current one; one that waits
\* for a node is still at the place that called for it.
Framed(fr, sts, st) ==
  /\ fr \in Seq(Frames) /\ sts \in Seq(Returns)
  /\ \A i \in Nat : 1 <= i /\ i <= Len(sts) => (sts[i] = "DOCUMENT-END" <=> i = 1)
  /\ st \in NoDocument \cup NodePlaces \cup Collections \cup {"DOCUMENT-END"}
  /\ st \in NoDocument => Len(sts) = 0 /\ Len(fr) = 0
  /\ st \in NodePlaces =>
       /\ Len(sts) # 0 /\ Len(fr) = Len(sts)
       /\ fr[Len(sts)] = Awaits(sts[Len(sts)])
       /\ \A i \in Nat : 1 <= i /\ i < Len(sts) => fr[i] = sts[i]
  /\ st \in Collections \cup {"DOCUMENT-END"} =>
       /\ More(sts, fr, 1) /\ fr[Len(sts) + 1] = st
       /\ st = "DOCUMENT-END" <=> Len(sts) = 0
Layered(sts, st, b, m) ==
  b \in Seq(Loops) /\ \E fr : Framed(fr, sts, st) /\ Pile(fr, b, m)

LEMMA ReturnsFrames ==
  ASSUME NEW s \in Seq(Returns)
  PROVE  s \in Seq(Frames)
<1>1. Returns \subseteq Frames
  BY PlaceKinds
<1>. QED
  BY <1>1

LEMMA LoopsCollected ==
  ASSUME NEW x \in Collections
  PROVE  x \in Frames /\ Loop(x) \in {"sequence", "key", "value"}
BY DEF Collections, Frames, Loop

LEMMA PlacesApart ==
  /\ \A st \in Collections \cup {"DOCUMENT-END"} : st \notin NoDocument /\ st \notin NodePlaces
  /\ \A st \in NodePlaces : st \notin NoDocument
  /\ "DOCUMENT-END" \notin Collections
BY DEF Collections, NoDocument, NodePlaces, InSequence, AtKey, AtValue

LEMMA PileTyped ==
  ASSUME NEW fr, NEW b, NEW m, Pile(fr, b, m), fr \in Seq(Frames), b \in Seq(Loops)
  PROVE  m \in Nat /\ (Len(fr) = 0 => Len(b) = 0 /\ m = 0)
<1>1. PICK p \in Counters, f \in Counters : Layers(fr, b, m, p, f)
  BY DEF Pile
<1>2. Len(fr) \in Nat /\ p[0] = 0 /\ p[Len(fr)] = Len(b) /\ f[0] = 0 /\ f[Len(fr)] = m
  BY <1>1 DEF Layers
<1>. QED
  BY <1>2 DEF Counters


LEMMA LayeredTyped ==
  ASSUME NEW sts, NEW st, NEW b, NEW m, Layered(sts, st, b, m)
  PROVE  /\ b \in Seq(Loops) /\ m \in Nat /\ sts \in Seq(Returns)
         /\ st \in NoDocument => Len(sts) = 0 /\ Len(b) = 0 /\ m = 0
         /\ st \in NodePlaces \cup Collections => Len(sts) # 0
<1>1. PICK fr : Framed(fr, sts, st) /\ Pile(fr, b, m)
  BY DEF Layered
<1>2. fr \in Seq(Frames) /\ sts \in Seq(Returns) /\ b \in Seq(Loops)
  BY <1>1 DEF Framed, Layered
<1>3. m \in Nat /\ (Len(fr) = 0 => Len(b) = 0 /\ m = 0)
  BY <1>1, <1>2, PileTyped
<1>. QED
  BY <1>1, <1>2, <1>3, PlacesApart DEF Framed

\* From place to place in one collection.
LEMMA Moves ==
  ASSUME NEW sts, NEW st, NEW b, NEW m, Layered(sts, st, b, m),
         st \in Collections, NEW x \in Collections,
         Loop(x) = Loop(st), Loopings(x) = Loopings(st)
  PROVE  Layered(sts, x, b, (m - Markings(st)) + Markings(x))
<1>1. PICK fr : Framed(fr, sts, st) /\ Pile(fr, b, m)
  BY DEF Layered
<1>2. /\ fr \in Seq(Frames) /\ sts \in Seq(Returns) /\ b \in Seq(Loops)
      /\ More(sts, fr, 1) /\ fr[Len(sts) + 1] = st /\ Len(sts) # 0
      /\ \A i \in Nat : 1 <= i /\ i <= Len(sts) => (sts[i] = "DOCUMENT-END" <=> i = 1)
  BY <1>1, PlacesApart DEF Framed, Layered
<1>. PICK n \in Nat : n = Len(sts)
  BY <1>2
<1>3. x \in Frames /\ sts \in Seq(Frames)
  BY <1>2, ReturnsFrames DEF Frames
<1>4. PICK gr : gr = Append(sts, x)
  OBVIOUS
<1>5. gr \in Seq(Frames) /\ More(sts, gr, 1) /\ gr[n + 1] = x
  <2>1. /\ gr \in Seq(Frames) /\ Len(gr) = Len(sts) + 1 /\ gr[Len(sts) + 1] = x
        /\ \A i \in Nat : 1 <= i /\ i <= Len(sts) => gr[i] = sts[i]
    BY <1>3, <1>4, Appended
  <2>. QED
    BY <2>1 DEF More
<1>6. Len(fr) = n + 1 /\ Len(gr) = n + 1 /\ \A i \in Nat : 1 <= i /\ i <= n => gr[i] = fr[i]
  BY <1>2, <1>5 DEF More
<1>7. b[Len(b)] = Loop(st)
  BY <1>1, <1>2, <1>6, PileLast
<1>8. Pile(gr, b, (m - Markings(st)) + Markings(x))
  BY <1>1, <1>2, <1>5, <1>6, <1>7, PileSwap, ZenonT(60)
<1>9. Framed(gr, sts, x)
  BY <1>2, <1>5, PlacesApart DEF Framed
<1>. QED
  BY <1>2, <1>8, <1>9 DEF Layered

\* An empty node of a collection.
LEMMA Skips ==
  ASSUME NEW sts, NEW st, NEW b, NEW m, Layered(sts, st, b, m),
         st \in Collections, NEW x \in Collections,
         Loop(x) = Upon(Loop(st)), Loopings(x) = Loopings(st), Markings(x) = Markings(st)
  PROVE  Layered(sts, x, Counted(b), m) /\ Len(b) # 0
<1>1. PICK fr : Framed(fr, sts, st) /\ Pile(fr, b, m)
  BY DEF Layered
<1>2. /\ fr \in Seq(Frames) /\ sts \in Seq(Returns) /\ b \in Seq(Loops)
      /\ More(sts, fr, 1) /\ fr[Len(sts) + 1] = st /\ Len(sts) # 0
      /\ \A i \in Nat : 1 <= i /\ i <= Len(sts) => (sts[i] = "DOCUMENT-END" <=> i = 1)
  BY <1>1, PlacesApart DEF Framed, Layered
<1>. PICK n \in Nat : n = Len(sts)
  BY <1>2
<1>3. x \in Frames /\ sts \in Seq(Frames)
  BY <1>2, ReturnsFrames DEF Frames
<1>4. PICK gr : gr = Append(sts, x)
  OBVIOUS
<1>5. gr \in Seq(Frames) /\ More(sts, gr, 1) /\ gr[n + 1] = x
  <2>1. /\ gr \in Seq(Frames) /\ Len(gr) = Len(sts) + 1 /\ gr[Len(sts) + 1] = x
        /\ \A i \in Nat : 1 <= i /\ i <= Len(sts) => gr[i] = sts[i]
    BY <1>3, <1>4, Appended
  <2>. QED
    BY <2>1 DEF More
<1>6. Len(fr) = n + 1 /\ Len(gr) = n + 1 /\ \A i \in Nat : 1 <= i /\ i <= n => gr[i] = fr[i]
  BY <1>2, <1>5 DEF More
<1>7. b[Len(b)] = Loop(st) /\ Len(b) # 0 /\ Loop(st) # "full" /\ m \in Nat /\ Markings(st) <= m
  BY <1>1, <1>2, <1>6, PileLast, FrameKinds, LoopsCollected
<1>8. PICK c \in Seq(Loops) : c = Counted(b) /\ Grown(b, c)
  BY <1>2, <1>7, CountedGrown
<1>9. Pile(gr, c, (m - Markings(st)) + Markings(x))
  <2>1. /\ Len(c) = Len(b) /\ c[Len(c)] = Loop(x)
        /\ \A i \in Nat : 1 <= i /\ i < Len(b) => c[i] = b[i]
    BY <1>7, <1>8 DEF Grown
  <2>2. fr[n + 1] = st
    BY <1>2
  <2>. QED
    BY <1>1, <1>2, <1>5, <1>6, <2>1, <2>2, PileSwap, ZenonT(60)
<1>10. (m - Markings(st)) + Markings(x) = m
  BY <1>2, <1>3, <1>7, FrameKinds
<1>11. Framed(gr, sts, x)
  BY <1>2, <1>5, PlacesApart DEF Framed
<1>. QED
  BY <1>7, <1>8, <1>9, <1>10, <1>11 DEF Layered

\* A call for a node.
LEMMA Calls ==
  ASSUME NEW sts, NEW st, NEW b, NEW m, Layered(sts, st, b, m),
         st \in Collections, NEW r \in Returns, Awaits(r) = st, r # "DOCUMENT-END",
         NEW q \in NodePlaces
  PROVE  Layered(Append(sts, r), q, b, m)
<1>1. PICK fr : Framed(fr, sts, st) /\ Pile(fr, b, m)
  BY DEF Layered
<1>2. /\ fr \in Seq(Frames) /\ sts \in Seq(Returns) /\ b \in Seq(Loops)
      /\ More(sts, fr, 1) /\ fr[Len(sts) + 1] = st /\ Len(sts) # 0
      /\ \A i \in Nat : 1 <= i /\ i <= Len(sts) => (sts[i] = "DOCUMENT-END" <=> i = 1)
  BY <1>1, PlacesApart DEF Framed, Layered
<1>. PICK n \in Nat : n = Len(sts)
  BY <1>2
<1>3. PICK u : u = Append(sts, r)
  OBVIOUS
<1>4. /\ u \in Seq(Returns) /\ Len(u) = n + 1 /\ u[n + 1] = r
      /\ \A i \in Nat : 1 <= i /\ i <= n => u[i] = sts[i]
  BY <1>2, <1>3, Appended
<1>5. /\ Len(fr) = n + 1 /\ fr[n + 1] = st
      /\ \A i \in Nat : 1 <= i /\ i <= n => fr[i] = sts[i]
  BY <1>2 DEF More
<1>6. ASSUME NEW i \in Nat, 1 <= i, i <= n + 1
      PROVE  u[i] = "DOCUMENT-END" <=> i = 1
  <2>1. CASE i <= n
    BY <1>2, <1>4, <1>6, <2>1
  <2>2. CASE i = n + 1
    BY <1>2, <1>4, <2>2
  <2>. QED
    BY <1>6, <2>1, <2>2
<1>7. \A i \in Nat : 1 <= i /\ i < n + 1 => fr[i] = u[i]
  BY <1>4, <1>5
<1>8. n + 1 # 0
  OBVIOUS
<1>9. Framed(fr, u, q)
  BY <1>2, <1>4, <1>5, <1>6, <1>7, <1>8, PlacesApart DEF Framed
<1>. QED
  BY <1>1, <1>2, <1>3, <1>9 DEF Layered

LEMMA Stays ==
  ASSUME NEW sts, NEW st, NEW b, NEW m, Layered(sts, st, b, m),
         st \in NodePlaces, NEW q \in NodePlaces
  PROVE  Layered(sts, q, b, m)
BY PlacesApart DEF Layered, Framed

\* The node is there: its collection has one child more.
LEMMA NodeCounted ==
  ASSUME NEW sts, NEW st, NEW b, NEW m, Layered(sts, st, b, m), st \in NodePlaces
  PROVE  /\ Pile(sts, Counted(b), m) /\ Counted(b) \in Seq(Loops)
         /\ Len(b) # 0
<1>1. PICK fr : Framed(fr, sts, st) /\ Pile(fr, b, m)
  BY DEF Layered
<1>2. /\ fr \in Seq(Frames) /\ sts \in Seq(Returns) /\ b \in Seq(Loops)
      /\ Len(sts) # 0 /\ Len(fr) = Len(sts)
      /\ fr[Len(sts)] = Awaits(sts[Len(sts)])
      /\ \A i \in Nat : 1 <= i /\ i < Len(sts) => fr[i] = sts[i]
  BY <1>1 DEF Framed, Layered
<1>0. Len(sts) \in Nat /\ sts \in Seq(Frames)
  BY <1>2, ReturnsFrames
<1>. PICK n \in Nat : Len(sts) = n + 1
  BY <1>0, <1>2, SMTT(20)
<1>3. PICK r \in Returns : r = sts[n + 1]
  BY <1>2, ElementOfSeq
<1>. PICK x : x = Awaits(r)
  OBVIOUS
<1>4. /\ Len(fr) = n + 1 /\ fr[n + 1] = x
      /\ \A i \in Nat : 1 <= i /\ i <= n => sts[i] = fr[i]
  BY <1>2, <1>3
<1>5. /\ x \in Frames /\ r \in Frames /\ Loopings(x) = Loopings(r)
      /\ Markings(x) = Markings(r) /\ Loop(r) = Upon(Loop(x)) /\ Loop(x) # "full"
  BY PlaceKinds
<1>6. b[Len(b)] = Loop(x) /\ m \in Nat /\ Markings(x) <= m /\ Len(b) # 0
  BY <1>1, <1>2, <1>4, <1>5, PileLast, FrameKinds
<1>7. PICK c \in Seq(Loops) : c = Counted(b) /\ Grown(b, c)
  BY <1>2, <1>5, <1>6, CountedGrown
<1>8. Pile(sts, c, (m - Markings(x)) + Markings(r))
  <2>1. /\ Len(c) = Len(b) /\ c[Len(c)] = Loop(r)
        /\ \A i \in Nat : 1 <= i /\ i < Len(b) => c[i] = b[i]
    BY <1>5, <1>6, <1>7 DEF Grown
  <2>. QED
    BY <1>0, <1>1, <1>2, <1>3, <1>4, <1>5, <2>1, PileSwap
<1>9. (m - Markings(x)) + Markings(r) = m
  BY <1>5, <1>6, FrameKinds
<1>. QED
  BY <1>6, <1>7, <1>8, <1>9

\* What is left of the states has the layers below.
LEMMA Returned ==
  ASSUME NEW sts \in Seq(Returns), Len(sts) # 0, NEW b \in Seq(Loops), NEW m,
         \A i \in Nat : 1 <= i /\ i <= Len(sts) => (sts[i] = "DOCUMENT-END" <=> i = 1),
         Pile(sts, b, m)
  PROVE  Layered(Front(sts), Last(sts), b, m)
<1>1. PICK u \in Seq(Returns) : u = Front(sts) /\ More(u, sts, 1)
  BY FrontLess
<1>2. PICK r \in Returns : r = Last(sts) /\ r = sts[Len(sts)]
  BY FrontLess
<1>. PICK n \in Nat : n = Len(u)
  OBVIOUS
<1>3. Len(sts) = n + 1 /\ \A i \in Nat : 1 <= i /\ i <= n => sts[i] = u[i]
  BY <1>1 DEF More
<1>4. sts \in Seq(Frames) /\ (r \in Collections \/ r = "DOCUMENT-END")
  BY PlaceKinds, ReturnsFrames
<1>5. \A i \in Nat : 1 <= i /\ i <= n => (u[i] = "DOCUMENT-END" <=> i = 1)
  BY <1>3
<1>6. r = "DOCUMENT-END" <=> n = 0
  <2>1. n + 1 \in Nat /\ 1 <= n + 1 /\ n + 1 <= Len(sts)
    BY <1>3
  <2>2. sts[n + 1] = "DOCUMENT-END" <=> n + 1 = 1
    BY <2>1
  <2>. QED
    BY <1>2, <1>3, <2>2
<1>7. sts[n + 1] = r
  BY <1>2, <1>3
<1>8. Framed(sts, u, r)
  BY <1>1, <1>4, <1>5, <1>6, <1>7, PlacesApart DEF Framed
<1>. QED
  BY <1>1, <1>2, <1>8 DEF Layered

LEMMA NodeReturns ==
  ASSUME NEW sts, NEW st, NEW b, NEW m, Layered(sts, st, b, m), st \in NodePlaces
  PROVE  Layered(Front(sts), Last(sts), Counted(b), m) /\ Len(b) # 0
<1>1. PICK c : c = Counted(b)
  OBVIOUS
<1>2. Pile(sts, c, m) /\ c \in Seq(Loops) /\ Len(b) # 0
  BY <1>1, NodeCounted
<1>3. /\ sts \in Seq(Returns) /\ Len(sts) # 0
      /\ \A i \in Nat : 1 <= i /\ i <= Len(sts) => (sts[i] = "DOCUMENT-END" <=> i = 1)
  BY DEF Layered, Framed
<1>. QED
  BY <1>1, <1>2, <1>3, Returned

\* The node is a collection.
LEMMA NodeOpens ==
  ASSUME NEW sts, NEW st, NEW b, NEW m, Layered(sts, st, b, m), st \in NodePlaces,
         NEW x \in Collections, x \notin Pairs, Markings(x) = 0
  PROVE  Layered(sts, x, Append(Counted(b), Loop(x)), m) /\ Len(b) # 0
<1>1. PICK c : c = Counted(b)
  OBVIOUS
<1>2. Pile(sts, c, m) /\ c \in Seq(Loops) /\ Len(b) # 0
  BY <1>1, NodeCounted
<1>3. /\ sts \in Seq(Returns) /\ Len(sts) # 0
      /\ \A i \in Nat : 1 <= i /\ i <= Len(sts) => (sts[i] = "DOCUMENT-END" <=> i = 1)
  BY DEF Layered, Framed
<1>4. x \in Frames /\ Loop(x) \in Loops /\ Loopings(x) = 1 /\ sts \in Seq(Frames) /\ m \in Nat
  BY <1>3, LoopsCollected, FrameKinds, ReturnsFrames, LayeredTyped DEF Loopings
<1>. PICK n \in Nat : n = Len(sts)
  BY <1>3
<1>. PICK l \in Loops : l = Loop(x)
  BY <1>4
<1>5. PICK d : d = Append(c, l)
  OBVIOUS
<1>6. PICK gr : gr = Append(sts, x)
  OBVIOUS
<1>7. gr \in Seq(Frames) /\ More(sts, gr, 1) /\ gr[n + 1] = x
  <2>1. /\ gr \in Seq(Frames) /\ Len(gr) = Len(sts) + 1 /\ gr[Len(sts) + 1] = x
        /\ \A i \in Nat : 1 <= i /\ i <= Len(sts) => gr[i] = sts[i]
    BY <1>4, <1>6, Appended
  <2>. QED
    BY <2>1 DEF More
<1>8. d \in Seq(Loops) /\ More(c, d, Loopings(x)) /\ d[Len(d)] = Loop(x)
  <2>1. /\ d \in Seq(Loops) /\ Len(d) = Len(c) + 1 /\ d[Len(c) + 1] = l
        /\ \A i \in Nat : 1 <= i /\ i <= Len(c) => d[i] = c[i]
    BY <1>2, <1>5, Appended
  <2>. QED
    BY <1>4, <2>1 DEF More
<1>9. Pile(gr, d, m + Markings(x))
  BY <1>2, <1>4, <1>7, <1>8, PileGrow
<1>10. m + Markings(x) = m
  BY <1>4
<1>11. Framed(gr, sts, x)
  BY <1>3, <1>7, PlacesApart DEF Framed
<1>. QED
  BY <1>1, <1>2, <1>5, <1>8, <1>9, <1>10, <1>11 DEF Layered

\* The layer of a place that has one loop is taken away with it.
LEMMA Peeled ==
  ASSUME NEW sts, NEW st, NEW b, NEW m, Layered(sts, st, b, m),
         st \in Collections \cup {"DOCUMENT-END"}, st \notin Pairs
  PROVE  /\ Last(b) = Loop(st) /\ Len(b) # 0 /\ Markings(st) <= m
         /\ sts \in Seq(Frames) /\ Front(b) \in Seq(Loops)
         /\ Pile(sts, Front(b), m - Markings(st))
<1>1. PICK fr : Framed(fr, sts, st) /\ Pile(fr, b, m)
  BY DEF Layered
<1>2. /\ fr \in Seq(Frames) /\ sts \in Seq(Returns) /\ b \in Seq(Loops)
      /\ More(sts, fr, 1) /\ fr[Len(sts) + 1] = st
  BY <1>1, PlacesApart DEF Framed, Layered
<1>. PICK n \in Nat : n = Len(sts)
  BY <1>2
<1>3. Len(fr) = n + 1 /\ fr[n + 1] = st /\ sts \in Seq(Frames)
  BY <1>2, ReturnsFrames DEF More
<1>4. st \in Frames /\ Loopings(st) = 1
  BY DEF Loopings, Frames
<1>5. b[Len(b)] = Loop(st) /\ Markings(st) <= m /\ Len(b) # 0
  BY <1>1, <1>2, <1>3, <1>4, PileLast
<1>6. PICK c \in Seq(Loops) : c = Front(b) /\ More(c, b, Loopings(st)) /\ Last(b) = b[Len(b)]
  BY <1>2, <1>4, <1>5, FrontLess
<1>7. Pile(sts, c, m - Markings(st))
  BY <1>1, <1>2, <1>3, <1>6, PileCut
<1>. QED
  BY <1>3, <1>5, <1>6, <1>7

\* The end of a collection.
LEMMA Closed ==
  ASSUME NEW sts, NEW st, NEW b, NEW m, Layered(sts, st, b, m),
         st \in Collections, st \notin Pairs
  PROVE  /\ Last(b) = Loop(st) /\ Len(b) # 0
         /\ Layered(Front(sts), Last(sts), Front(b), m - Markings(st))
<1>1. /\ Last(b) = Loop(st) /\ Len(b) # 0 /\ Front(b) \in Seq(Loops)
      /\ Pile(sts, Front(b), m - Markings(st))
  BY Peeled
<1>2. /\ sts \in Seq(Returns) /\ Len(sts) # 0
      /\ \A i \in Nat : 1 <= i /\ i <= Len(sts) => (sts[i] = "DOCUMENT-END" <=> i = 1)
  BY PlacesApart DEF Layered, Framed
<1>. PICK c \in Seq(Loops) : c = Front(b)
  BY <1>1
<1>. PICK l : l = m - Markings(st)
  OBVIOUS
<1>3. Layered(Front(sts), Last(sts), c, l)
  BY <1>1, <1>2, Returned
<1>. QED
  BY <1>1, <1>3

\* A pair of a flow sequence, and its end.
LEMMA PairBegun ==
  ASSUME NEW sts, NEW st, NEW b, NEW m, Layered(sts, st, b, m),
         st \in InSequence, Markings(st) = 1, NEW x \in Pairs, Loop(x) = "key",
         NEW l, l = "key"
  PROVE  Layered(sts, x, Append(Counted(b), l), m) /\ Len(b) # 0
<1>0. st \in Collections /\ x \in Collections /\ st \notin Pairs /\ Loop(st) = "sequence"
  BY DEF Collections, Pairs, InSequence, AtKey, AtValue, Loop
<1>1. /\ Last(b) = Loop(st) /\ Len(b) # 0 /\ Markings(st) <= m
      /\ sts \in Seq(Frames) /\ Front(b) \in Seq(Loops)
      /\ Pile(sts, Front(b), m - Markings(st))
  BY <1>0, Peeled
<1>2. /\ sts \in Seq(Returns) /\ Len(sts) # 0
      /\ \A i \in Nat : 1 <= i /\ i <= Len(sts) => (sts[i] = "DOCUMENT-END" <=> i = 1)
      /\ b \in Seq(Loops) /\ m \in Nat
  BY <1>0, PlacesApart, LayeredTyped DEF Layered, Framed
<1>3. PICK c \in Seq(Loops) : c = Front(b) /\ More(c, b, 1) /\ Last(b) = b[Len(b)]
  BY <1>1, <1>2, FrontLess
<1>4. x \in Frames /\ Loopings(x) = 2 /\ Markings(x) = 1 /\ l \in Loops
  BY <1>0 DEF Frames, Loopings, Markings, Unmarked, Pairs, Loops
<1>5. Counted(b) = b
  <2>1. b # <<>> /\ Last(b) = "sequence"
    BY <1>0, <1>1, <1>2, FrontLess
  <2>. QED
    BY <2>1 DEF Counted
<1>. PICK n \in Nat : n = Len(sts)
  BY <1>2
<1>6. PICK d : d = Append(b, l)
  OBVIOUS
<1>7. PICK gr : gr = Append(sts, x)
  OBVIOUS
<1>8. gr \in Seq(Frames) /\ More(sts, gr, 1) /\ gr[n + 1] = x
  <2>1. /\ gr \in Seq(Frames) /\ Len(gr) = Len(sts) + 1 /\ gr[Len(sts) + 1] = x
        /\ \A i \in Nat : 1 <= i /\ i <= Len(sts) => gr[i] = sts[i]
    BY <1>1, <1>4, <1>7, Appended
  <2>. QED
    BY <2>1 DEF More
<1>9. /\ d \in Seq(Loops) /\ More(c, d, Loopings(x)) /\ d[Len(d)] = Loop(x)
      /\ d[Len(c) + 1] = "sequence"
  <2>1. /\ d \in Seq(Loops) /\ Len(d) = Len(b) + 1 /\ d[Len(b) + 1] = l
        /\ \A i \in Nat : 1 <= i /\ i <= Len(b) => d[i] = b[i]
    BY <1>2, <1>4, <1>6, Appended
  <2>2. /\ Len(c) \in Nat /\ Len(b) = Len(c) + 1
        /\ \A i \in Nat : 1 <= i /\ i <= Len(c) => b[i] = c[i]
    BY <1>3 DEF More
  <2>3. d[Len(c) + 1] = b[Len(c) + 1] /\ Len(d) = Len(c) + 2
    BY <2>1, <2>2
  <2>4. \A i \in Nat : 1 <= i /\ i <= Len(c) => d[i] = c[i]
    BY <2>1, <2>2
  <2>5. d[Len(c) + 1] = "sequence"
    BY <1>0, <1>1, <1>3, <2>2, <2>3
  <2>. QED
    BY <1>4, <2>1, <2>3, <2>4, <2>5 DEF More
<1>10. PICK k \in Nat : k = m - Markings(st) /\ k + Markings(x) = m
  BY <1>1, <1>2, <1>4
<1>11. Pile(gr, d, k + Markings(x))
  BY <1>1, <1>3, <1>4, <1>8, <1>9, <1>10, PileGrow
<1>12. Framed(gr, sts, x)
  BY <1>0, <1>2, <1>8, PlacesApart DEF Framed
<1>. QED
  BY <1>1, <1>5, <1>6, <1>9, <1>10, <1>11, <1>12 DEF Layered

LEMMA PairEnded ==
  ASSUME NEW sts, NEW st, NEW b, NEW m, Layered(sts, st, b, m),
         st \in Pairs, NEW x \in InSequence, Markings(x) = 1
  PROVE  /\ Last(b) = Loop(st) /\ Len(b) # 0
         /\ Layered(sts, x, Front(b), m)
<1>0. st \in Collections /\ x \in Collections /\ x \notin Pairs /\ Loop(x) = "sequence"
  BY DEF Collections, Pairs, InSequence, AtKey, AtValue, Loop
<1>1. PICK fr : Framed(fr, sts, st) /\ Pile(fr, b, m)
  BY DEF Layered
<1>2. /\ fr \in Seq(Frames) /\ sts \in Seq(Returns) /\ b \in Seq(Loops)
      /\ More(sts, fr, 1) /\ fr[Len(sts) + 1] = st /\ Len(sts) # 0
      /\ \A i \in Nat : 1 <= i /\ i <= Len(sts) => (sts[i] = "DOCUMENT-END" <=> i = 1)
  BY <1>0, <1>1, PlacesApart DEF Framed, Layered
<1>. PICK n \in Nat : n = Len(sts)
  BY <1>2
<1>3. Len(fr) = n + 1 /\ fr[n + 1] = st /\ sts \in Seq(Frames)
  BY <1>2, ReturnsFrames DEF More
<1>4. /\ st \in Frames /\ Loopings(st) = 2 /\ Markings(st) = 1
      /\ x \in Frames /\ Loopings(x) = 1
  BY <1>0 DEF Loopings, Frames, Markings, Unmarked, Pairs
<1>5. /\ b[Len(b)] = Loop(st) /\ Markings(st) <= m /\ Len(b) # 0 /\ m \in Nat
      /\ 2 <= Len(b) /\ b[Len(b) - 1] = "sequence"
  BY <1>1, <1>2, <1>3, <1>4, PileLast
<1>6. PICK c \in Seq(Loops) : c = Front(b) /\ More(c, b, 1) /\ Last(b) = b[Len(b)]
  BY <1>2, <1>5, FrontLess
<1>7. /\ Len(c) \in Nat /\ Len(c) # 0 /\ Len(b) = Len(c) + 1
      /\ \A i \in Nat : 1 <= i /\ i <= Len(c) => b[i] = c[i]
  BY <1>5, <1>6 DEF More
<1>8. PICK d \in Seq(Loops) : More(d, c, 1)
  BY <1>7, FrontLess
<1>9. /\ Len(d) \in Nat /\ Len(c) = Len(d) + 1
      /\ \A i \in Nat : 1 <= i /\ i <= Len(d) => c[i] = d[i]
  BY <1>8 DEF More
<1>10. More(d, b, Loopings(st))
  BY <1>4, <1>7, <1>9 DEF More
<1>11. Pile(sts, d, m - Markings(st))
  BY <1>1, <1>2, <1>3, <1>10, PileCut
<1>12. c[Len(c)] = Loop(x)
  <2>1. Len(b) - 1 = Len(c)
    BY <1>7
  <2>. QED
    BY <1>0, <1>5, <1>7, <2>1
<1>13. PICK gr : gr = Append(sts, x)
  OBVIOUS
<1>14. gr \in Seq(Frames) /\ More(sts, gr, 1) /\ gr[n + 1] = x
  <2>1. /\ gr \in Seq(Frames) /\ Len(gr) = Len(sts) + 1 /\ gr[Len(sts) + 1] = x
        /\ \A i \in Nat : 1 <= i /\ i <= Len(sts) => gr[i] = sts[i]
    BY <1>3, <1>4, <1>13, Appended
  <2>. QED
    BY <2>1 DEF More
<1>15. PICK k \in Nat : k = m - Markings(st) /\ k + Markings(x) = m
  BY <1>4, <1>5
<1>16. More(d, c, Loopings(x))
  BY <1>4, <1>8
<1>17. Pile(gr, c, k + Markings(x))
  BY <1>0, <1>3, <1>11, <1>12, <1>14, <1>15, <1>16, PileGrow
<1>18. Framed(gr, sts, x)
  BY <1>0, <1>2, <1>14, PlacesApart DEF Framed
<1>. QED
  BY <1>5, <1>6, <1>15, <1>17, <1>18 DEF Layered

----------------------------------------------------------------------------
(* Outside of the document's node                                           *)

LEMMA PileEmpty ==
  ASSUME NEW fr, NEW b, NEW m, Len(fr) = 0, Len(b) = 0, m = 0
  PROVE  Pile(fr, b, m)
<1>. DEFINE p == [i \in Nat |-> 0]
<1>1. p \in Counters /\ p[0] = 0
  BY DEF Counters
<1>2. Layers(fr, b, m, p, p)
  BY <1>1 DEF Layers
<1>. QED
  BY <1>1, <1>2 DEF Pile

LEMMA NoDocumentLayers ==
  ASSUME NEW sts \in Seq(Returns), NEW b \in Seq(Loops), NEW m,
         Len(sts) = 0, Len(b) = 0, m = 0, NEW x \in NoDocument
  PROVE  Layered(sts, x, b, m)
<1>1. PICK fr \in Seq(Frames) : Len(fr) = 0
  <2>1. <<>> \in Seq(Frames) /\ Len(<<>>) = 0
    OBVIOUS
  <2>. QED
    BY <2>1
<1>2. Pile(fr, b, m)
  BY <1>1, PileEmpty
<1>3. Framed(fr, sts, x)
  BY <1>1, PlacesApart DEF Framed
<1>. QED
  BY <1>2, <1>3 DEF Layered

LEMMA OutsideMoves ==
  ASSUME NEW sts, NEW st, NEW b, NEW m, Layered(sts, st, b, m),
         st \in NoDocument, NEW x \in NoDocument
  PROVE  Layered(sts, x, b, m) /\ b = <<>> /\ sts = <<>> /\ m = 0
BY LayeredTyped, NoDocumentLayers, EmptySeq

\* The start of a document.
LEMMA DocumentBegun ==
  ASSUME NEW sts, NEW st, NEW b, NEW m, Layered(sts, st, b, m),
         st \in NoDocument, NEW q \in NodePlaces, NEW r \in Returns, r = "DOCUMENT-END",
         NEW l \in Loops, l = "document"
  PROVE  b = <<>> /\ Layered(Append(sts, r), q, <<l>>, m)
<1>1. /\ sts \in Seq(Returns) /\ Len(sts) = 0 /\ b = <<>> /\ m = 0 /\ b \in Seq(Loops)
  BY LayeredTyped, EmptySeq
<1>2. PICK u : u = Append(sts, r)
  OBVIOUS
<1>3. u \in Seq(Returns) /\ Len(u) = 1 /\ u[1] = r
  <2>1. u \in Seq(Returns) /\ Len(u) = Len(sts) + 1 /\ u[Len(sts) + 1] = r
    BY <1>1, <1>2, Appended
  <2>. QED
    BY <1>1, <2>1
<1>4. PICK x \in Frames : x = Awaits(r)
  BY PlaceKinds
<1>5. /\ x = "DOCUMENT-CONTENT" /\ Loopings(x) = 1 /\ Markings(x) = 0 /\ Loop(x) = "document"
      /\ x \notin Pairs
  BY <1>4 DEF Awaits, Loopings, Markings, Loop, Pairs, Unmarked, InSequence, AtKey, AtValue
<1>6. PICK gr \in Seq(Frames) : Len(gr) = 0
  <2>1. <<>> \in Seq(Frames) /\ Len(<<>>) = 0
    OBVIOUS
  <2>. QED
    BY <2>1
<1>7. PICK fr : fr = Append(gr, x)
  OBVIOUS
<1>8. fr \in Seq(Frames) /\ Len(fr) = 1 /\ fr[1] = x
  <2>1. fr \in Seq(Frames) /\ Len(fr) = Len(gr) + 1 /\ fr[Len(gr) + 1] = x
    BY <1>6, <1>7, Appended
  <2>. QED
    BY <1>6, <2>1
<1>9. PICK d : d = Append(b, l)
  OBVIOUS
<1>10. d \in Seq(Loops) /\ Len(d) = 1 /\ d[1] = l /\ d = <<l>> /\ Len(b) = 0
  <2>0. Len(b) = 0
    BY <1>1, EmptySeq
  <2>1. d \in Seq(Loops) /\ Len(d) = Len(b) + 1 /\ d[Len(b) + 1] = l
    BY <1>1, <1>9, Appended
  <2>2. d = <<l>>
    BY <1>1, <1>9
  <2>. QED
    BY <2>0, <2>1, <2>2
<1>11. Pile(gr, b, m)
  BY <1>1, <1>6, <1>10, PileEmpty
<1>12. More(gr, fr, 1) /\ More(b, d, Loopings(x)) /\ d[Len(d)] = Loop(x) /\ m \in Nat
  BY <1>1, <1>5, <1>6, <1>8, <1>10 DEF More
<1>13. Pile(fr, d, m + Markings(x))
  <2>1. 0 \in Nat /\ Len(gr) = 0 /\ x = fr[0 + 1]
    BY <1>6, <1>8
  <2>2. PICK n \in Nat : Len(gr) = n /\ x = fr[n + 1]
    BY <2>1
  <2>. QED
    BY <1>1, <1>5, <1>6, <1>8, <1>10, <1>11, <1>12, <2>2, PileGrow
<1>14. m + Markings(x) = m
  BY <1>1, <1>5
<1>15. \A i \in Nat : 1 <= i /\ i <= Len(u) => (u[i] = "DOCUMENT-END" <=> i = 1)
  BY <1>3
<1>16. Framed(fr, u, q)
  BY <1>3, <1>4, <1>8, <1>15, PlacesApart DEF Framed
<1>. QED
  BY <1>1, <1>2, <1>10, <1>13, <1>14, <1>16 DEF Layered

\* The end of a document.
LEMMA DocumentEnded ==
  ASSUME NEW sts, NEW st, NEW b, NEW m, Layered(sts, st, b, m),
         st = "DOCUMENT-END", NEW x \in NoDocument
  PROVE  Last(b) = "full" /\ Len(b) # 0 /\ Layered(sts, x, Front(b), m)
<1>1. st \notin Pairs /\ Loop(st) = "full" /\ Markings(st) = 0
  BY DEF Pairs, Loop, Markings, InSequence, AtKey, AtValue, Unmarked
<1>2. /\ Last(b) = Loop(st) /\ Len(b) # 0 /\ sts \in Seq(Frames) /\ Front(b) \in Seq(Loops)
      /\ Pile(sts, Front(b), m - Markings(st))
  BY <1>1, Peeled
<1>3. m \in Nat /\ sts \in Seq(Returns) /\ Len(sts) = 0
  BY LayeredTyped, PlacesApart DEF Layered, Framed
<1>. PICK c \in Seq(Loops) : c = Front(b)
  BY <1>2
<1>4. Pile(sts, c, m)
  BY <1>1, <1>2, <1>3
<1>5. Len(c) = 0 /\ m = 0
  BY <1>2, <1>3, <1>4, PileTyped
<1>6. Layered(sts, x, c, m)
  BY <1>3, <1>5, NoDocumentLayers
<1>. QED
  BY <1>1, <1>2, <1>6

----------------------------------------------------------------------------
(* The steps of the parser                                                  *)

\* Until it fails the parser is in layers; what it fails with is balanced.
ParserIInv == IF failed THEN NodesWellFormed /\ StacksBalanced
              ELSE Layered(states, state, building, marks)

LEMMA LayeredBalanced ==
  ASSUME Layered(states, state, building, marks)
  PROVE  NodesWellFormed /\ StacksBalanced
<1>1. /\ building \in Seq(Loops) /\ marks \in Nat /\ states \in Seq(Returns)
      /\ state \in NoDocument => Len(states) = 0 /\ Len(building) = 0 /\ marks = 0
      /\ state \in NodePlaces \cup Collections => Len(states) # 0
  BY LayeredTyped
<1>2. state \in NoDocument \cup NodePlaces \cup Collections \cup {"DOCUMENT-END"}
  BY DEF Layered, Framed
<1>3. "panic" \notin Range(building)
  <2>1. SUFFICES ASSUME NEW i \in DOMAIN building, building[i] = "panic" PROVE FALSE
    BY DEF Range
  <2>2. building[i] \in Loops
    BY <1>1, ElementOfSeq
  <2>. QED
    BY <2>1, <2>2 DEF Loops
<1>4. state = "END" => building = <<>> /\ states = <<>> /\ marks = 0
  BY <1>1, EmptySeq DEF NoDocument
<1>5. Len(states) # 0 => states # <<>>
  BY EmptySeq
<1>. QED
  BY <1>1, <1>2, <1>3, <1>4, <1>5 DEF NodesWellFormed, StacksBalanced, NoDocument

LEMMA Emissions ==
  /\ Silent \/ Emit("STREAM-START") => building' = building
  /\ Emit("STREAM-END") /\ building = <<>> => building' = building
  /\ Emit("DOCUMENT-START") /\ building = <<>> => building' = <<"document">>
  /\ building # <<>> =>
       /\ Emit("SCALAR") \/ Emit("ALIAS") => building' = Counted(building)
       /\ Emit("SEQUENCE-START") => building' = Append(Counted(building), "sequence")
       /\ Emit("MAPPING-START") => building' = Append(Counted(building), "key")
       /\ Emit("DOCUMENT-END") /\ Last(building) = "full" => building' = Front(building)
       /\ Emit("SEQUENCE-END") /\ Last(building) = "sequence" => building' = Front(building)
       /\ Emit("MAPPING-END") /\ Last(building) = "key" => building' = Front(building)
BY DEF Silent, Emit, Built, Closes

\* A step that does not fail keeps the layers.
LEMMA LayersKept ==
  ASSUME ~failed', Layered(states', state', building', marks')
  PROVE  ParserIInv'
BY DEF ParserIInv

LEMMA StreamStartStep == ParserIInv /\ StreamStart => ParserIInv'
<1>. SUFFICES ASSUME ParserIInv, StreamStart PROVE ParserIInv'
  OBVIOUS
<1>1. PICK st : st = state
  OBVIOUS
<1>2. Layered(states, st, building, marks) /\ st \in NoDocument /\ state' \in NoDocument
  BY <1>1 DEF ParserIInv, StreamStart, At, Goto, NoDocument
<1>3. building' = building /\ states' = states /\ marks' = marks /\ ~failed'
  BY Emissions DEF StreamStart, At, Goto
<1>4. PICK x \in NoDocument : x = state'
  BY <1>2
<1>5. Layered(states, x, building, marks)
  BY <1>2, OutsideMoves
<1>. QED
  BY <1>3, <1>4, <1>5, LayersKept

LEMMA DocumentStartStep == ParserIInv /\ DocumentStart => ParserIInv'
<1>. SUFFICES ASSUME ParserIInv, DocumentStart PROVE ParserIInv'
  OBVIOUS
<1>1. /\ Layered(states, state, building, marks) /\ state \in NoDocument
      /\ ~failed' /\ marks' = marks
  BY DEF ParserIInv, DocumentStart, At, NoDocument
<1>2. building = <<>>
  BY <1>1, OutsideMoves
<1>3. CASE state' \in NoDocument /\ states' = states /\ building' = building
  <2>1. PICK x \in NoDocument : x = state'
    BY <1>3
  <2>2. Layered(states, x, building, marks)
    BY <1>1, OutsideMoves
  <2>. QED
    BY <1>1, <1>3, <2>1, <2>2, LayersKept
<1>4. CASE Emit("DOCUMENT-START") /\ Call("BLOCK-NODE", "DOCUMENT-END")
  <2>1. PICK q \in NodePlaces : q = "BLOCK-NODE"
    BY DEF NodePlaces
  <2>2. PICK r \in Returns : r = "DOCUMENT-END"
    BY DEF Returns
  <2>3. PICK l \in Loops : l = "document"
    BY DEF Loops
  <2>4. state' = q /\ states' = Append(states, r) /\ building' = <<l>>
    BY <1>2, <1>4, <2>1, <2>2, <2>3, Emissions DEF Call
  <2>5. Layered(Append(states, r), q, <<l>>, marks)
    BY <1>1, <2>2, <2>3, DocumentBegun
  <2>. QED
    BY <1>1, <2>4, <2>5, LayersKept
<1>5. \/ Silent /\ (Goto(state) \/ Goto("DIRECTIVES"))
      \/ Emit("STREAM-END") /\ Goto("END")
      \/ Emit("DOCUMENT-START") /\ Call("BLOCK-NODE", "DOCUMENT-END")
  BY DEF DocumentStart
<1>6. \/ state' \in NoDocument /\ states' = states /\ building' = building
      \/ Emit("DOCUMENT-START") /\ Call("BLOCK-NODE", "DOCUMENT-END")
  <2>1. Silent => building' = building
    BY Emissions
  <2>2. Emit("STREAM-END") => building' = building
    BY <1>2, Emissions
  <2>. QED
    BY <1>1, <1>5, <2>1, <2>2 DEF Goto, NoDocument
<1>. QED
  BY <1>3, <1>4, <1>6

LEMMA DirectiveStep == ParserIInv /\ Directive => ParserIInv'
<1>. SUFFICES ASSUME ParserIInv, Directive PROVE ParserIInv'
  OBVIOUS
<1>1. /\ Layered(states, state, building, marks) /\ state \in NoDocument
      /\ ~failed' /\ marks' = marks
  BY DEF ParserIInv, Directive, At, NoDocument
<1>2. building = <<>>
  BY <1>1, OutsideMoves
<1>3. CASE Silent /\ Goto(state)
  <2>1. state' = state /\ states' = states /\ building' = building
    BY <1>3, Emissions DEF Goto
  <2>. QED
    BY <1>1, <2>1, LayersKept
<1>4. CASE Emit("DOCUMENT-START") /\ Call("DOCUMENT-CONTENT", "DOCUMENT-END")
  <2>1. PICK q \in NodePlaces : q = "DOCUMENT-CONTENT"
    BY DEF NodePlaces
  <2>2. PICK r \in Returns : r = "DOCUMENT-END"
    BY DEF Returns
  <2>3. PICK l \in Loops : l = "document"
    BY DEF Loops
  <2>4. state' = q /\ states' = Append(states, r) /\ building' = <<l>>
    BY <1>2, <1>4, <2>1, <2>2, <2>3, Emissions DEF Call
  <2>5. Layered(Append(states, r), q, <<l>>, marks)
    BY <1>1, <2>2, <2>3, DocumentBegun
  <2>. QED
    BY <1>1, <2>4, <2>5, LayersKept
<1>. QED
  BY <1>3, <1>4 DEF Directive

\* Goes on to parse a node where one is awaited.
LEMMA StaysStep ==
  ASSUME ParserIInv, ~failed, ~failed', Silent, UNCHANGED <<states, marks>>,
         state \in NodePlaces, state' \in NodePlaces
  PROVE  ParserIInv'
<1>1. Layered(states, state, building, marks) /\ building' = building
  BY Emissions DEF ParserIInv
<1>2. PICK q \in NodePlaces : q = state'
  OBVIOUS
<1>3. Layered(states, q, building, marks)
  BY <1>1, Stays
<1>. QED
  BY <1>1, <1>2, <1>3, LayersKept

\* A node that is one event.
LEMMA LeafStep ==
  ASSUME ParserIInv, ~failed, ~failed', Emit("SCALAR") \/ Emit("ALIAS"), Return,
         UNCHANGED marks, state \in NodePlaces
  PROVE  ParserIInv'
<1>1. Layered(states, state, building, marks)
  BY DEF ParserIInv
<1>2. Layered(Front(states), Last(states), Counted(building), marks) /\ building # <<>>
  BY <1>1, NodeReturns, EmptySeq
<1>3. building' = Counted(building)
  BY <1>2, Emissions
<1>. QED
  BY <1>2, <1>3, LayersKept DEF Return

LEMMA DocumentContentStep == ParserIInv /\ DocumentContent => ParserIInv'
<1>. SUFFICES ASSUME ParserIInv, DocumentContent PROVE ParserIInv'
  OBVIOUS
<1>1. state \in NodePlaces /\ ~failed /\ ~failed' /\ UNCHANGED marks
  BY DEF DocumentContent, At, NodePlaces
<1>2. CASE Emit("SCALAR") /\ Return
  BY <1>1, <1>2, LeafStep
<1>3. CASE Silent /\ Goto("BLOCK-NODE")
  <2>1. state' \in NodePlaces /\ UNCHANGED <<states, marks>>
    BY <1>1, <1>3 DEF Goto, NodePlaces
  <2>. QED
    BY <1>1, <1>3, <2>1, StaysStep
<1>. QED
  BY <1>2, <1>3 DEF DocumentContent

LEMMA DocumentEndStep == ParserIInv /\ DocumentEnd => ParserIInv'
<1>. SUFFICES ASSUME ParserIInv, DocumentEnd PROVE ParserIInv'
  OBVIOUS
<1>1. /\ Layered(states, state, building, marks) /\ state = "DOCUMENT-END"
      /\ ~failed' /\ marks' = marks /\ states' = states /\ state' \in NoDocument
      /\ Emit("DOCUMENT-END")
  BY DEF ParserIInv, DocumentEnd, At, NoDocument, Goto
<1>2. PICK x \in NoDocument : x = state'
  BY <1>1
<1>3. Last(building) = "full" /\ building # <<>> /\ Layered(states, x, Front(building), marks)
  BY <1>1, DocumentEnded, EmptySeq
<1>4. building' = Front(building)
  BY <1>1, <1>3, Emissions
<1>. QED
  BY <1>1, <1>2, <1>3, <1>4, LayersKept

LEMMA BlockNodeStep == ParserIInv /\ BlockNode => ParserIInv'
<1>. SUFFICES ASSUME ParserIInv, BlockNode PROVE ParserIInv'
  OBVIOUS
<1>1. /\ state \in NodePlaces /\ state' \in NodePlaces /\ ~failed /\ ~failed'
      /\ Silent /\ UNCHANGED <<states, marks>>
  BY DEF BlockNode, At, NodePlaces, Goto
<1>. QED
  BY <1>1, StaysStep

LEMMA AliasStep == ParserIInv /\ Alias => ParserIInv'
<1>. SUFFICES ASSUME ParserIInv, Alias PROVE ParserIInv'
  OBVIOUS
<1>1. /\ state \in NodePlaces /\ ~failed /\ ~failed'
      /\ Emit("ALIAS") /\ Return /\ UNCHANGED marks
  BY DEF Alias, At, NodePlaces
<1>. QED
  BY <1>1, LeafStep

LEMMA PropertyStep == ParserIInv /\ Property => ParserIInv'
<1>. SUFFICES ASSUME ParserIInv, Property PROVE ParserIInv'
  OBVIOUS
<1>1. /\ state \in NodePlaces /\ state' \in NodePlaces /\ ~failed /\ ~failed'
      /\ Silent /\ UNCHANGED <<states, marks>>
  BY DEF Property, At, NodePlaces, Goto
<1>. QED
  BY <1>1, StaysStep

\* The places at which the collections begin.
LEMMA OpensCollections ==
  ASSUME NEW t \in DOMAIN Opens
  PROVE  /\ Opens[t].s \in Collections /\ Opens[t].s \notin Pairs /\ Markings(Opens[t].s) = 0
         /\ \/ Opens[t].e = "SEQUENCE-START" /\ Loop(Opens[t].s) = "sequence"
            \/ Opens[t].e = "MAPPING-START" /\ Loop(Opens[t].s) = "key"
<1>1. t \in {"FLOW-SEQUENCE-START", "FLOW-MAPPING-START", "BLOCK-SEQUENCE-START",
             "BLOCK-MAPPING-START", "BLOCK-ENTRY"}
  BY DEF Opens
<1>2. /\ t = "FLOW-SEQUENCE-START" =>
           Opens[t].e = "SEQUENCE-START" /\ Opens[t].s = "FLOW-SEQUENCE-FIRST"
      /\ t = "FLOW-MAPPING-START" =>
           Opens[t].e = "MAPPING-START" /\ Opens[t].s = "FLOW-MAPPING-FIRST"
      /\ t = "BLOCK-SEQUENCE-START" =>
           Opens[t].e = "SEQUENCE-START" /\ Opens[t].s = "BLOCK-SEQUENCE-FIRST"
      /\ t = "BLOCK-MAPPING-START" =>
           Opens[t].e = "MAPPING-START" /\ Opens[t].s = "BLOCK-MAPPING-FIRST"
      /\ t = "BLOCK-ENTRY" =>
           Opens[t].e = "SEQUENCE-START" /\ Opens[t].s = "INDENTLESS-SEQUENCE"
  BY DEF Opens
<1>3. \A s \in {"FLOW-SEQUENCE-FIRST", "BLOCK-SEQUENCE-FIRST", "INDENTLESS-SEQUENCE"} :
        s \in Collections /\ s \notin Pairs /\ Markings(s) = 0 /\ Loop(s) = "sequence"
  BY DEF Collections, Pairs, Markings, Unmarked, Loop, InSequence, AtKey, AtValue
<1>4. \A s \in {"FLOW-MAPPING-FIRST", "BLOCK-MAPPING-FIRST"} :
        s \in Collections /\ s \notin Pairs /\ Markings(s) = 0 /\ Loop(s) = "key"
  BY DEF Collections, Pairs, Markings, Unmarked, Loop, InSequence, AtKey, AtValue
<1>. QED
  BY <1>1, <1>2, <1>3, <1>4

LEMMA ContentStep == ParserIInv /\ Content => ParserIInv'
<1>. SUFFICES ASSUME ParserIInv, Content PROVE ParserIInv'
  OBVIOUS
<1>1. /\ state \in NodePlaces /\ ~failed /\ ~failed' /\ UNCHANGED marks
      /\ Layered(states, state, building, marks)
  BY DEF ParserIInv, Content, At, NodePlaces
<1>2. CASE Emit("SCALAR") /\ Return
  BY <1>1, <1>2, LeafStep
<1>3. CASE ahead \in DOMAIN Opens /\ Emit(Opens[ahead].e) /\ Goto(Opens[ahead].s)
  <2>1. PICK x \in Collections : /\ x = Opens[ahead].s /\ x \notin Pairs /\ Markings(x) = 0
                                 /\ \/ Opens[ahead].e = "SEQUENCE-START" /\ Loop(x) = "sequence"
                                    \/ Opens[ahead].e = "MAPPING-START" /\ Loop(x) = "key"
    BY <1>3, OpensCollections
  <2>2. Layered(states, x, Append(Counted(building), Loop(x)), marks) /\ building # <<>>
    BY <1>1, <2>1, NodeOpens, EmptySeq
  <2>3. building' = Append(Counted(building), Loop(x))
    <3>1. CASE Opens[ahead].e = "SEQUENCE-START" /\ Loop(x) = "sequence"
      <4>1. Emit("SEQUENCE-START")
        BY <1>3, <3>1
      <4>. QED
        BY <2>2, <3>1, <4>1, Emissions
    <3>2. CASE Opens[ahead].e = "MAPPING-START" /\ Loop(x) = "key"
      <4>1. Emit("MAPPING-START")
        BY <1>3, <3>2
      <4>. QED
        BY <2>2, <3>2, <4>1, Emissions
    <3>. QED
      BY <2>1, <3>1, <3>2
  <2>4. state' = x /\ states' = states
    BY <1>3, <2>1 DEF Goto
  <2>. QED
    BY <1>1, <2>2, <2>3, <2>4, LayersKept
<1>. QED
  BY <1>2, <1>3 DEF Content, Sees

\* What fails leaves the places as they are.
LEMMA FailsStep ==
  ASSUME ParserIInv, ~failed, failed', UNCHANGED <<state, states, building>>,
         \/ marks' = marks
         \/ marks' = marks - 1 /\ state \in Collections \ Pairs /\ Markings(state) = 1
  PROVE  ParserIInv'
<1>1. Layered(states, state, building, marks)
  BY DEF ParserIInv
<1>2. NodesWellFormed /\ StacksBalanced
  BY <1>1, LayeredBalanced
<1>3. marks' \in Nat /\ (state = "END" => marks' = 0)
  <2>1. CASE marks' = marks
    BY <1>2, <2>1 DEF StacksBalanced
  <2>2. CASE marks' = marks - 1 /\ state \in Collections \ Pairs /\ Markings(state) = 1
    <3>1. Markings(state) <= marks /\ marks \in Nat
      BY <1>1, <1>2, <2>2, Peeled DEF StacksBalanced
    <3>2. state # "END"
      BY <2>2, PlacesApart DEF NoDocument
    <3>. QED
      BY <2>2, <3>1, <3>2
  <2>. QED
    BY <2>1, <2>2
<1>4. NodesWellFormed'
  BY <1>2 DEF NodesWellFormed
<1>5. StacksBalanced'
  BY <1>2, <1>3 DEF StacksBalanced
<1>. QED
  BY <1>4, <1>5 DEF ParserIInv

LEMMA FailSteps == ParserIInv /\ (BadDirective \/ BadNode \/ BadItem) => ParserIInv'
<1>. SUFFICES ASSUME ParserIInv, BadDirective \/ BadNode \/ BadItem PROVE ParserIInv'
  OBVIOUS
<1>1. /\ ~failed /\ failed' /\ UNCHANGED <<state, states, building>>
      /\ \/ marks' = marks
         \/ /\ marks' = marks - 1
            /\ state \in {"BLOCK-SEQUENCE", "BLOCK-MAPPING", "FLOW-SEQUENCE", "FLOW-MAPPING"}
  BY DEF BadDirective, BadNode, BadItem, Fails, At
<1>2. \A s \in {"BLOCK-SEQUENCE", "BLOCK-MAPPING", "FLOW-SEQUENCE", "FLOW-MAPPING"} :
        s \in Collections \ Pairs /\ Markings(s) = 1
  BY DEF Collections, Pairs, Markings, Unmarked, InSequence, AtKey, AtValue
<1>. QED
  BY <1>1, <1>2, FailsStep

----------------------------------------------------------------------------
(* Inside of a collection                                                   *)

LEMMA FirstStep == ParserIInv /\ First => ParserIInv'
<1>. SUFFICES ASSUME ParserIInv, First PROVE ParserIInv'
  OBVIOUS
<1>1. /\ ~failed' /\ marks' = marks + 1 /\ states' = states /\ building' = building
      /\ Layered(states, state, building, marks)
      /\ <<state, state'>> \in {<<"FLOW-SEQUENCE-FIRST", "FLOW-SEQUENCE-BEGIN">>,
                                <<"FLOW-MAPPING-FIRST", "FLOW-MAPPING-BEGIN">>,
                                <<"BLOCK-SEQUENCE-FIRST", "BLOCK-SEQUENCE">>,
                                <<"BLOCK-MAPPING-FIRST", "BLOCK-MAPPING">>}
  BY Emissions DEF ParserIInv, First, At, Goto
<1>2. /\ state \in Collections /\ state' \in Collections
      /\ Loop(state') = Loop(state) /\ Loopings(state') = Loopings(state)
      /\ Markings(state) = 0 /\ Markings(state') = 1
  BY <1>1 DEF Collections, Loop, Loopings, Markings, InSequence, AtKey, AtValue, Pairs, Unmarked
<1>3. PICK x \in Collections : x = state'
  BY <1>2
<1>4. Layered(states, x, building, (marks - Markings(state)) + Markings(x))
  BY <1>1, <1>2, <1>3, Moves
<1>5. (marks - Markings(state)) + Markings(x) = marks + 1
  BY <1>1, <1>2, <1>3, LayeredTyped
<1>. QED
  BY <1>1, <1>3, <1>4, <1>5, LayersKept

\* From place to place in one collection.
LEMMA MovesStep ==
  ASSUME ParserIInv, ~failed, ~failed', Silent, UNCHANGED <<states, marks>>,
         state \in Collections, state' \in Collections, Loop(state') = Loop(state),
         Loopings(state') = Loopings(state), Markings(state') = Markings(state)
  PROVE  ParserIInv'
<1>1. Layered(states, state, building, marks) /\ building' = building
  BY Emissions DEF ParserIInv
<1>2. PICK x \in Collections : x = state'
  OBVIOUS
<1>3. Layered(states, x, building, (marks - Markings(state)) + Markings(x))
  BY <1>1, <1>2, Moves
<1>4. (marks - Markings(state)) + Markings(x) = marks
  BY <1>1, <1>2, LayeredTyped, LoopsCollected, FrameKinds
<1>. QED
  BY <1>1, <1>2, <1>3, <1>4, LayersKept

\* An empty node.
LEMMA SkipsStep ==
  ASSUME ParserIInv, ~failed, ~failed', Emit("SCALAR"), UNCHANGED <<states, marks>>,
         state \in Collections, state' \in Collections, Loop(state') = Upon(Loop(state)),
         Loopings(state') = Loopings(state), Markings(state') = Markings(state)
  PROVE  ParserIInv'
<1>1. Layered(states, state, building, marks)
  BY DEF ParserIInv
<1>2. PICK x \in Collections : x = state'
  OBVIOUS
<1>3. Layered(states, x, Counted(building), marks) /\ building # <<>>
  BY <1>1, <1>2, Skips, EmptySeq
<1>4. building' = Counted(building)
  BY <1>3, Emissions
<1>. QED
  BY <1>2, <1>3, <1>4, LayersKept

\* A call for a node.
LEMMA CallsStep ==
  ASSUME ParserIInv, ~failed, ~failed', Silent, UNCHANGED marks,
         state \in Collections, NEW r \in Returns, Awaits(r) = state, r # "DOCUMENT-END",
         Call("NODE", r)
  PROVE  ParserIInv'
<1>1. Layered(states, state, building, marks) /\ building' = building
  BY Emissions DEF ParserIInv
<1>2. PICK q \in NodePlaces : q = "NODE"
  BY DEF NodePlaces
<1>3. Layered(Append(states, r), q, building, marks)
  BY <1>1, Calls
<1>. QED
  BY <1>1, <1>2, <1>3, LayersKept DEF Call

LEMMA ItemPlaces ==
  ASSUME NEW place \in DOMAIN Items
  PROVE  /\ Items[place].next \in Returns \cap Collections
         /\ Awaits(Items[place].next) = place
<1>1. place \in {"BlockEntry", "IndentlessEntry", "BlockKey", "BlockValue",
                 "PairKey", "PairValue", "FlowKey", "FlowValue"}
  BY DEF Items
<1>2. Items[place].next = CASE place = "BlockEntry" -> "BLOCK-SEQUENCE"
                            [] place = "IndentlessEntry" -> "INDENTLESS-SEQUENCE"
                            [] place = "BlockKey" -> "BLOCK-MAPPING-VALUE"
                            [] place = "BlockValue" -> "BLOCK-MAPPING"
                            [] place = "PairKey" -> "PAIR-VALUE"
                            [] place = "PairValue" -> "PAIR-END"
                            [] place = "FlowKey" -> "FLOW-MAPPING-VALUE"
                            [] place = "FlowValue" -> "FLOW-MAPPING"
  BY <1>1 DEF Items, Item
<1>. QED
  BY <1>1, <1>2 DEF Returns, Collections, Awaits, InSequence, AtKey, AtValue

LEMMA AwaitsCollections ==
  ASSUME NEW r \in Returns, r \in Collections
  PROVE  Awaits(r) \in Collections
BY DEF Returns, Awaits, Collections, InSequence, AtKey, AtValue

LEMMA ParseItemStep == ParserIInv /\ ParseItem => ParserIInv'
<1>. SUFFICES ASSUME ParserIInv, ParseItem PROVE ParserIInv'
  OBVIOUS
<1>1. PICK place \in DOMAIN Items :
        /\ ~failed /\ ~failed' /\ UNCHANGED marks /\ state = place
        /\ \/ Emit("SCALAR") /\ Goto(Items[place].next)
           \/ Silent /\ Call("NODE", Items[place].next)
  BY DEF ParseItem, At
<1>2. PICK r \in Returns \cap Collections : r = Items[place].next /\ Awaits(r) = place
  BY ItemPlaces
<1>3. state \in Collections /\ r # "DOCUMENT-END"
  BY <1>1, <1>2, AwaitsCollections, PlacesApart
<1>4. CASE Emit("SCALAR") /\ Goto(r)
  <2>1. /\ Loop(r) = Upon(Loop(state)) /\ Loopings(r) = Loopings(state)
        /\ Markings(r) = Markings(state)
    BY <1>1, <1>2, PlaceKinds
  <2>2. state' = r /\ UNCHANGED <<states, marks>>
    BY <1>1, <1>4 DEF Goto
  <2>. QED
    BY <1>1, <1>2, <1>3, <1>4, <2>1, <2>2, SkipsStep
<1>5. CASE Silent /\ Call("NODE", r)
  BY <1>1, <1>2, <1>3, <1>5, CallsStep
<1>. QED
  BY <1>1, <1>2, <1>4, <1>5

LEMMA AnnounceStep == ParserIInv /\ Announce => ParserIInv'
<1>. SUFFICES ASSUME ParserIInv, Announce PROVE ParserIInv'
  OBVIOUS
<1>1. PICK a \in Announced : /\ ~failed /\ ~failed' /\ Silent /\ UNCHANGED <<states, marks>>
                             /\ state = a[1] /\ state' = a[3]
  BY DEF Announce, At, Goto
<1>2. /\ a[1] \in Collections /\ a[3] \in Collections /\ Loop(a[3]) = Loop(a[1])
      /\ Loopings(a[3]) = Loopings(a[1]) /\ Markings(a[3]) = Markings(a[1])
  BY DEF Announced, Collections, Loop, Loopings, Markings, InSequence, AtKey, AtValue, Pairs,
         Unmarked
<1>. QED
  BY <1>1, <1>2, MovesStep

LEMMA NoValueStep == ParserIInv /\ NoValue => ParserIInv'
<1>. SUFFICES ASSUME ParserIInv, NoValue PROVE ParserIInv'
  OBVIOUS
<1>1. /\ ~failed /\ ~failed' /\ Emit("SCALAR") /\ UNCHANGED <<states, marks>>
      /\ <<state, state'>> \in {<<"BLOCK-MAPPING-VALUE", "BLOCK-MAPPING">>,
                                <<"PAIR-VALUE", "PAIR-END">>,
                                <<"FLOW-MAPPING-VALUE", "FLOW-MAPPING">>,
                                <<"FLOW-MAPPING-EMPTY-VALUE", "FLOW-MAPPING">>}
  BY DEF NoValue, At, Goto
<1>2. /\ state \in Collections /\ state' \in Collections /\ Loop(state') = Upon(Loop(state))
      /\ Loopings(state') = Loopings(state) /\ Markings(state') = Markings(state)
  BY <1>1 DEF Collections, Loop, Loopings, Markings, Upon, InSequence, AtKey, AtValue, Pairs,
              Unmarked
<1>. QED
  BY <1>1, <1>2, SkipsStep

LEMMA FlowNextStep == ParserIInv /\ FlowNext => ParserIInv'
<1>. SUFFICES ASSUME ParserIInv, FlowNext PROVE ParserIInv'
  OBVIOUS
<1>1. /\ ~failed /\ ~failed' /\ Silent /\ UNCHANGED <<states, marks>>
      /\ \/ /\ state \in {"FLOW-SEQUENCE", "FLOW-SEQUENCE-BEGIN"}
            /\ state' = "FLOW-SEQUENCE-ITEM"
         \/ /\ state \in {"FLOW-MAPPING", "FLOW-MAPPING-BEGIN"}
            /\ state' = "FLOW-MAPPING-ITEM"
  BY DEF FlowNext, At, Goto
<1>2. /\ state \in Collections /\ state' \in Collections /\ Loop(state') = Loop(state)
      /\ Loopings(state') = Loopings(state) /\ Markings(state') = Markings(state)
  BY <1>1 DEF Collections, Loop, Loopings, Markings, InSequence, AtKey, AtValue, Pairs, Unmarked
<1>. QED
  BY <1>1, <1>2, MovesStep

LEMMA CollectionEndStep == ParserIInv /\ CollectionEnd => ParserIInv'
<1>. SUFFICES ASSUME ParserIInv, CollectionEnd PROVE ParserIInv'
  OBVIOUS
<1>1. /\ ~failed' /\ Return /\ Layered(states, state, building, marks)
      /\ \/ /\ Emit("SEQUENCE-END") /\ marks' = marks - 1
            /\ state \in {"BLOCK-SEQUENCE", "FLOW-SEQUENCE-BEGIN", "FLOW-SEQUENCE",
                          "FLOW-SEQUENCE-ITEM"}
         \/ /\ Emit("SEQUENCE-END") /\ marks' = marks /\ state = "INDENTLESS-SEQUENCE"
         \/ /\ Emit("MAPPING-END") /\ marks' = marks - 1
            /\ state \in {"BLOCK-MAPPING", "FLOW-MAPPING-BEGIN", "FLOW-MAPPING",
                          "FLOW-MAPPING-ITEM"}
  BY DEF ParserIInv, CollectionEnd, At
<1>2. /\ state \in Collections /\ state \notin Pairs
      /\ \/ Emit("SEQUENCE-END") /\ Loop(state) = "sequence"
         \/ Emit("MAPPING-END") /\ Loop(state) = "key"
      /\ \/ marks' = marks - 1 /\ Markings(state) = 1
         \/ marks' = marks /\ Markings(state) = 0
  BY <1>1 DEF Collections, Loop, Markings, InSequence, AtKey, AtValue, Pairs, Unmarked
<1>3. /\ Last(building) = Loop(state) /\ building # <<>>
      /\ Layered(Front(states), Last(states), Front(building), marks - Markings(state))
  BY <1>1, <1>2, Closed, EmptySeq
<1>4. marks' = marks - Markings(state)
  BY <1>1, <1>2, LayeredTyped
<1>5. building' = Front(building)
  BY <1>2, <1>3, Emissions
<1>. QED
  BY <1>1, <1>3, <1>4, <1>5, LayersKept DEF Return

LEMMA FlowItemStep == ParserIInv /\ FlowItem => ParserIInv'
<1>. SUFFICES ASSUME ParserIInv, FlowItem PROVE ParserIInv'
  OBVIOUS
<1>1. /\ ~failed /\ ~failed' /\ UNCHANGED marks
      /\ \/ state = "FLOW-SEQUENCE-ITEM" /\ Emit("MAPPING-START") /\ Goto("PairKey")
         \/ state = "FLOW-SEQUENCE-ITEM" /\ Silent /\ Call("NODE", "FLOW-SEQUENCE")
         \/ state = "FLOW-MAPPING-ITEM" /\ Silent /\ Call("NODE", "FLOW-MAPPING-EMPTY-VALUE")
  BY DEF FlowItem, At
<1>2. CASE state = "FLOW-SEQUENCE-ITEM" /\ Emit("MAPPING-START") /\ Goto("PairKey")
  <2>1. PICK x \in Pairs : x = "PairKey" /\ Loop(x) = "key"
    BY DEF Pairs, Loop, InSequence, AtKey
  <2>2. PICK l : l = "key"
    OBVIOUS
  <2>3. state \in InSequence /\ Markings(state) = 1
    BY <1>2 DEF InSequence, Markings, Unmarked
  <2>4. Layered(states, state, building, marks)
    BY <1>1 DEF ParserIInv
  <2>5. Layered(states, x, Append(Counted(building), l), marks) /\ building # <<>>
    BY <2>1, <2>2, <2>3, <2>4, PairBegun, EmptySeq
  <2>6. building' = Append(Counted(building), l)
    BY <1>2, <2>2, <2>5, Emissions
  <2>. QED
    BY <1>1, <1>2, <2>1, <2>5, <2>6, LayersKept DEF Goto
<1>3. CASE state = "FLOW-SEQUENCE-ITEM" /\ Silent /\ Call("NODE", "FLOW-SEQUENCE")
  <2>1. PICK r \in Returns : r = "FLOW-SEQUENCE" /\ Awaits(r) = state
    BY <1>3 DEF Returns, Awaits
  <2>2. state \in Collections
    BY <1>3 DEF Collections, InSequence
  <2>. QED
    BY <1>1, <1>3, <2>1, <2>2, CallsStep
<1>4. CASE state = "FLOW-MAPPING-ITEM" /\ Silent /\ Call("NODE", "FLOW-MAPPING-EMPTY-VALUE")
  <2>1. PICK r \in Returns : r = "FLOW-MAPPING-EMPTY-VALUE" /\ Awaits(r) = state
    BY <1>4 DEF Returns, Awaits
  <2>2. state \in Collections
    BY <1>4 DEF Collections, AtKey
  <2>. QED
    BY <1>1, <1>4, <2>1, <2>2, CallsStep
<1>. QED
  BY <1>1, <1>2, <1>3, <1>4

LEMMA PairEndStep == ParserIInv /\ PairEnd => ParserIInv'
<1>. SUFFICES ASSUME ParserIInv, PairEnd PROVE ParserIInv'
  OBVIOUS
<1>1. /\ ~failed' /\ UNCHANGED <<states, marks>> /\ Layered(states, state, building, marks)
      /\ state = "PAIR-END" /\ state' = "FLOW-SEQUENCE" /\ Emit("MAPPING-END")
  BY DEF ParserIInv, PairEnd, At, Goto
<1>2. state \in Pairs /\ Loop(state) = "key"
  BY <1>1 DEF Pairs, Loop, InSequence, AtKey
<1>3. PICK x \in InSequence : x = state' /\ Markings(x) = 1
  BY <1>1 DEF InSequence, Markings, Unmarked
<1>4. /\ Last(building) = Loop(state) /\ building # <<>>
      /\ Layered(states, x, Front(building), marks)
  BY <1>1, <1>2, <1>3, PairEnded, EmptySeq
<1>5. building' = Front(building)
  BY <1>1, <1>2, <1>4, Emissions
<1>. QED
  BY <1>1, <1>3, <1>4, <1>5, LayersKept

LEMMA ParserInitial == ParserInit => ParserIInv
<1>. SUFFICES ASSUME ParserInit PROVE ParserIInv
  OBVIOUS
<1>1. /\ states \in Seq(Returns) /\ building \in Seq(Loops) /\ marks = 0 /\ ~failed
      /\ Len(states) = 0 /\ Len(building) = 0 /\ state = "STREAM-START"
  BY DEF ParserInit
<1>2. PICK x \in NoDocument : x = state
  BY <1>1 DEF NoDocument
<1>3. Layered(states, x, building, marks)
  BY <1>1, NoDocumentLayers
<1>. QED
  BY <1>1, <1>2, <1>3 DEF ParserIInv

LEMMA ParserSteps == ParserIInv /\ [ParserNext]_parserVars => ParserIInv'
<1>1. ASSUME ParserIInv, PeekToken \/ UNCHANGED parserVars PROVE ParserIInv'
  <2>1. UNCHANGED <<failed, state, states, building, marks>>
    BY <1>1 DEF PeekToken, parserVars
  <2>. QED
    BY <1>1, <2>1 DEF ParserIInv, NodesWellFormed, StacksBalanced
<1>. QED
  BY <1>1, StreamStartStep, DocumentStartStep, DirectiveStep, DocumentContentStep,
     DocumentEndStep, BlockNodeStep, AliasStep, PropertyStep, ContentStep, FailSteps, FirstStep,
     ParseItemStep, AnnounceStep, NoValueStep, CollectionEndStep, FlowNextStep, FlowItemStep,
     PairEndStep DEF ParserNext, Parse

\* Whatever tokens the scanner gives, decode.go is never given an event that
\* it panics on, and the parser's stacks of states and of marks are balanced.
THEOREM ParserBalanced == ParserSpec => [](NodesWellFormed /\ StacksBalanced)
<1>1. ParserIInv => NodesWellFormed /\ StacksBalanced
  BY LayeredBalanced DEF ParserIInv
<1>. QED
  BY ParserInitial, ParserSteps, <1>1, PTL DEF ParserSpec

===============================================================================
