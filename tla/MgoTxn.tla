-------------------------------- MODULE MgoTxn --------------------------------
(***************************************************************************)
(* Transactions over several documents of a database that has none         *)
(* (mgo/txn).  Each runner flushes a transaction: it queues a token of it  *)
(* on every document, applies what is queued before it, asserts, and       *)
(* applies its operations one at a time, each an update the database makes *)
(* atomically.  Runners race; one can be killed between any two requests,  *)
(* and another resumes what it left.                                       *)
(*                                                                         *)
(* A step is one request to the database with the computation that follows *)
(* it.  A document that is missing has its queue in the stash.  The value  *)
(* of a document is the sequence of transactions that wrote it.            *)
(***************************************************************************)
EXTENDS Integers, Sequences, FiniteSets, SequencesExt

CONSTANTS
  Runners,
  Txns, Docs,  \* numbers: ids of transactions, keys of documents in order
  Scenarios,   \* what the transactions do, what documents there are, who runs
  Components(_),  \* tarjanSort (MgoTarjan)
  None

ASSUME TxnAssumption ==
  /\ None \notin Txns
  /\ \A sc \in Scenarios :
       /\ sc.runners \subseteq Runners
       /\ sc.ops \in [Txns -> Seq([doc : Docs, kind : {"insert", "update", "remove", "assert"},
                                 assert : {"none", "exists", "fresh", "missing"}])]

VARIABLES
  scenario,  \* [ops |-> operations of each transaction, live |-> documents,
             \*  runners, kills |-> bound on the runners killed]
  doc,       \* the documents: live, txn-revno, txn-queue, txn-remove, value
  stash,     \* the stash: there, txn-revno, txn-queue, txn-insert, nonces
  txn,       \* the transaction documents: state, nonce, revnos
  flusher,   \* per runner: the flusher it runs
  life,      \* per runner: how often it was killed or failed; makes nonces new
  result     \* what Run or Resume said of a transaction

txnVars == <<scenario, doc, stash, txn, flusher, life, result>>

Ops(t) == scenario.ops[t]

\* transaction.docKeys: without duplicates, sorted.
DocKeys(t) == SetToSortSeq({Ops(t)[i].doc : i \in DOMAIN Ops(t)}, <)

NoCopy == [s |-> "none", n |-> None, r |-> <<>>]
Gone == [live |-> FALSE, revno |-> 0, queue |-> <<>>, remove |-> None, val |-> <<>>]
NoStash == [there |-> FALSE, revno |-> 0, queue |-> <<>>, insert |-> None, n |-> {}]

NoFlusher == [goal |-> None, seen |-> [t \in Txns |-> NoCopy],
              queue |-> [d \in Docs |-> <<>>],
              path |-> <<>>,      \* the calls of recurse: [t, k, rest]
              frames |-> <<>>,    \* the calls of advance, the latest last
              sorting |-> FALSE,
              order |-> <<>>]     \* what is left to advance: [t, pull]

\* A call of advance, with the locals of what it calls.
Frame(t, c, pull, force, pc) ==
  [t |-> t, c |-> c, pull |-> pull, force |-> force, pc |-> pc, i |-> 1,
   tok |-> None, revno |-> [d \in Docs |-> 0], revnos |-> <<>>, retry |-> 0,
   why |-> "", q |-> <<>>]

TxnInit ==
  /\ scenario \in Scenarios
  /\ doc = [d \in Docs |-> [Gone EXCEPT !.live = d \in scenario.live]]
  /\ stash = [d \in Docs |-> NoStash]
  /\ txn = [t \in Txns |-> NoCopy]
  /\ flusher = [r \in Runners |-> NoFlusher]
  /\ life = [r \in Runners |-> 0]
  /\ result = [t \in Txns |-> ""]

Done(s) == s \in {"applied", "aborted"}
Id(tok) == tok[1]
Token(t, n) == <<t, n>>

----------------------------------------------------------------------------
(* Computation of the flusher f between requests.  fr is the latest call.  *)

Top(f) == Last(f.frames)
WithTop(f, fr) == [f EXCEPT !.frames[Len(f.frames)] = fr]

\* hasPreReqs: [prereqs, found] of the token in the queues seen.
HasPreReqs(f, tok, keys) ==
  LET at(d) == {i \in DOMAIN f.queue[d] : f.queue[d][i] = tok}
      before(d) == IF at(d) = {} THEN DOMAIN f.queue[d]
                   ELSE {i \in DOMAIN f.queue[d] : \A j \in at(d) : i < j}
  IN [found |-> \A d \in Range(keys) : at(d) # {},
      prereqs |-> \E d \in Range(keys) : \E i \in before(d) : Id(f.queue[d][i]) # Id(tok)]

\* advance returns, with errPreReqs or without an error.
Return(f, fr, preReqs) ==
  LET below == Front(f.frames) IN
  IF below # <<>> THEN [f EXCEPT !.frames = below]
  ELSE [f EXCEPT !.frames = <<>>, !.seen[fr.t] = fr.c,
                 !.path = IF preReqs THEN Append(@, [t |-> fr.t, k |-> 1,
                                               rest |-> f.queue[DocKeys(fr.t)[1]]]) ELSE @]

\* apply, from operation i on: those that the revision makes a miss are passed.
Request(kind) == CASE kind = "update" -> "update" [] kind = "remove" -> "pushNonce"
                   [] kind = "insert" -> "markInsert"
ApplyFrom(f, fr, i) ==
  LET ops == Ops(fr.t)
      asks(j) == \/ ops[j].kind \in {"update", "remove"} /\ fr.c.r[j] >= 0
                 \/ ops[j].kind = "insert" /\ fr.c.r[j] < 0
      left == {j \in DOMAIN ops : j >= i /\ asks(j)}
  IN WithTop(f, IF left = {} THEN [fr EXCEPT !.pc = "setApplied", !.q = <<>>]
                ELSE LET j == CHOOSE x \in left : \A y \in left : x <= y
                     IN [fr EXCEPT !.pc = Request(ops[j].kind), !.i = j, !.q = <<>>])

\* The loop of advance, at the state of the copy c of fr.
Enter(r, f, fr) ==
  LET new(pc, tok) == [Frame(fr.t, fr.c, fr.pull, fr.force, pc) EXCEPT !.tok = tok]
      tok == Token(fr.t, fr.c.n)
      pre == HasPreReqs(f, tok, DocKeys(fr.t))
  IN CASE fr.c.s = "preparing" -> WithTop(f, new("mark", Token(fr.t, <<r, life[r]>>)))
       [] fr.c.s = "prepared" -> IF ~fr.force /\ pre.found /\ pre.prereqs
                                   THEN Return(f, fr, TRUE)
                                   ELSE WithTop(f, new("rescan", tok))
       [] fr.c.s = "applying" -> ApplyFrom(f, new("", tok), 1)
       [] fr.c.s = "aborting" -> WithTop(f, new("setAborted", tok))
       [] Done(fr.c.s) -> Return(f, fr, FALSE)
       [] OTHER -> WithTop(f, new("panic", tok))

\* loadAndApply of t by the latest call, which goes on as fr afterwards.
LoadAndApply(f, fr, t) ==
  LET g == WithTop(f, fr)
  IN [g EXCEPT !.frames = Append(@, Frame(t, NoCopy, {t}, TRUE, "load"))]

\* assert, from operation i on.
AssertFrom(f, fr, i) ==
  LET ops == Ops(fr.t)
      asks(j) == /\ ops[j].assert # "none"
                 /\ ops[j].assert = "missing" => fr.revnos[j] >= 0
      left == {j \in DOMAIN ops : j >= i /\ asks(j)}
  IN WithTop(f, IF left = {} THEN [fr EXCEPT !.pc = "setApplying"]
                ELSE LET j == CHOOSE x \in left : \A y \in left : x <= y
                     IN IF ops[j].assert = "missing" THEN [fr EXCEPT !.pc = "setAborting"]
                        ELSE [fr EXCEPT !.pc = "assert", !.i = j])

\* The revision each operation runs on, when the documents have revno: as
\* prepare counts (inserts and removes turn the sign), and as rescan does.
Counted(kind, n) ==
  CASE kind = "insert" /\ n < 0 -> 1 - n
    [] kind = "update" /\ n >= 0 -> n + 1
    [] kind = "remove" /\ n >= 0 -> -n - 1
    [] OTHER -> n
Rescanned(kind, n) == IF kind = "assert" THEN n ELSE n + 1
Revnos(t, revno, rescanning) ==
  LET count(kind, n) == IF rescanning THEN Rescanned(kind, n) ELSE Counted(kind, n)
      one(acc, op) == [revnos |-> Append(acc.revnos, acc.revno[op.doc]),
                       revno |-> [acc.revno EXCEPT ![op.doc] = count(op.kind, @)]]
  IN FoldLeft(one, [revnos |-> <<>>, revno |-> revno], Ops(t)).revnos

\* prepare or rescan has all queues: errPreReqs, or on to the assertions.
Queued(f, fr, rescanning) ==
  LET tok == Token(fr.t, fr.c.n)
      pre == HasPreReqs(f, tok, DocKeys(fr.t))
  IN IF ~pre.found THEN WithTop(f, [fr EXCEPT !.pc = IF rescanning THEN "panic" ELSE "rescan",
                                                !.i = 1, !.tok = tok])
     ELSE IF pre.prereqs /\ ~fr.force THEN Return(f, fr, TRUE)
     ELSE AssertFrom(f, [fr EXCEPT !.tok = tok, !.revnos = Revnos(fr.t, fr.revno, rescanning)], 1)

\* The document at hand has the queue q and revision n: on to the next one.
NextDoc(f, fr, q, n, rescanning) ==
  LET d == DocKeys(fr.t)[fr.i]
      g == [f EXCEPT !.queue[d] = q]
      fr2 == [fr EXCEPT !.revno[d] = n, !.i = fr.i + 1, !.retry = 0, !.q = <<>>]
      all == fr.i = Len(DocKeys(fr.t))
  IN CASE ~all -> WithTop(g, [fr2 EXCEPT !.pc = IF rescanning THEN "rescan" ELSE "mark"])
       [] all /\ rescanning -> Queued(g, [fr2 EXCEPT !.i = 1], TRUE)
       [] all /\ ~rescanning -> WithTop(g, [fr2 EXCEPT !.pc = "setPrepared", !.i = 1])

\* tokensToPull: what the transactions in pull have done with, up to dontPull.
TokensToPull(f, fr, q, dontPull) ==
  LET nonce(t) == IF t = fr.t THEN fr.c.n ELSE f.seen[t].n
      handled == {j \in DOMAIN q : Id(q[j]) \in fr.pull}
      valid == {j \in handled : q[j] = Token(Id(q[j]), nonce(Id(q[j])))}
      last == IF valid = {} THEN 0 ELSE CHOOSE j \in valid : \A k \in valid : k <= j
      kept == {j \in {last} : j > 0 /\ q[j] = dontPull}
  IN {q[j] : j \in {k \in DOMAIN q : k <= last \/ k \in handled} \ kept}
Pulled(q, toks) == SelectSeq(q, LAMBDA tok : tok \notin toks)

\* The last change of the document by t, or its first assertion.
PullOp(t, i) ==
  LET same == {j \in DOMAIN Ops(t) : Ops(t)[j].doc = Ops(t)[i].doc}
      change == {j \in same : Ops(t)[j].kind # "assert"}
  IN IF change = {} THEN \A j \in same : i <= j
     ELSE i \in change /\ \A j \in change : j <= i

PullAll(f, fr) ==
  TokensToPull(f, fr, f.queue[Ops(fr.t)[fr.i].doc],
               IF PullOp(fr.t, fr.i) THEN None ELSE fr.tok)

----------------------------------------------------------------------------
(* Requests.                                                               *)

Ask(r, pc) == LET f == flusher[r] IN f.frames # <<>> /\ Top(f).pc = pc
Become(r, f) == flusher' = [flusher EXCEPT ![r] = f]
Goto(r, fr, pc) == Become(r, WithTop(flusher[r], [fr EXCEPT !.pc = pc]))
With(q, tok) == IF tok \in Range(q) THEN q ELSE Append(q, tok)
TheDoc(fr) == DocKeys(fr.t)[fr.i]

\* The flush fails: everything it had is lost.
Fail(r) == /\ Become(r, NoFlusher)
           /\ life' = [life EXCEPT ![r] = @ + 1]

\* The document gets the token, unless it is being removed.
Mark(r) ==
  LET f == flusher[r]
      fr == Top(f)
      d == TheDoc(fr)
      q == With(doc[d].queue, fr.tok)
  IN
  /\ Ask(r, "mark")
  /\ IF doc[d].live
       THEN /\ doc' = [doc EXCEPT ![d].queue = q]
            /\ Become(r, IF doc[d].remove = None
                           THEN NextDoc(f, fr, q, doc[d].revno, FALSE)
                           ELSE LoadAndApply(f, fr, doc[d].remove))
       ELSE Goto(r, fr, "markStash") /\ UNCHANGED doc
  /\ UNCHANGED <<scenario, stash, txn, life, result>>

\* The stash gets it, made when there is none, unless it is being inserted.
MarkStash(r) ==
  LET f == flusher[r]
      fr == Top(f)
      d == TheDoc(fr)
  IN
  /\ Ask(r, "markStash")
  /\ stash' = [stash EXCEPT ![d].there = TRUE, ![d].queue = With(@, fr.tok)]
  /\ IF stash[d].insert = None THEN Goto(r, fr, "confirmDoc")
     ELSE Become(r, LoadAndApply(f, [fr EXCEPT !.pc = "mark"], stash[d].insert))
  /\ UNCHANGED <<scenario, doc, txn, life, result>>

\* The document may have come back meanwhile, or the stash gone or changed.
StashedRevno(d) == IF stash[d].revno = 0 THEN -1 ELSE stash[d].revno

ConfirmDoc(r) ==
  LET f == flusher[r]
      fr == Top(f)
      d == TheDoc(fr)
  IN
  /\ Ask(r, "confirmDoc")
  /\ CASE ~doc[d].live -> Goto(r, fr, "confirmStash")
       [] doc[d].live /\ doc[d].remove = None /\ fr.tok \in Range(doc[d].queue) ->
            Become(r, NextDoc(f, fr, doc[d].queue, doc[d].revno, FALSE))
       [] OTHER -> Goto(r, fr, "unstash")
  /\ UNCHANGED <<scenario, doc, stash, txn, life, result>>

ConfirmStash(r) ==
  LET f == flusher[r]
      fr == Top(f)
      d == TheDoc(fr)
  IN
  /\ Ask(r, "confirmStash")
  /\ IF stash[d].there /\ stash[d].insert = None /\ fr.tok \in Range(stash[d].queue)
       THEN Become(r, NextDoc(f, fr, stash[d].queue, StashedRevno(d), FALSE))
       ELSE Goto(r, fr, "unstash")
  /\ UNCHANGED <<scenario, doc, stash, txn, life, result>>

\* unstashToken; the removal that follows asks for a queue equal to an empty
\* document, which no array is.
Unstash(r) ==
  LET fr == Top(flusher[r]) IN
  /\ Ask(r, "unstash")
  /\ stash' = [stash EXCEPT ![TheDoc(fr)].queue = Pulled(@, {fr.tok})]
  /\ Goto(r, fr, "mark")
  /\ UNCHANGED <<scenario, doc, txn, life, result>>

SetPrepared(r) ==
  LET f == flusher[r]
      fr == Top(f)
      c == [s |-> "prepared", n |-> fr.tok[2], r |-> <<>>]
  IN
  /\ Ask(r, "setPrepared")
  /\ IF txn[fr.t].s = "preparing"
       THEN /\ txn' = [txn EXCEPT ![fr.t] = c]
            /\ Become(r, Queued(f, [fr EXCEPT !.c = c], FALSE))
       ELSE /\ Become(r, WithTop(f, [fr EXCEPT !.pc = "reload", !.why = "prepare"]))
            /\ UNCHANGED txn
  /\ UNCHANGED <<scenario, doc, stash, life, result>>

\* reload, and what prepare, rescan, checkpoint or abortOrReload make of it.
Reload(r) ==
  LET f == flusher[r]
      fr == [Top(f) EXCEPT !.c = txn[Top(f).t]]
      s == fr.c.s
  IN
  /\ Ask(r, "reload")
  /\ CASE \/ fr.why = "prepare" /\ s = "preparing"
          \/ fr.why = "popped" /\ s \in {"preparing", "prepared"} -> Goto(r, fr, "panic") /\ UNCHANGED life
       [] fr.why = "prepare" /\ s = "prepared" ->
            Become(r, Queued(f, fr, FALSE)) /\ UNCHANGED life
       [] fr.why = "missing" /\ s = "prepared" /\ fr.retry < 2 ->
            /\ Become(r, WithTop(f, [fr EXCEPT !.pc = "rescan", !.retry = @ + 1]))
            /\ UNCHANGED life
       [] fr.why = "missing" /\ s = "prepared" /\ fr.retry = 2 -> Fail(r)
       [] fr.why = "abort" /\ s = "aborting" -> Goto(r, [fr EXCEPT !.i = 1], "pullAborted") /\ UNCHANGED life
       [] OTHER -> Become(r, Enter(r, f, fr)) /\ UNCHANGED life
  /\ UNCHANGED <<scenario, doc, stash, txn, result>>

\* rescan of a document, or of its stash: a removal or an insertion under way
\* is finished first.
Found(r, q, n) ==
  LET f == flusher[r]
      fr == Top(f)
      g == [f EXCEPT !.queue[TheDoc(fr)] = q]
  IN Become(r, IF fr.tok \in Range(q) THEN NextDoc(f, fr, q, n, TRUE)
               ELSE WithTop(g, [fr EXCEPT !.pc = "reload", !.why = "popped"]))

Rescan(r) ==
  LET f == flusher[r]
      fr == Top(f)
      d == TheDoc(fr)
  IN
  /\ Ask(r, "rescan")
  /\ CASE ~doc[d].live -> Goto(r, fr, "rescanStash")
       [] doc[d].live /\ doc[d].remove # None ->
            Become(r, LoadAndApply(f, fr, doc[d].remove))
       [] OTHER -> Found(r, doc[d].queue, doc[d].revno)
  /\ UNCHANGED <<scenario, doc, stash, txn, life, result>>

RescanStash(r) ==
  LET f == flusher[r]
      fr == Top(f)
      d == TheDoc(fr)
  IN
  /\ Ask(r, "rescanStash")
  /\ CASE ~stash[d].there -> Become(r, WithTop(f, [fr EXCEPT !.pc = "reload", !.why = "missing"]))
       [] stash[d].there /\ stash[d].insert # None ->
            Become(r, LoadAndApply(f, [fr EXCEPT !.pc = "rescan"], stash[d].insert))
       [] OTHER -> Found(r, stash[d].queue, StashedRevno(d))
  /\ UNCHANGED <<scenario, doc, stash, txn, life, result>>

\* The transaction loadAndApply needs.
Load(r) ==
  LET f == flusher[r]
      fr == Top(f)
  IN
  /\ Ask(r, "load")
  /\ Become(r, Enter(r, f, [fr EXCEPT !.c = txn[fr.t]]))
  /\ UNCHANGED <<scenario, doc, stash, txn, life, result>>

\* An assertion holds of the revision the transaction is to be applied on.
FirstRevno(fr, d) ==
  fr.revnos[CHOOSE i \in DOMAIN fr.revnos :
              /\ Ops(fr.t)[i].doc = d
              /\ \A j \in 1 .. i - 1 : Ops(fr.t)[j].doc # d]
Holds(assert, live, val) == CASE assert = "exists" -> live
                              [] assert = "fresh" -> live /\ val = <<>>
                              [] assert = "missing" -> ~live
                              [] assert = "none" -> TRUE

TestAssert(r) ==
  LET f == flusher[r]
      fr == Top(f)
      op == Ops(fr.t)[fr.i]
      d == op.doc
  IN
  /\ Ask(r, "assert")
  /\ IF doc[d].revno = FirstRevno(fr, d) /\ Holds(op.assert, doc[d].live, doc[d].val)
       THEN Become(r, AssertFrom(f, fr, fr.i + 1))
       ELSE Goto(r, fr, "setAborting")
  /\ UNCHANGED <<scenario, doc, stash, txn, life, result>>

\* Mutant: the state it was in is not asked for.
SetAbortingAlways(r) ==
  LET fr == Top(flusher[r]) IN
  /\ Ask(r, "setAborting")
  /\ txn' = [txn EXCEPT ![fr.t].s = "aborting"]
  /\ Goto(r, [fr EXCEPT !.i = 1, !.c.s = "aborting"], "pullAborted")
  /\ UNCHANGED <<scenario, doc, stash, life, result>>

SetAborting(r) ==
  LET f == flusher[r]
      fr == Top(f)
  IN
  /\ Ask(r, "setAborting")
  /\ IF txn[fr.t].s = "prepared"
       THEN /\ txn' = [txn EXCEPT ![fr.t].s = "aborting"]
            /\ Goto(r, [fr EXCEPT !.i = 1, !.c.s = "aborting"], "pullAborted")
       ELSE /\ Become(r, WithTop(f, [fr EXCEPT !.pc = "reload", !.why = "abort"]))
            /\ UNCHANGED txn
  /\ UNCHANGED <<scenario, doc, stash, life, result>>

\* The tokens leave the queue of each document, once per document.
PullFrom(d, toks, stashed) ==
  IF stashed THEN /\ stash' = [stash EXCEPT ![d].queue = Pulled(@, toks)]
                  /\ UNCHANGED doc
  ELSE /\ doc' = [doc EXCEPT ![d].queue = Pulled(@, toks)]
       /\ UNCHANGED stash

PullAborted(r) ==
  LET f == flusher[r]
      fr == Top(f)
      op == Ops(fr.t)[fr.i]
      first == \A j \in 1 .. fr.i - 1 : Ops(fr.t)[j].doc # op.doc
  IN
  /\ Ask(r, "pullAborted")
  /\ IF first THEN PullFrom(op.doc, TokensToPull(f, fr, f.queue[op.doc], None), fr.revnos[fr.i] < 0)
              ELSE UNCHANGED <<doc, stash>>
  /\ IF fr.i = Len(Ops(fr.t)) THEN Goto(r, fr, "setAborted")
     ELSE Goto(r, [fr EXCEPT !.i = @ + 1], "pullAborted")
  /\ UNCHANGED <<scenario, txn, life, result>>

SetAborted(r) ==
  LET f == flusher[r]
      fr == [Top(f) EXCEPT !.c.s = "aborted"]
  IN
  /\ Ask(r, "setAborted")
  /\ txn' = [txn EXCEPT ![fr.t].s = "aborted"]
  /\ Become(r, Return(f, fr, FALSE))
  /\ UNCHANGED <<scenario, doc, stash, life, result>>

\* checkpoint: the revisions are written with the state.
SetApplying(r) ==
  LET f == flusher[r]
      fr == Top(f)
      c == [fr.c EXCEPT !.s = "applying", !.r = fr.revnos]
  IN
  /\ Ask(r, "setApplying")
  /\ IF txn[fr.t].s = "prepared"
       THEN /\ txn' = [txn EXCEPT ![fr.t] = [@ EXCEPT !.s = "applying", !.r = fr.revnos]]
            /\ Become(r, Enter(r, f, [fr EXCEPT !.c = c]))
       ELSE /\ Become(r, WithTop(f, [fr EXCEPT !.pc = "reload", !.why = "checkpoint"]))
            /\ UNCHANGED txn
  /\ UNCHANGED <<scenario, doc, stash, life, result>>

----------------------------------------------------------------------------
(* apply: the requests of each kind of operation.                          *)

NextOp(r, f, fr) == Become(r, ApplyFrom(f, fr, fr.i + 1))
Revno(fr) == fr.c.r[fr.i]
OpDoc(fr) == Ops(fr.t)[fr.i].doc

\* Mutant: whatever its revision.
DocFitsToken(fr) == LET d == doc[OpDoc(fr)] IN d.live /\ fr.tok \in Range(d.queue)

\* The document is as the operation expects it: qdoc.
DocFits(fr) == LET d == doc[OpDoc(fr)] IN
  d.live /\ d.revno = Revno(fr) /\ fr.tok \in Range(d.queue)
StashFits(fr) == LET s == stash[OpDoc(fr)] IN
  /\ s.there /\ fr.tok \in Range(s.queue)
  /\ s.revno = IF Revno(fr) = -1 THEN 0 ELSE Revno(fr)

Update(r) ==
  LET f == flusher[r]
      fr == Top(f)
      d == doc[OpDoc(fr)]
      written == [d EXCEPT !.queue = Pulled(d.queue, PullAll(f, fr)), !.revno = d.revno + 1,
                           !.val = Append(d.val, fr.t)]
  IN
  /\ Ask(r, "update")
  /\ doc' = IF DocFits(fr) THEN [doc EXCEPT ![OpDoc(fr)] = written] ELSE doc
  /\ NextOp(r, f, fr)
  /\ UNCHANGED <<scenario, stash, txn, life, result>>

\* Remove: the stash is made and marked with a nonce, the document marked, its
\* queue moved to the stash unless that has changed, and the document removed.
Nonce(r, fr) == <<r, life[r], fr.t, fr.i>>

PushNonce(r) ==
  LET f == flusher[r]
      fr == Top(f)
      d == OpDoc(fr)
  IN
  /\ Ask(r, "pushNonce")
  /\ stash' = [stash EXCEPT ![d].there = TRUE, ![d].n = @ \cup {Nonce(r, fr)}]
  /\ Goto(r, [fr EXCEPT !.q = stash[d].queue], "markRemove")
  /\ UNCHANGED <<scenario, doc, txn, life, result>>

MarkRemove(r) ==
  LET f == flusher[r]
      fr == Top(f)
      d == OpDoc(fr)
  IN
  /\ Ask(r, "markRemove")
  /\ IF DocFits(fr)
       THEN /\ doc' = [doc EXCEPT ![d].remove = fr.t]
            /\ Goto(r, [fr EXCEPT !.q = doc[d].queue],
                    IF fr.tok \in Range(fr.q) THEN "removeDoc" ELSE "restash")
       ELSE NextOp(r, f, fr) /\ UNCHANGED doc
  /\ UNCHANGED <<scenario, stash, txn, life, result>>

Restash(r) ==
  LET fr == Top(flusher[r])
      d == OpDoc(fr)
  IN
  /\ Ask(r, "restash")
  /\ stash' = IF Nonce(r, fr) \in stash[d].n
                THEN [stash EXCEPT ![d] =
                        [@ EXCEPT !.queue = fr.q, !.n = {},
                                  !.revno = IF Revno(fr) = 0 THEN 0 ELSE -Revno(fr) - 1]]
                ELSE stash
  /\ Goto(r, fr, "removeDoc")
  /\ UNCHANGED <<scenario, doc, txn, life, result>>

DeleteDoc(r) ==
  LET f == flusher[r]
      fr == Top(f)
  IN
  /\ Ask(r, "removeDoc")
  /\ doc' = IF DocFits(fr) THEN [doc EXCEPT ![OpDoc(fr)] = Gone] ELSE doc
  /\ NextOp(r, f, fr)
  /\ UNCHANGED <<scenario, stash, txn, life, result>>

\* Insert: the stash is marked, the document made from it, the stash removed;
\* a stash that is there again by then loses what is done with.
MarkInsert(r) ==
  LET f == flusher[r]
      fr == Top(f)
      d == OpDoc(fr)
  IN
  /\ Ask(r, "markInsert")
  /\ IF StashFits(fr)
       THEN /\ stash' = [stash EXCEPT ![d].insert = fr.t]
            /\ Goto(r, [fr EXCEPT !.q = stash[d].queue], "insertDoc")
       ELSE NextOp(r, f, fr) /\ UNCHANGED stash
  /\ UNCHANGED <<scenario, doc, txn, life, result>>

InsertDoc(r) ==
  LET fr == Top(flusher[r])
      d == OpDoc(fr)
  IN
  /\ Ask(r, "insertDoc")
  /\ doc' = IF doc[d].live THEN doc
            ELSE [doc EXCEPT ![d] = [live |-> TRUE, revno |-> 1 - Revno(fr), queue |-> fr.q,
                                     remove |-> None, val |-> <<fr.t>>]]
  /\ Goto(r, fr, "dropStash")
  /\ UNCHANGED <<scenario, stash, txn, life, result>>

DropStash(r) ==
  LET f == flusher[r]
      fr == Top(f)
  IN
  /\ Ask(r, "dropStash")
  /\ stash' = IF StashFits(fr) THEN [stash EXCEPT ![OpDoc(fr)] = NoStash] ELSE stash
  /\ IF PullOp(fr.t, fr.i) /\ PullAll(f, fr) # {} THEN Goto(r, fr, "pullStash")
                                                  ELSE NextOp(r, f, fr)
  /\ UNCHANGED <<scenario, doc, txn, life, result>>

PullStash(r) ==
  LET f == flusher[r]
      fr == Top(f)
  IN
  /\ Ask(r, "pullStash")
  /\ stash' = [stash EXCEPT ![OpDoc(fr)].queue = Pulled(@, PullAll(f, fr))]
  /\ NextOp(r, f, fr)
  /\ UNCHANGED <<scenario, doc, txn, life, result>>

SetApplied(r) ==
  LET f == flusher[r]
      fr == [Top(f) EXCEPT !.c.s = "applied"]
  IN
  /\ Ask(r, "setApplied")
  /\ txn' = IF txn[fr.t].s = "applying" THEN [txn EXCEPT ![fr.t].s = "applied"] ELSE txn
  /\ Become(r, Return(f, fr, FALSE))
  /\ UNCHANGED <<scenario, doc, stash, life, result>>

----------------------------------------------------------------------------
(* Run, Resume and flusher.run.                                            *)

FlushTxn(r, t, c) ==
  Become(r, Enter(r, [NoFlusher EXCEPT !.goal = t,
                                       !.frames = <<Frame(t, c, {t}, FALSE, "")>>],
                  Frame(t, c, {t}, FALSE, "")))

Run(r, t) ==
  LET c == [NoCopy EXCEPT !.s = "preparing"] IN
  /\ flusher[r].goal = None
  /\ txn[t].s = "none"
  /\ txn' = [txn EXCEPT ![t] = c]
  /\ FlushTxn(r, t, c)
  /\ UNCHANGED <<scenario, doc, stash, life, result>>

\* Resume of one that is not done.
Resumable(t) == txn[t].s \in {"preparing", "prepared", "applying", "aborting"}
Resume(r, t) ==
  /\ flusher[r].goal = None
  /\ Resumable(t)
  /\ FlushTxn(r, t, txn[t])
  /\ UNCHANGED <<scenario, doc, stash, txn, life, result>>

\* The calls of recurse that still have a transaction to load: the first one
\* not seen yet in the queues, from where the call is.
Unseen(f, q) == {i \in DOMAIN q : f.seen[Id(q[i])].s = "none"}
QueueAt(f, e, k) == IF k = e.k THEN e.rest ELSE f.queue[DocKeys(e.t)[k]]
KeysLeft(f, e) == {k \in e.k .. Len(DocKeys(e.t)) : Unseen(f, QueueAt(f, e, k)) # {}}
CallsLeft(f) == {m \in DOMAIN f.path : KeysLeft(f, f.path[m]) # {}}

LeastOf(S) == CHOOSE x \in S : \A y \in S : x <= y
GreatestOf(S) == CHOOSE x \in S : \A y \in S : y <= x

Recurse(r) ==
  LET f == flusher[r]
      m == GreatestOf(CallsLeft(f))
      e == f.path[m]
      k == LeastOf(KeysLeft(f, e))
      q == QueueAt(f, e, k)
      i == LeastOf(Unseen(f, q))
      t == Id(q[i])
      fr == Frame(t, txn[t], {t}, FALSE, "")
      e2 == [e EXCEPT !.k = k, !.rest = SubSeq(q, i + 1, Len(q))]
  IN
  /\ f.goal # None /\ f.frames = <<>> /\ ~f.sorting /\ CallsLeft(f) # {}
  /\ Become(r, Enter(r, [f EXCEPT !.path = Append(SubSeq(@, 1, m - 1), e2),
                                  !.frames = <<fr>>], fr))
  /\ UNCHANGED <<scenario, doc, stash, txn, life, result>>

\* Successors in the queues, of the tokens that are valid.
Valid(f, q) == SelectSeq(q, LAMBDA tok : /\ f.seen[Id(tok)].s # "none"
                                         /\ f.seen[Id(tok)].n = tok[2])
Successors(f) ==
  LET valid == [d \in Docs |-> Valid(f, f.queue[d])]
      ids == {Id(tok) : tok \in UNION {Range(valid[d]) : d \in Docs}}
  IN [t \in ids |-> {u \in ids : \E d \in Docs : \E i \in 1 .. Len(valid[d]) - 1 :
                                   Id(valid[d][i]) = t /\ Id(valid[d][i + 1]) = u}]

\* The components backwards; while one of several is applied, only those before
\* it are pulled out of the queues.
Ordered(components) ==
  LET one(acc, c) ==
        [pull |-> acc.pull \cup Range(c),
         order |-> acc.order \o [i \in DOMAIN c |->
                     [t |-> c[i], pull |-> IF Len(c) = 1 THEN acc.pull \cup {c[i]}
                                                         ELSE acc.pull]]]
  IN FoldLeft(one, [pull |-> {}, order |-> <<>>], Reverse(components)).order

Sort(r) ==
  LET f == flusher[r]
      succ == Successors(f)
      ready == \A t \in DOMAIN succ : f.goal \notin succ[t]
  IN
  /\ f.goal # None /\ f.frames = <<>> /\ ~f.sorting /\ CallsLeft(f) = {}
  /\ ~Done(f.seen[f.goal].s)
  /\ Become(r, [f EXCEPT !.sorting = TRUE, !.path = <<>>,
                         !.order = IF ready THEN <<[t |-> f.goal, pull |-> {f.goal}]>>
                                   ELSE Ordered(Components(succ))])
  /\ UNCHANGED <<scenario, doc, stash, txn, life, result>>

Advance(r) ==
  LET f == flusher[r]
      o == Head(f.order)
      fr == Frame(o.t, f.seen[o.t], o.pull, TRUE, "")
  IN
  /\ f.sorting /\ f.frames = <<>> /\ f.order # <<>>
  /\ Become(r, Enter(r, [f EXCEPT !.order = Tail(@), !.frames = <<fr>>], fr))
  /\ UNCHANGED <<scenario, doc, stash, txn, life, result>>

Finish(r) ==
  LET f == flusher[r]
      s == f.seen[f.goal].s
  IN
  /\ f.goal # None /\ f.frames = <<>> /\ f.order = <<>>
  /\ f.sorting \/ (CallsLeft(f) = {} /\ Done(s))
  /\ IF Done(s) THEN /\ result' = [result EXCEPT ![f.goal] = s]
                     /\ Become(r, NoFlusher)
     ELSE /\ Become(r, [f EXCEPT !.frames = <<Frame(f.goal, f.seen[f.goal], {}, TRUE, "panic")>>])
          /\ UNCHANGED result
  /\ UNCHANGED <<scenario, doc, stash, txn, life>>

Kill(r) ==
  /\ flusher[r].goal # None
  /\ FoldFunction(+, 0, life) < scenario.kills
  /\ Fail(r)
  /\ UNCHANGED <<scenario, doc, stash, txn, result>>

FlushStep(r) ==
  \/ Mark(r) \/ MarkStash(r) \/ ConfirmDoc(r) \/ ConfirmStash(r) \/ Unstash(r)
  \/ SetPrepared(r) \/ Reload(r) \/ Rescan(r) \/ RescanStash(r) \/ Load(r)
  \/ TestAssert(r) \/ SetAborting(r) \/ PullAborted(r) \/ SetAborted(r) \/ SetApplying(r)
  \/ Update(r) \/ PushNonce(r) \/ MarkRemove(r) \/ Restash(r) \/ DeleteDoc(r)
  \/ MarkInsert(r) \/ InsertDoc(r) \/ DropStash(r) \/ PullStash(r) \/ SetApplied(r)
  \/ Recurse(r) \/ Sort(r) \/ Advance(r) \/ Finish(r)

TxnNext == \E r \in scenario.runners :
  \/ FlushStep(r) \/ Kill(r)
  \/ \E t \in Txns : Run(r, t) \/ Resume(r, t)

\* Runners get on, and what was left is resumed: weak fairness of FlushStep(r)
\* and of Resume(r, t) for some t, with what enables them spelled out, as TLC
\* takes too long to find it.
Running(r) == flusher[r].goal # None /\ \A i \in DOMAIN flusher[r].frames :
                                          flusher[r].frames[i].pc # "panic"
CanResume(r) == r \in scenario.runners /\ flusher[r].goal = None /\ \E t \in Txns : Resumable(t)
GetsOn(r) == Running(r) /\ flusher'[r] # flusher[r]
Resumes(r) == CanResume(r) /\ flusher'[r] # flusher[r]
TxnFairness == \A r \in Runners :
  /\ []<>~Running(r) \/ []<><<GetsOn(r)>>_flusher
  /\ []<>~CanResume(r) \/ []<><<Resumes(r)>>_flusher

TxnSpec == TxnInit /\ [][TxnNext]_txnVars /\ TxnFairness

----------------------------------------------------------------------------
\* No panic of the package is reached (txn.go:308, flusher.go:183, 337, 472, 480).
NoTxnPanic == \A r \in Runners : \A i \in DOMAIN flusher[r].frames :
                flusher[r].frames[i].pc # "panic"

\* What an operation of t does to the documents, and a transaction whose
\* assertions hold of them.
Effect(t, docs, op) ==
  LET d == docs[op.doc]
      put(live, val) == [docs EXCEPT ![op.doc] = [live |-> live, val |-> val]]
  IN CASE op.kind = "insert" /\ ~d.live -> put(TRUE, <<t>>)
       [] op.kind = "update" /\ d.live -> put(TRUE, Append(d.val, t))
       [] op.kind = "remove" -> put(FALSE, <<>>)
       [] OTHER -> docs
AllHold(t, docs) == \A i \in DOMAIN Ops(t) :
  LET op == Ops(t)[i] IN Holds(op.assert, docs[op.doc].live, docs[op.doc].val)
AfterTxn(docs, t) ==
  IF AllHold(t, docs) THEN FoldLeft(LAMBDA ds, op : Effect(t, ds, op), docs, Ops(t)) ELSE docs

\* The transactions done, run one after the other in some order, are applied
\* where their assertions hold, aborted where not, and leave the documents as
\* they are: each was applied as a whole and once, or not at all.
Quiet == /\ \A r \in Runners : flusher[r].goal = None
         /\ \A t \in Txns : txn[t].s = "none" \/ Done(txn[t].s)
Serializable == Quiet =>
  LET done == {t \in Txns : Done(txn[t].s)}
      start == [d \in Docs |-> [live |-> d \in scenario.live, val |-> <<>>]]
      before(order, n) == FoldLeft(AfterTxn, start, SubSeq(order, 1, n))
  IN \E order \in SetToSeqs(done) :
       /\ \A n \in DOMAIN order :
            (txn[order[n]].s = "applied") <=> AllHold(order[n], before(order, n - 1))
       /\ before(order, Len(order)) = [d \in Docs |-> [live |-> doc[d].live, val |-> doc[d].val]]

\* Whoever was told how a transaction ended was told the truth.
ResultsTrue == \A t \in Txns : result[t] # "" => txn[t].s = result[t]

\* Only a transaction that is being applied, or was, has left anything in the
\* documents or is named as the one that removes or inserts them.
NoTraces == \A t \in Txns : txn[t].s \notin {"applying", "applied"} =>
  \A d \in Docs : t \notin Range(doc[d].val) /\ doc[d].remove # t /\ stash[d].insert # t

TxnInv == NoTxnPanic /\ Serializable /\ ResultsTrue /\ NoTraces

\* A transaction never changes its mind: applied and aborted are for ever, and
\* one that is being applied, perhaps by several, is not aborted.
Decides == [][\A t \in Txns :
  /\ Done(txn[t].s) => txn'[t].s = txn[t].s
  /\ txn[t].s = "applying" => txn'[t].s \in {"applying", "applied"}]_txn

\* What is begun is ended, whoever is killed.
TxnsEnd == \A t \in Txns : txn[t].s # "none" ~> Done(txn[t].s)
=============================================================================
