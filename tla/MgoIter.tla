------------------------------- MODULE MgoIter -------------------------------
(* An iterator of mgo over the results of a query (Iter and Tail, session.go).*)
(* The goroutine of the user calls Next and Close; the goroutine that reads   *)
(* the socket calls the iterator's replyFunc, once for each document.  Both   *)
(* run under the lock iter.m, which Next keeps while getMore asks the server  *)
(* for another batch and gives up only while it waits for a reply.            *)
EXTENDS Integers, SequencesExt

CONSTANTS Total,      \* documents the query matches
          MaxBatch,   \* most documents the server sends when it chooses
          Queries     \* the queries, as the operators below build them

\* The limits and sizes of a query, whoever built it: a size of 1 is asked for
\* as 2, or as -1 when it is the limit.
ASSUME IterAssumption ==
    /\ Total \in Nat /\ MaxBatch \in Nat \ {0}
    /\ Queries \subseteq [limit : Nat, opLimit : Int \ {1}, prefetch : Int, tail : BOOLEAN,
                           reserved : BOOLEAN, late : BOOLEAN]

VARIABLES iter,     \* fields of the Iter
          user,     \* where its user is: in Next, in getMore, waiting...
          net,      \* the queries and replies under way, in the order asked
          cursor,   \* external: the server's cursor [next, open]
          given,    \* history: documents Next has taken from docData
          initial,  \* the query
          closed    \* history: "no", or what Close left: "clean", "early", "failed"

iterVars == <<iter, user, net, cursor, given, initial, closed>>

MinInt32 == -2147483647 - 1
MaxInt32 == 2147483647

--------------------------------------------------------------------------------
(* The query: Limit, Batch and Prefetch (in quarters of a batch).             *)

Limit(q, n) ==
    [q EXCEPT !.limit = IF n = MinInt32 THEN MaxInt32 ELSE IF n < 0 THEN -n ELSE n,
              !.opLimit = IF n = 1 THEN -1
                          ELSE IF n = MinInt32 THEN MinInt32 + 1 ELSE n]

\* The server takes 1 for -1 and closes the cursor.
Batch(q, n) == [q EXCEPT !.opLimit = IF n = 1 THEN 2 ELSE n]

Prefetch(q, quarters) == [q EXCEPT !.prefetch = quarters]

Find == [limit |-> 0, opLimit |-> 0, prefetch |-> 1, tail |-> FALSE,
         reserved |-> TRUE, late |-> FALSE]

\* Tail leaves the limit of the query out of its iterator.
TailOf(q) == [q EXCEPT !.limit = 0, !.tail = TRUE]

\* Through a session that has no socket of its own (Eventual).
Unreserved(q) == [q EXCEPT !.reserved = FALSE]

\* Over a connection that may die just before it is written to.
Dying(q) == [q EXCEPT !.late = TRUE]

\* A query that keeps to its own limit: each batch fits in what is left, and a
\* size that the server takes as a limit is that of the query.  A socket of its
\* own orders the replies: with two, a batch may be asked for while one that
\* was asked for before is still being read (WithinLimit).
Fits(q) == \/ q.limit = 0 /\ q.opLimit >= 0
           \/ /\ q.reserved
              /\ q.opLimit \in 1 .. q.limit \/ (q.limit > 0 /\ q.opLimit = -q.limit)

--------------------------------------------------------------------------------

Asked(limit) == [at |-> "asked", limit |-> limit, docs |-> <<>>, n |-> 0, open |-> FALSE]

IterInit == /\ initial \in Queries
            /\ iter = [docData |-> <<>>, docsToReceive |-> 1, docsBeforeMore |-> 0,
                       cursorId |-> FALSE, opLimit |-> initial.opLimit,
                       limit |-> initial.limit, err |-> "nil", timedout |-> FALSE]
            /\ user = "idle"
            /\ net = <<Asked(initial.opLimit)>>
            /\ cursor = [next |-> 1, open |-> FALSE]
            /\ given = <<>>
            /\ closed = "no"

--------------------------------------------------------------------------------
(* The server (external) and the connection.                                  *)

Remaining == Total - cursor.next + 1
Lesser(a, b) == IF a < b THEN a ELSE b

\* Sizes of the batch a limit may get, and whether the cursor stays open.
Sizes(limit) == IF limit = 0 THEN {Lesser(MaxBatch, Remaining), Lesser(1, Remaining)}
                ELSE {Lesser(IF limit < 0 THEN -limit ELSE limit, Remaining)}
StaysOpen(limit, n) == IF limit < 0 \/ limit = 1 THEN {FALSE}
                       ELSE IF initial.tail THEN {TRUE}
                       ELSE IF n < Remaining THEN {TRUE}
                       ELSE IF n = limit THEN {TRUE, FALSE} ELSE {FALSE}

ServerReplies ==
    \E i \in DOMAIN net :
        /\ net[i].at = "asked"
        /\ \E n \in Sizes(net[i].limit) : \E open \in StaysOpen(net[i].limit, n) :
              /\ net' = [net EXCEPT ![i] = [at |-> "reply", limit |-> 0, n |-> n, open |-> open,
                                           docs |-> [d \in 1..n |-> cursor.next + d - 1]]]
              /\ cursor' = [next |-> cursor.next + n, open |-> open]
        /\ UNCHANGED <<iter, user, given, initial, closed>>

\* Replies of one socket are read one after the other; those of two sockets,
\* which only a session without a reserved socket uses, are not.
Readable == {i \in DOMAIN net : net[i].at = "reply" /\ (initial.reserved => i = 1)}

Locked == user \notin {"idle", "waiting"}
Woken == IF user = "waiting" THEN "next" ELSE user

\* replyFunc for one document: the first one of a reply tells how many more
\* come, and when to ask for the next batch.

replyDoc(r) ==
    LET docNum == r.n - Len(r.docs)
        docsToProcess == Len(iter.docData) + r.n
        counted == [iter EXCEPT !.docsToReceive = @ - 1 + (IF docNum = 0 THEN r.n - 1 ELSE 0),
                                !.docData = Append(@, Head(r.docs))]
    IN IF docNum # 0 THEN counted
       ELSE [counted EXCEPT
               !.docsBeforeMore = IF iter.limit = 0 \/ docsToProcess < iter.limit
                                  THEN docsToProcess - ((initial.prefetch * r.n) \div 4)
                                  ELSE -1,
               !.cursorId = r.open]

DocArrives ==
    \E i \in Readable :
        /\ net[i].docs # <<>>
        /\ ~Locked
        /\ iter' = replyDoc(net[i])
        /\ net' = IF Len(net[i].docs) = 1 THEN RemoveAt(net, i)
                  ELSE [net EXCEPT ![i].docs = Tail(@)]
        /\ user' = Woken
        /\ UNCHANGED <<cursor, given, initial, closed>>

\* replyFunc of a reply without documents.
EmptyReplyArrives ==
    \E i \in Readable :
        /\ net[i].n = 0
        /\ ~Locked
        /\ iter' = [iter EXCEPT !.docsToReceive = @ - 1,
                                !.cursorId = net[i].open \/ @,
                                !.err = IF net[i].open THEN @ ELSE "ErrNotFound"]
        /\ net' = RemoveAt(net, i)
        /\ user' = Woken
        /\ UNCHANGED <<cursor, given, initial, closed>>

\* The connection is lost: replyFunc gets the error, once for every query
\* that was under way.
ConnectionLost ==
    /\ initial.reserved
    /\ net # <<>>
    /\ ~Locked
    /\ iter' = [iter EXCEPT !.docsToReceive = @ - Len(net), !.err = "dead"]
    /\ net' = <<>>
    /\ user' = Woken
    /\ UNCHANGED <<cursor, given, initial, closed>>

--------------------------------------------------------------------------------
(* Next.                                                                      *)

Starts ==
    /\ user = "idle" /\ closed = "no"
    /\ user' = "next"
    /\ iter' = [iter EXCEPT !.timedout = FALSE]
    /\ UNCHANGED <<net, cursor, given, initial, closed>>

MustWait == /\ iter.err = "nil"
            /\ iter.docData = <<>>
            /\ iter.docsToReceive > 0 \/ iter.cursorId

Waits == /\ user = "next" /\ MustWait /\ iter.docsToReceive > 0
         /\ user' = "waiting"
         /\ UNCHANGED <<iter, net, cursor, given, initial, closed>>

TimesOut == /\ user = "next" /\ MustWait /\ iter.docsToReceive = 0
            /\ initial.tail
            /\ iter' = [iter EXCEPT !.timedout = TRUE]
            /\ user' = "idle"
            /\ UNCHANGED <<net, cursor, given, initial, closed>>

AsksMore == /\ user = "next" /\ MustWait /\ iter.docsToReceive = 0
            /\ user' = "getMore"
            /\ UNCHANGED <<iter, net, cursor, given, initial, closed>>

\* killCursor: nothing to do without a cursor; otherwise it may find no socket.
Killed(x) == [x EXCEPT !.cursorId = FALSE]

\* The first document of docData leaves; the limit may be used up with it.
Popped == [iter EXCEPT !.docData = Tail(@),
                       !.limit = IF @ > 0 THEN @ - 1 ELSE @]
UsedUp == iter.limit = 1

TakesLast ==
    /\ user = "next" /\ ~MustWait /\ iter.docData # <<>> /\ UsedUp
    /\ given' = Append(given, Head(iter.docData))
    /\ IF Len(iter.docData) > 1
       THEN /\ user' = "panicked"   \* data remains after limit exhausted
            /\ iter' = Popped
            /\ UNCHANGED cursor
       ELSE /\ user' = "idle"
            /\ \/ /\ iter' = Killed([Popped EXCEPT !.err = "ErrNotFound"])
                  /\ cursor' = [cursor EXCEPT !.open = @ /\ ~iter.cursorId]
               \/ /\ iter.cursorId
                  /\ iter' = Killed([Popped EXCEPT !.err = "unavailable"])
                  /\ UNCHANGED cursor
    /\ UNCHANGED <<net, initial, closed>>

\* Any other document: time to prefetch, or one document nearer to it.
Prefetches == iter.cursorId /\ iter.err = "nil" /\ iter.docsBeforeMore = 0
Counts == iter.cursorId /\ iter.err = "nil"

Takes ==
    /\ user = "next" /\ ~MustWait /\ iter.docData # <<>> /\ ~UsedUp
    /\ given' = Append(given, Head(iter.docData))
    /\ iter' = IF Counts THEN [Popped EXCEPT !.docsBeforeMore = @ - 1] ELSE Popped
    /\ user' = IF Prefetches THEN "moreInPop" ELSE "idle"
    /\ UNCHANGED <<net, cursor, initial, closed>>

\* Unmarshalling the document fails, or it is the report of an error.
Spoils ==
    /\ user = "idle" /\ given # <<>> /\ iter.err = "nil" /\ closed = "no"
    /\ iter' = [iter EXCEPT !.err = "bad document"]
    /\ UNCHANGED <<user, net, cursor, given, initial, closed>>

Exhausted ==
    /\ user = "next" /\ ~MustWait /\ iter.docData = <<>>
    /\ iter' = IF iter.err = "nil" THEN [iter EXCEPT !.err = "ErrNotFound"] ELSE iter
    /\ user' = "idle"
    /\ UNCHANGED <<net, cursor, given, initial, closed>>

--------------------------------------------------------------------------------
(* getMore, from the loop of Next or to prefetch: acquireSocket, then Query,  *)
(* both with iter.m held.                                                     *)

After == IF user \in {"moreInPop", "queryInPop"} THEN "idle" ELSE "next"

\* Mutant: the next batch is not cut to the limit.
AcquiresSocketUnclamped ==
    /\ user \in {"getMore", "moreInPop"}
    /\ user' = IF user = "getMore" THEN "query" ELSE "queryInPop"
    /\ UNCHANGED <<iter, net, cursor, given, initial, closed>>

AcquiresSocket ==
    LET left == iter.limit - iter.docsToReceive - Len(iter.docData)
    IN /\ user \in {"getMore", "moreInPop"}
       /\ \/ /\ user' = IF user = "getMore" THEN "query" ELSE "queryInPop"
             /\ iter' = [iter EXCEPT !.opLimit = IF iter.limit > 0 /\ left < @ THEN left ELSE @]
          \/ /\ iter' = [iter EXCEPT !.err = "unavailable"]
             /\ user' = After
       /\ UNCHANGED <<net, cursor, given, initial, closed>>

\* socket.Query.  On a socket that has died since acquireSocket looked at it,
\* Query calls replyFunc itself, which locks iter.m: this goroutine has it.
QueriesMore ==
    /\ user \in {"query", "queryInPop"}
    /\ \/ /\ iter' = [iter EXCEPT !.docsToReceive = @ + 1]
          /\ net' = Append(net, Asked(iter.opLimit))
          /\ user' = IF user = "query" THEN "waiting" ELSE "idle"
       \/ /\ initial.late
          /\ user' = "deadlocked"
          /\ UNCHANGED <<iter, net>>
    /\ UNCHANGED <<cursor, given, initial, closed>>

\* Close, once: killCursor.
CloseIter ==
    /\ user = "idle" /\ closed = "no"
    /\ \/ /\ closed' = IF net # <<>> THEN "early" ELSE "clean"
          /\ cursor' = [cursor EXCEPT !.open = @ /\ ~iter.cursorId]
          /\ iter' = Killed(iter)
       \/ /\ iter.cursorId
          /\ closed' = "failed"
          /\ iter' = Killed([iter EXCEPT !.err = IF @ \in {"nil", "ErrNotFound"}
                                                 THEN "unavailable" ELSE @])
          /\ UNCHANGED cursor
    /\ UNCHANGED <<user, net, given, initial>>

IterNext == \/ ServerReplies \/ DocArrives \/ EmptyReplyArrives \/ ConnectionLost
            \/ Starts \/ Waits \/ TimesOut \/ AsksMore \/ TakesLast \/ Takes \/ Spoils
            \/ Exhausted \/ AcquiresSocket \/ QueriesMore \/ CloseIter

\* Next in the middle of its run.
NextRuns == \/ Waits \/ TimesOut \/ AsksMore \/ TakesLast \/ Takes
            \/ Exhausted \/ AcquiresSocket \/ QueriesMore

\* A reply comes or the connection's deadline kills it; Next goes on running;
\* the clock passes the timeout of Tail.
IterFairness ==
    /\ WF_iterVars(ServerReplies)
    /\ WF_iterVars(DocArrives \/ EmptyReplyArrives)
    /\ WF_iterVars(NextRuns)
    /\ SF_iterVars(TimesOut)

IterSpec == IterInit /\ [][IterNext]_iterVars /\ IterFairness

--------------------------------------------------------------------------------

IterTypeOK ==
    /\ iter.docData \in Seq(1..Total)
    /\ iter.docsToReceive \in Nat /\ iter.docsBeforeMore \in Int
    /\ iter.cursorId \in BOOLEAN /\ iter.timedout \in BOOLEAN
    /\ iter.limit \in Nat /\ iter.opLimit \in Int
    /\ iter.err \in {"nil", "ErrNotFound", "dead", "unavailable", "bad document"}
    /\ user \in {"idle", "next", "waiting", "getMore", "query", "moreInPop", "queryInPop",
                 "panicked", "deadlocked"}

\* Every document is handed out once and in order: what Next has given, what
\* is cached and what is on its way follow each other without a gap, whatever
\* batches, prefetches and lost connections there are, in a session that keeps
\* to one socket.
InOrder ==
    initial.reserved =>
    LET way == given \o iter.docData \o FlattenSeq([i \in DOMAIN net |-> net[i].docs])
    IN way = [i \in 1..Len(way) |-> i]

\* Without an error, docsToReceive is what the connection still owes: Next
\* neither waits for a document nobody sends nor gives up on one that comes.
Owed(r) == IF r.n = Len(r.docs) THEN 1 ELSE Len(r.docs)

OwesExact ==
    iter.err = "nil" =>
        iter.docsToReceive = FoldLeft(LAMBDA sum, r : sum + Owed(r), 0, net)

\* The limit of the query is never exceeded, and Next does not panic over
\* documents beyond it, in a query that keeps to it itself (Fits).
WithinLimit ==
    Fits(initial) => /\ initial.limit > 0 => Len(given) <= initial.limit
                     /\ user # "panicked"

\* When Next reports the end, everything the query matches was given.
Complete ==
    initial.reserved /\ Fits(initial) /\ ~initial.tail
    /\ iter.err = "ErrNotFound" /\ closed = "no" /\ iter.docData = <<>>
    => Len(given) = IF initial.limit > 0 THEN Lesser(initial.limit, Total) ELSE Total

\* Close leaves no cursor open at the server, when no reply was under way and
\* no connection had failed.
CursorFreed == closed = "clean" /\ iter.err \notin {"dead", "unavailable"} => ~cursor.open

IterInv == IterTypeOK /\ InOrder /\ OwesExact /\ WithinLimit /\ Complete /\ CursorFreed

\* Next returns, a document or the end, if no connection dies between
\* acquireSocket and Query and the query keeps to its limit.
NextReturns == (user = "next" /\ Fits(initial) /\ ~initial.late) ~> (user = "idle")

\* "Next returns true if a document was successfully unmarshalled [...] and
\* false at the end of the result set or if an error happened": it returns.
NextAlwaysReturns == (user = "next") ~> (user \in {"idle", "panicked"})

\* "data remains after limit exhausted": Next does not panic so.
NoDataRemains == user # "panicked"
================================================================================
