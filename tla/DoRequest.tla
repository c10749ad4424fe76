----------------------------- MODULE DoRequest -----------------------------
(***************************************************************************)
(* One call of doRequest (consumer.go) in detail, from Petition.Request()  *)
(* to the deferred Close of process(). All the attempts send the same      *)
(* http.Request, whose body is one bytes.Reader. net/http writes a request *)
(* in a goroutine of its connection, which goes on when Client.Do has      *)
(* already returned a response: a host may answer before it has read the   *)
(* body, and doRequest neither reads nor closes a 503 it tries again.      *)
(***************************************************************************)
EXTENDS Naturals, Sequences, FiniteSets

CONSTANTS
    Retries,      \* cfg.Retries
    RetryTime,    \* cfg.RetryTime
    BodySize      \* parts of the body, each as much as one Read returns

ASSUME DoRequestAssumption ==
    Retries \in Nat /\ RetryTime \in Nat /\ BodySize \in Nat

VARIABLES
    pc,           \* where the goroutine of the consumer is
    tries,        \* calls of Client.Do so far
    retryTime,    \* the variable of doRequest
    waited,       \* history: time spent in time.Sleep
    ending,       \* per attempt, what Client.Do returned, "none" before
    open,         \* attempts with a response whose body is not closed
    sent,         \* history: attempts written to the end when Do returned
    offset,       \* the position of the bytes.Reader
    writer,       \* per attempt, where the goroutine that writes it is
    part,         \* per attempt, the part its Read has copied
    got,          \* per attempt, the parts written to its connection
    ended         \* attempts written to the end, as Read reported it

vars == <<pc, tries, retryTime, waited, ending, open, sent, offset, writer,
          part, got, ended>>
callVars == <<pc, tries, retryTime, waited, ending, open, sent>>
wireVars == <<offset, writer, part, got, ended>>

Try == 1..(Retries + 1)

Init ==
    /\ pc = "begin"
    /\ tries = 0
    /\ retryTime = RetryTime
    /\ waited = 0
    /\ ending = [n \in Try |-> "none"]
    /\ open = {}
    /\ sent = {}
    /\ offset = 0
    /\ writer = [n \in Try |-> "off"]
    /\ part = [n \in Try |-> 0]
    /\ got = [n \in Try |-> <<>>]
    /\ ended = {}

----------------------------------------------------------------------------
(* doRequest                                                               *)

\* The first c.Client.Do(req).
Do ==
    /\ pc = "begin"
    /\ pc' = "do"
    /\ tries' = tries + 1
    /\ UNCHANGED <<retryTime, waited, ending, open, sent, wireVars>>

Challenging(kind) == kind \in {"error", "busy"}

\* Mutant: one retry less.
ReturnedEarly(kind) ==
    /\ pc = "do"
    /\ ending' = [ending EXCEPT ![tries] = kind]
    /\ sent' = sent \cup ({tries} \cap ended)
    /\ pc' = IF Challenging(kind) /\ tries < Retries THEN "sleep" ELSE "reply"
    /\ retryTime' = IF Challenging(kind) /\ tries > 1 THEN 2 * retryTime
                                                      ELSE retryTime
    /\ UNCHANGED <<tries, waited, wireVars>>

\* Mutant: one retry too many.
ReturnedOnceMore(kind) ==
    /\ pc = "do"
    /\ ending' = [ending EXCEPT ![tries] = kind]
    /\ sent' = sent \cup ({tries} \cap ended)
    /\ pc' = IF Challenging(kind) /\ tries <= Retries + 1 THEN "sleep"
                                                          ELSE "reply"
    /\ retryTime' = IF Challenging(kind) /\ tries > 1 THEN 2 * retryTime
                                                      ELSE retryTime
    /\ UNCHANGED <<tries, waited, wireVars>>

\* Mutant: the time is doubled after the first attempt too.
ReturnedDoubling(kind) ==
    /\ pc = "do"
    /\ ending' = [ending EXCEPT ![tries] = kind]
    /\ sent' = sent \cup ({tries} \cap ended)
    /\ pc' = IF Challenging(kind) /\ tries <= Retries THEN "sleep" ELSE "reply"
    /\ retryTime' = IF Challenging(kind) THEN 2 * retryTime ELSE retryTime
    /\ UNCHANGED <<tries, waited, wireVars>>

\* Client.Do has returned: leave, or go on with the loop while it has turns
\* left. The time is doubled at the end of each turn.
Returned(kind) ==
    /\ pc = "do"
    /\ ending' = [ending EXCEPT ![tries] = kind]
    /\ sent' = sent \cup ({tries} \cap ended)
    /\ pc' = IF Challenging(kind) /\ tries <= Retries THEN "sleep" ELSE "reply"
    /\ retryTime' = IF Challenging(kind) /\ tries > 1 THEN 2 * retryTime
                                                      ELSE retryTime
    /\ UNCHANGED <<tries, waited, wireVars>>

\* A transport error, before or after there was a connection.
Fail == Returned("error") /\ UNCHANGED open

\* A response. The host may send it before it has read the request.
Respond ==
    /\ pc = "do" /\ writer[tries] # "off"
    /\ \E kind \in {"busy", "bad", "good"} : Returned(kind)
    /\ open' = open \cup {tries}

\* Mutant: the loop does not count its turns.
RetryForEver ==
    /\ pc = "sleep"
    /\ pc' = "do"
    /\ ending' = [ending EXCEPT ![tries] = "none"]
    /\ UNCHANGED <<tries, retryTime, waited, open, sent, wireVars>>

\* A turn of the loop: time.Sleep(retryTime), and the request again.
Retry ==
    /\ pc = "sleep"
    /\ pc' = "do"
    /\ waited' = waited + retryTime
    /\ tries' = tries + 1
    /\ UNCHANGED <<retryTime, ending, open, sent, wireVars>>

\* Mutant: a status outside 200..299 is taken for an error.
CloseGoodOnly ==
    /\ pc = "reply"
    /\ pc' = "end"
    /\ open' = IF ending[tries] = "good" THEN open \ {tries} ELSE open
    /\ UNCHANGED <<tries, retryTime, waited, ending, sent, wireVars>>

\* The deferred function of process(), if doRequest returned no error.
Close ==
    /\ pc = "reply"
    /\ pc' = "end"
    /\ open' = IF ending[tries] # "error" THEN open \ {tries} ELSE open
    /\ UNCHANGED <<tries, retryTime, waited, ending, sent, wireVars>>

----------------------------------------------------------------------------
(* The goroutine of net/http that writes the request of attempt n          *)

Connect(n) ==
    /\ pc = "do" /\ n = tries
    /\ writer[n] = "off"
    /\ writer' = [writer EXCEPT ![n] = "read"]
    /\ UNCHANGED <<callVars, offset, part, got, ended>>

\* bytes.Reader.Read copies what is at the position...
ReadPart(n) ==
    /\ writer[n] = "read"
    /\ offset < BodySize
    /\ part' = [part EXCEPT ![n] = offset + 1]
    /\ writer' = [writer EXCEPT ![n] = "advance"]
    /\ UNCHANGED <<callVars, offset, got, ended>>

\* ... and then moves the position. Without a lock: another writer may have
\* moved it meanwhile, and the new value is computed from either.
Advance(n) ==
    /\ writer[n] = "advance"
    /\ offset' \in {offset + 1, part[n]}
    /\ got' = [got EXCEPT ![n] = Append(@, part[n])]
    /\ writer' = [writer EXCEPT ![n] = "read"]
    /\ UNCHANGED <<callVars, part, ended>>

ReadEOF(n) ==
    /\ writer[n] = "read"
    /\ offset >= BodySize
    /\ ended' = ended \cup {n}
    /\ writer' = [writer EXCEPT ![n] = "end"]
    /\ UNCHANGED <<callVars, offset, part, got>>

\* The connection is gone: after an error, or because the host or process()
\* has closed it.
WriteFails(n) ==
    /\ writer[n] = "read"
    /\ ending[n] # "none"
    /\ writer' = [writer EXCEPT ![n] = "end"]
    /\ UNCHANGED <<callVars, offset, part, got, ended>>

Write(n) == ReadPart(n) \/ Advance(n) \/ ReadEOF(n) \/ WriteFails(n)

Over ==
    /\ pc = "end"
    /\ \A n \in Try : writer[n] \in {"off", "end"}
    /\ UNCHANGED vars

Next ==
    \/ Do
    \/ Fail
    \/ Respond
    \/ Retry
    \/ Close
    \/ \E n \in Try : Connect(n) \/ Write(n)
    \/ Over

\* Client.Do returns in the end, as Fairness of Gridas supposes.
Fairness == WF_callVars(Do \/ Fail \/ Respond \/ Retry \/ Close)

Spec == Init /\ [][Next]_vars /\ Fairness

----------------------------------------------------------------------------
(* Properties                                                              *)

Kinds == {"error", "busy", "bad", "good"}

\* Every variable keeps its type, whatever the writers do to the reader.
TypeOK ==
    /\ pc \in {"begin", "do", "sleep", "reply", "end"}
    /\ tries \in 0..(Retries + 1)
    /\ retryTime \in Nat /\ waited \in Nat
    /\ ending \in [Try -> Kinds \cup {"none"}]
    /\ open \subseteq Try /\ sent \subseteq Try /\ ended \subseteq Try
    /\ offset \in Nat
    /\ writer \in [Try -> {"off", "read", "advance", "end"}]
    /\ part \in [Try -> 0..BodySize]
    /\ got \in [Try -> Seq(1..BodySize)]

\* 2^n.
Power[n \in Nat] == IF n = 0 THEN 1 ELSE 2 * Power[n - 1]

\* config.go:50-53: the first retry uses RetryTime, and each one doubles the
\* time before it. (The doubling is at the end of the turn, and the first
\* attempt is outside the loop.)
Backoff ==
    /\ tries > 0 => waited = RetryTime * (Power[tries - 1] - 1)
    /\ pc = "sleep" => retryTime = RetryTime * Power[tries - 1]

\* When process() is over, just the 503 responses that were tried again are
\* still open, each with its connection; the one that doRequest returned has
\* been closed whatever its status.
OnlyRetriedStayOpen ==
    pc = "end" => open = {n \in 1..(tries - 1) : ending[n] = "busy"}

\* doRequest ends, with as many retries as it may make.
RequestEnds == <>(pc = "end")

----------------------------------------------------------------------------
(* The inductive invariant                                                 *)

Answered(n) == ending[n] \in {"busy", "bad", "good"}

\* The variables of doRequest: every attempt before the last was to be
\* repeated, and a response is open until process() closes the last.
CallInv ==
    /\ pc = "begin" <=> tries = 0
    /\ pc = "sleep" => tries <= Retries
    /\ \A n \in Try :
         /\ ending[n] = "none" <=> n > tries \/ (n = tries /\ pc = "do")
         /\ n < tries => Challenging(ending[n])
         /\ n = tries /\ pc = "sleep" => Challenging(ending[n])
         /\ n \in open <=> Answered(n) /\ ~(n = tries /\ pc = "end")

\* A writer at work has a part to write, one that sent all is over, and an
\* attempt without a connection has sent nothing.
WireInv ==
    \A n \in Try :
        /\ writer[n] = "advance" => part[n] # 0
        /\ n \in sent => n \in ended
        /\ n \in ended => writer[n] = "end"
        /\ writer[n] = "off" => got[n] = <<>>

\* The inductive invariant, from which the proofs take OnlyRetriedStayOpen.
RequestInv == TypeOK /\ CallInv /\ WireInv

----------------------------------------------------------------------------
(* The abstract specification                                              *)

\* What Consumer sees of this call: the failed attempts, and how it ended.
Left == pc \in {"reply", "end"}
relay    == [c \in {"c"} |-> IF Left THEN "reply" ELSE "request"]
retry    == [c \in {"c"} |-> IF pc = "sleep" \/ tries = 0 THEN tries
                                                         ELSE tries - 1]
result   == [c \in {"c"} |-> IF Left THEN ending[tries] ELSE "good"]
attempts == [p \in {"p"} |-> Cardinality({n \in Try : ending[n] # "none"})]

\* The goroutine "c" with the petition "p"; nothing else moves in a call.
Coarse == INSTANCE Consumer
    WITH Pet <- {"p"}, NoPet <- "none", Consumers <- {"c"}, QueueSize <- 0,
         Endings <- Kinds, Unsendable <- {}, CutShort <- {},
         MaxRuns <- 0, MaxCrashes <- 0, MaxFaults <- 0,
         petColl <- {"p"}, replyColl <- <<>>, errColl <- <<>>,
         reqChan <- <<>>, endChan <- FALSE, stopping <- FALSE,
         main <- "serving", seen <- {}, job <- [c \in {"c"} |-> "p"],
         serve <- <<>>, answer <- <<>>, unsaved <- {}, late <- <<>>,
         runs <- 0, crashes <- 0, faults <- 0

\* The abstract specification of a call: steps of Attempt in Consumer, so that
\* what holds of Gridas with one step per attempt holds with these.
ImplementsAttempt ==
    [][Coarse!Attempt("c")]_<<relay, retry, result, attempts>>

\* consumer.go:142: doRequest retries the request. So a retry that is written
\* to the end, after attempts that were and were then answered with a 503, has
\* sent what the first of them sent. The run retry_body violates this: the
\* reader is at its end, and nothing rewinds it.
RetrySendsBody ==
    \A n \in ended \ {1} :
        (\A m \in 1..(n - 1) : m \in sent /\ ending[m] = "busy")
            => got[n] = got[1]
=============================================================================
