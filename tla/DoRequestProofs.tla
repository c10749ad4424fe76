-------------------------- MODULE DoRequestProofs --------------------------
(***************************************************************************)
(* Proofs about one call of doRequest, for any number of retries, any time *)
(* and any body.                                                           *)
(***************************************************************************)
EXTENDS DoRequest, DataInduction, FiniteSetTheorems, TLAPS

USE DoRequestAssumption DEF callVars, wireVars, Try

LEMMA InitInv == Init => RequestInv
<1> SUFFICES ASSUME Init PROVE RequestInv
  OBVIOUS
<1>1. TypeOK
  BY DEF Init, TypeOK, Kinds
<1>2. CallInv
  BY DEF Init, CallInv, Answered
<1>3. WireInv
  BY DEF Init, WireInv
<1>. QED
  BY <1>1, <1>2, <1>3 DEF RequestInv

----------------------------------------------------------------------------
(* The steps of doRequest leave the writers alone                          *)

LEMMA WireSame == ASSUME WireInv, UNCHANGED <<sent, wireVars>> PROVE WireInv'
  BY DEF WireInv

LEMMA DoInv == ASSUME RequestInv, Do PROVE RequestInv'
<1> USE DEF RequestInv
<1>1. TypeOK'
  BY DEF Do, TypeOK, CallInv
<1>2. CallInv'
  BY DEF Do, TypeOK, CallInv, Answered
<1>. QED
  BY <1>1, <1>2, WireSame DEF Do

\* Client.Do returns: open changes with the ending of the last attempt only.
LEMMA ReturnedInv ==
  ASSUME RequestInv, NEW kind \in Kinds, Returned(kind),
         open' = IF kind = "error" THEN open ELSE open \cup {tries}
  PROVE  RequestInv'
<1> USE DEF RequestInv
<1>1. pc = "do" /\ tries \in Try
  BY DEF Returned, TypeOK, CallInv
<1>2. TypeOK'
  BY <1>1 DEF Returned, TypeOK, Challenging
<1>3. CallInv'
  BY <1>1 DEF Returned, TypeOK, CallInv, Answered, Challenging, Kinds
<1>4. WireInv'
  BY DEF Returned, WireInv
<1>. QED
  BY <1>2, <1>3, <1>4

LEMMA RetryInv == ASSUME RequestInv, Retry PROVE RequestInv'
<1> USE DEF RequestInv
<1>1. TypeOK'
  BY DEF Retry, TypeOK, CallInv
<1>2. CallInv'
  BY DEF Retry, TypeOK, CallInv, Answered
<1>. QED
  BY <1>1, <1>2, WireSame DEF Retry

LEMMA CloseInv == ASSUME RequestInv, Close PROVE RequestInv'
<1> USE DEF RequestInv
<1>1. TypeOK'
  BY DEF Close, TypeOK
<1>2. CallInv'
  BY DEF Close, TypeOK, CallInv, Answered
<1>. QED
  BY <1>1, <1>2, WireSame DEF Close

----------------------------------------------------------------------------
(* The steps of the writers leave doRequest alone                          *)

LEMMA CallSame == ASSUME CallInv, UNCHANGED callVars PROVE CallInv'
  BY DEF CallInv, Answered

LEMMA ConnectInv ==
  ASSUME RequestInv, NEW n \in Try, Connect(n) PROVE RequestInv'
<1> USE DEF RequestInv
<1>1. TypeOK'
  BY DEF Connect, TypeOK
<1>2. CallInv'
  BY CallSame DEF Connect
<1>3. WireInv'
  <2>1. /\ writer'[n] = "read" /\ writer[n] = "off"
        /\ \A m \in Try \ {n} : writer'[m] = writer[m]
        /\ UNCHANGED <<sent, part, got, ended>>
    BY DEF Connect, TypeOK
  <2>. QED
    BY <2>1 DEF WireInv
<1>. QED
  BY <1>1, <1>2, <1>3

LEMMA ReadPartInv ==
  ASSUME RequestInv, NEW n \in Try, ReadPart(n) PROVE RequestInv'
<1> USE DEF RequestInv
<1>1. TypeOK'
  BY DEF ReadPart, TypeOK
<1>2. CallInv'
  BY CallSame DEF ReadPart
<1>3. WireInv'
  <2>1. /\ writer[n] = "read" /\ writer'[n] = "advance" /\ offset \in Nat
        /\ part'[n] = offset + 1
        /\ \A m \in Try \ {n} : writer'[m] = writer[m] /\ part'[m] = part[m]
        /\ UNCHANGED <<sent, got, ended>>
    BY DEF ReadPart, TypeOK
  <2>. QED
    BY <2>1 DEF WireInv
<1>. QED
  BY <1>1, <1>2, <1>3

LEMMA AdvanceInv ==
  ASSUME RequestInv, NEW n \in Try, Advance(n) PROVE RequestInv'
<1> USE DEF RequestInv
<1>1. /\ writer[n] = "advance" /\ writer'[n] = "read"
      /\ offset \in Nat /\ offset' \in {offset + 1, part[n]}
      /\ got'[n] = Append(got[n], part[n])
      /\ \A m \in Try \ {n} : writer'[m] = writer[m] /\ got'[m] = got[m]
      /\ UNCHANGED <<sent, part, ended>>
  BY DEF Advance, callVars, TypeOK
<1>2. part[n] \in 1..BodySize
  BY <1>1 DEF TypeOK, WireInv
<1>3. TypeOK'
  <2>1. got' \in [Try -> Seq(1..BodySize)]
    BY <1>2 DEF Advance, TypeOK
  <2>2. offset' \in Nat
    BY <1>1, <1>2
  <2>. QED
    BY <2>1, <2>2 DEF Advance, TypeOK
<1>4. CallInv'
  BY CallSame DEF Advance
<1>5. WireInv'
  BY <1>1 DEF WireInv
<1>. QED
  BY <1>3, <1>4, <1>5

LEMMA ReadEOFInv ==
  ASSUME RequestInv, NEW n \in Try, ReadEOF(n) PROVE RequestInv'
<1> USE DEF RequestInv
<1>1. TypeOK'
  BY DEF ReadEOF, TypeOK
<1>2. CallInv'
  BY CallSame DEF ReadEOF
<1>3. WireInv'
  <2>1. /\ writer[n] = "read" /\ writer'[n] = "end"
        /\ offset \in Nat /\ offset >= BodySize
        /\ ended' = ended \cup {n}
        /\ \A m \in Try \ {n} : writer'[m] = writer[m]
        /\ UNCHANGED <<sent, part, got>>
    BY DEF ReadEOF, TypeOK
  <2>. QED
    BY <2>1 DEF WireInv
<1>. QED
  BY <1>1, <1>2, <1>3

LEMMA WriteFailsInv ==
  ASSUME RequestInv, NEW n \in Try, WriteFails(n) PROVE RequestInv'
<1> USE DEF RequestInv
<1>1. TypeOK'
  BY DEF WriteFails, TypeOK
<1>2. CallInv'
  BY CallSame DEF WriteFails
<1>3. WireInv'
  <2>1. /\ writer[n] = "read" /\ writer'[n] = "end"
        /\ \A m \in Try \ {n} : writer'[m] = writer[m]
        /\ UNCHANGED <<sent, part, got, ended>>
    BY DEF WriteFails, TypeOK
  <2>. QED
    BY <2>1 DEF WireInv
<1>. QED
  BY <1>1, <1>2, <1>3

----------------------------------------------------------------------------

LEMMA StepInv == ASSUME RequestInv, [Next]_vars PROVE RequestInv'
<1>1. CASE Do
  BY <1>1, DoInv
<1>2. CASE Fail
  BY <1>2, ReturnedInv DEF Fail, Kinds
<1>3. CASE Respond
  BY <1>3, ReturnedInv DEF Respond, Kinds
<1>4. CASE Retry
  BY <1>4, RetryInv
<1>5. CASE Close
  BY <1>5, CloseInv
<1>6. CASE \E n \in Try : Connect(n) \/ Write(n)
  BY <1>6, ConnectInv, ReadPartInv, AdvanceInv, ReadEOFInv, WriteFailsInv
  DEF Write
<1>7. CASE UNCHANGED vars
  BY <1>7, CallSame, WireSame DEF RequestInv, vars, TypeOK
<1>. QED
  BY <1>1, <1>2, <1>3, <1>4, <1>5, <1>6, <1>7 DEF Next, Over

\* RequestInv is an invariant of doRequest and of the writers it leaves behind.
THEOREM RequestInvariance == Spec => []RequestInv
  BY InitInv, StepInv, PTL DEF Spec

\* Of the responses, those of the retried 503s and no others stay open.
THEOREM OnlyRetriedOpen == Spec => []OnlyRetriedStayOpen
<1>1. ASSUME RequestInv, pc = "end"
      PROVE  open = {n \in 1..(tries - 1) : ending[n] = "busy"}
  <2>1. tries \in Try /\ open \subseteq Try
    BY <1>1 DEF RequestInv, TypeOK, CallInv
  <2>2. \A n \in Try :
          /\ n \in open <=> Answered(n) /\ n # tries
          /\ Answered(n) => n <= tries
          /\ n < tries => (Answered(n) <=> ending[n] = "busy")
    BY <1>1, <2>1 DEF RequestInv, CallInv, Answered, Challenging
  <2>3. \A n \in Try : n \in open <=> n \in 1..(tries - 1) /\ ending[n] = "busy"
    BY <2>1, <2>2
  <2>4. 1..(tries - 1) \subseteq Try
    BY <2>1
  <2>5. \A n : n \in open <=> n \in 1..(tries - 1) /\ ending[n] = "busy"
    BY <2>1, <2>3, <2>4, Zenon
  <2>. QED
    BY <2>5, Zenon
<1>2. RequestInv => OnlyRetriedStayOpen
  BY <1>1 DEF OnlyRetriedStayOpen
<1>. QED
  BY <1>2, RequestInvariance, PTL

----------------------------------------------------------------------------
(* The time between the attempts                                           *)

LEMMA Powers ==
  Power[0] = 1 /\ \A n \in Nat : Power[n] \in Nat /\ Power[n + 1] = 2 * Power[n]
<1>. DEFINE double == [k \in Nat |-> [v \in Nat |-> 2 * v]]
<1>1. double \in [Nat -> [Nat -> Nat]]
  OBVIOUS
<1>2. \A k \in Nat, v \in Nat : double[k][v] = 2 * v
  OBVIOUS
<1>. HIDE DEF double
<1>3. PICK f \in [Nat -> Nat] : Computes(f, 1, double)
  BY <1>1, Recursion
<1>4. f[0] = 1 /\ \A k \in Nat : f[k + 1] = 2 * f[k]
  BY <1>2, <1>3 DEF Computes
<1>5. f = [n \in Nat |-> IF n = 0 THEN 1 ELSE 2 * f[n - 1]]
  <2>1. ASSUME NEW n \in Nat PROVE f[n] = IF n = 0 THEN 1 ELSE 2 * f[n - 1]
    <3>1. n = 0 \/ (n - 1 \in Nat /\ (n - 1) + 1 = n)
      OBVIOUS
    <3>. QED
      BY <1>4, <3>1
  <2>. QED
    BY <2>1
<1>6. Power = [n \in Nat |-> IF n = 0 THEN 1 ELSE 2 * Power[n - 1]]
  BY <1>5 DEF Power
<1>7. Power[0] = 1 /\ \A n \in Nat : Power[n + 1] = 2 * Power[n]
  <2>1. ASSUME NEW n \in Nat PROVE Power[n + 1] = 2 * Power[n]
    <3>1. n + 1 \in Nat /\ n + 1 # 0 /\ (n + 1) - 1 = n
      OBVIOUS
    <3>. QED
      BY <1>6, <3>1
  <2>. QED
    BY <1>6, <2>1
<1>. DEFINE S == {n \in Nat : Power[n] \in Nat}
<1>8. 0 \in S /\ \A n \in S : n + 1 \in S
  BY <1>7
<1>9. S = Nat
  <2>1. S \subseteq Nat
    OBVIOUS
  <2>. HIDE DEF S
  <2>. QED
    BY <1>8, <2>1, Induction
<1>10. \A n \in Nat : Power[n] \in Nat
  BY <1>9
<1>. QED
  BY <1>7, <1>10

\* Before Client.Do returns the time is that of the sleep before.
BackoffInv ==
  /\ Backoff
  /\ pc = "begin" => retryTime = RetryTime /\ waited = 0
  /\ pc = "do" => retryTime = IF tries = 1 THEN RetryTime
                                           ELSE RetryTime * Power[tries - 2]

LEMMA InitBackoff == Init => BackoffInv
  BY DEF Init, BackoffInv, Backoff

LEMMA Doubling ==
  ASSUME NEW t \in Nat, NEW p \in Nat
  PROVE  /\ t * 1 = t /\ t * (1 - 1) = 0
         /\ 2 * (t * p) = t * (2 * p)
         /\ t * (p - 1) + t * p = t * (2 * p - 1)
<1>1. t * (p - 1) = t * p - t /\ t * (2 * p - 1) = t * (2 * p) - t
  OBVIOUS
<1>2. t * p \in Nat /\ t * (2 * p) = 2 * (t * p)
  OBVIOUS
<1>. QED
  BY <1>1, <1>2

LEMMA StepBackoff == ASSUME RequestInv, BackoffInv, [Next]_vars PROVE BackoffInv'
<1>1. /\ RetryTime \in Nat /\ Retries \in Nat /\ tries \in 0 .. Retries + 1
      /\ pc = "begin" <=> tries = 0
  BY DEF RequestInv, TypeOK, CallInv
<1>2. CASE Do
  <2>1. /\ tries = 0 /\ tries' = 1 /\ retryTime' = RetryTime /\ waited' = 0
        /\ pc' = "do"
    BY <1>1, <1>2 DEF Do, BackoffInv
  <2>2. RetryTime * (Power[1 - 1] - 1) = 0
    BY <1>1, Powers, Doubling
  <2>. QED
    BY <2>1, <2>2 DEF BackoffInv, Backoff
<1>3. ASSUME NEW kind, Returned(kind) PROVE BackoffInv'
  <2>1. /\ pc = "do" /\ tries' = tries /\ waited' = waited /\ tries > 0
        /\ pc' \in {"sleep", "reply"}
        /\ pc' = "sleep" => retryTime' = IF tries > 1 THEN 2 * retryTime ELSE retryTime
    BY <1>1, <1>3 DEF Returned
  <2>2. Backoff /\ retryTime = IF tries = 1 THEN RetryTime
                                           ELSE RetryTime * Power[tries - 2]
    BY <2>1 DEF BackoffInv
  <2>3. CASE tries = 1
    <3>1. RetryTime * Power[tries - 1] = RetryTime
      BY <1>1, <2>3, Powers, Doubling
    <3>. QED
      BY <2>1, <2>2, <2>3, <3>1 DEF BackoffInv, Backoff
  <2>4. CASE tries > 1
    <3>1. tries - 2 \in Nat /\ (tries - 2) + 1 = tries - 1
      BY <1>1, <2>4
    <3>2. Power[tries - 2] \in Nat /\ Power[tries - 1] = 2 * Power[tries - 2]
      BY <3>1, Powers
    <3>3. 2 * (RetryTime * Power[tries - 2]) = RetryTime * Power[tries - 1]
      BY <1>1, <3>2, Doubling
    <3>. QED
      BY <2>1, <2>2, <2>4, <3>3 DEF BackoffInv, Backoff
  <2>. QED
    BY <1>1, <2>1, <2>3, <2>4
<1>4. CASE Retry
  <2>1. /\ pc = "sleep" /\ pc' = "do" /\ tries' = tries + 1
        /\ waited' = waited + retryTime /\ retryTime' = retryTime
    BY <1>4 DEF Retry
  <2>2. /\ tries > 0 /\ tries - 1 \in Nat /\ (tries - 1) + 1 = tries
        /\ (tries + 1) - 1 = tries /\ (tries + 1) - 2 = tries - 1 /\ tries + 1 # 1
    BY <1>1, <2>1
  <2>3. /\ waited = RetryTime * (Power[tries - 1] - 1)
        /\ retryTime = RetryTime * Power[tries - 1]
    BY <2>1, <2>2 DEF BackoffInv, Backoff
  <2>4. Power[tries - 1] \in Nat /\ Power[tries] = 2 * Power[tries - 1]
    BY <2>2, Powers
  <2>5. waited + retryTime = RetryTime * (Power[tries] - 1)
    BY <1>1, <2>3, <2>4, Doubling
  <2>. QED
    BY <2>1, <2>2, <2>3, <2>5 DEF BackoffInv, Backoff
<1>5. CASE Close
  BY <1>5 DEF Close, BackoffInv, Backoff
<1>6. CASE UNCHANGED callVars
  BY <1>6 DEF BackoffInv, Backoff
<1>7. CASE Fail \/ Respond
  BY <1>3, <1>7 DEF Fail, Respond
<1>8. CASE \E n \in Try : Connect(n) \/ Write(n)
  BY <1>6, <1>8 DEF Connect, Write, ReadPart, Advance, ReadEOF, WriteFails
<1>9. CASE UNCHANGED vars
  BY <1>6, <1>9 DEF vars
<1>. QED
  BY <1>2, <1>4, <1>5, <1>7, <1>8, <1>9 DEF Next, Over

\* The first retry waits RetryTime, and each one twice as long as that before.
THEOREM BackoffDoubles == Spec => []Backoff
<1>1. BackoffInv => Backoff
  BY DEF BackoffInv
<1>. QED
  BY <1>1, InitBackoff, StepBackoff, RequestInvariance, PTL DEF Spec

----------------------------------------------------------------------------
(* The attempts are those of Consumer                                      *)

Attempt == Coarse!Attempt("c")
View == <<relay, retry, result, attempts>>

\* One attempt more has ended when Client.Do returns.
LEMMA OneMore ==
  ASSUME RequestInv, NEW kind \in Kinds, Returned(kind)
  PROVE  attempts' = [attempts EXCEPT !["p"] = @ + 1]
<1> DEFINE S == {n \in Try : ending[n] # "none"}
<1>1. tries \in Try /\ ending[tries] = "none"
  BY DEF RequestInv, Returned, TypeOK, CallInv
<1>2. IsFiniteSet(S)
  <2>1. IsFiniteSet(Try)
    BY FS_Interval
  <2>. QED
    BY <2>1, FS_Subset
<1>3. S' = S \cup {tries}
  <2>1. \A n : n \in S' <=> n \in S \/ n = tries
    BY <1>1 DEF Returned, RequestInv, TypeOK, Kinds
  <2>. QED
    BY <2>1
<1>4. Cardinality(S') = Cardinality(S) + 1
  BY <1>1, <1>2, <1>3, FS_AddElement
<1>. QED
  BY <1>4 DEF attempts

\* The end of an attempt is a step of Attempt: a retry or the last one.
LEMMA ReturnedRefines ==
  ASSUME RequestInv, NEW kind \in Kinds, Returned(kind) PROVE Attempt
<1>1. /\ pc = "do" /\ tries \in Try /\ tries' = tries
      /\ ending'[tries] = kind
  BY DEF RequestInv, Returned, TypeOK, CallInv
<1>2. /\ relay = [c \in {"c"} |-> "request"]
      /\ retry = [c \in {"c"} |-> tries - 1]
      /\ result = [c \in {"c"} |-> "good"]
  BY <1>1 DEF relay, retry, result, Left
<1>3. CASE pc' = "sleep"
  <2>1. tries - 1 < Retries
    BY <1>1, <1>3 DEF Returned
  <2>2. /\ relay' = relay /\ result' = result
        /\ retry' = [c \in {"c"} |-> tries]
    BY <1>1, <1>2, <1>3 DEF relay, retry, result, Left
  <2>3. retry["c"] < Retries /\ retry' = [retry EXCEPT !["c"] = @ + 1]
    BY <1>1, <1>2, <2>1, <2>2
  <2>. QED
    BY <1>2, <2>2, <2>3, OneMore
    DEF Attempt, Coarse!Attempt, Coarse!dbVars, Coarse!procVars
<1>4. CASE pc' = "reply"
  <2>1. kind \in {"error", "busy"} => retry["c"] = Retries
    BY <1>1, <1>2, <1>4 DEF Returned, Challenging
  <2>2. /\ relay' = [relay EXCEPT !["c"] = "reply"]
        /\ result' = [result EXCEPT !["c"] = kind]
        /\ retry' = retry
    BY <1>1, <1>2, <1>4 DEF relay, retry, result, Left
  <2>. QED
    BY <1>2, <2>1, <2>2, OneMore
    DEF Attempt, Coarse!Attempt, Coarse!Goto, Coarse!dbVars, Coarse!procVars
<1>. QED
  BY <1>3, <1>4 DEF Returned

\* The other steps cannot be seen.
LEMMA OthersStutter ==
  ASSUME RequestInv, ending' = ending,
         \/ pc = "begin" /\ pc' = "do" /\ tries' = tries + 1
         \/ pc = "sleep" /\ pc' = "do" /\ tries' = tries + 1
         \/ pc = "reply" /\ pc' = "end" /\ tries' = tries
         \/ pc' = pc /\ tries' = tries
  PROVE  UNCHANGED View
<1>1. /\ tries \in Nat /\ (pc = "begin" <=> tries = 0)
  BY DEF RequestInv, TypeOK, CallInv
<1>2. /\ Left' <=> Left
      /\ Left => tries' = tries
      /\ (IF pc = "sleep" \/ tries = 0 THEN tries ELSE tries - 1)'
           = (IF pc = "sleep" \/ tries = 0 THEN tries ELSE tries - 1)
  BY <1>1 DEF Left
<1>3. relay' = relay /\ retry' = retry
  BY <1>2 DEF relay, retry
<1>4. result' = result
  BY <1>2 DEF result
<1>5. attempts' = attempts
  BY DEF attempts
<1>. QED
  BY <1>3, <1>4, <1>5 DEF View

LEMMA StepRefines == ASSUME RequestInv, [Next]_vars PROVE [Attempt]_View
<1>1. CASE Do \/ Retry \/ Close
  BY <1>1, OthersStutter DEF Do, Retry, Close
<1>2. CASE Fail \/ Respond
  BY <1>2, ReturnedRefines DEF Fail, Respond, Kinds
<1>3. CASE \E n \in Try : Connect(n) \/ Write(n)
  BY <1>3, OthersStutter
  DEF Connect, Write, ReadPart, Advance, ReadEOF, WriteFails
<1>4. CASE UNCHANGED vars
  BY <1>4, OthersStutter DEF vars
<1>. QED
  BY <1>1, <1>2, <1>3, <1>4 DEF Next, Over

\* A call of doRequest makes the attempts of Consumer, no more and no fewer.
THEOREM AttemptRefinement == Spec => ImplementsAttempt
<1>1. RequestInv /\ [Next]_vars
        => [Coarse!Attempt("c")]_<<relay, retry, result, attempts>>
  BY StepRefines DEF Attempt, View
<1>. QED
  BY <1>1, RequestInvariance, PTL DEF Spec, ImplementsAttempt
=============================================================================
