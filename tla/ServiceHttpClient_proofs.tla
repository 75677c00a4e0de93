----------------------- MODULE ServiceHttpClient_proofs -----------------------
(***************************************************************************)
(* Proofs about ServiceHttpClient, for any senders, retries and threshold. *)
(***************************************************************************)
EXTENDS ServiceHttpClient, TLAPS

\* What is so of one coroutine's request: between requests it stands at its
\* first attempt, and while it sleeps it has an attempt left.
RequestOK(s) ==
    /\ s \in Request
    /\ s.pc = "idle" => s.attempt = 0
    /\ s.pc = "backoff" => s.attempt < max_retries

\* What is so of a breaker: it is closed while it counts below the threshold.
BreakerOK(b) ==
    /\ b \in Breaker
    /\ b.state = "closed" <=> b.failure_count < failure_threshold

\* The breaker's counter counts whole requests.
IInv ==
    /\ BreakerOK(circuit)
    /\ DOMAIN sender = Senders
    /\ sender = [c \in Senders |-> sender[c]]
    /\ \A c \in Senders : RequestOK(sender[c])
    /\ healthy \in BOOLEAN
    /\ exhausted = circuit.failure_count

-----------------------------------------------------------------------------
\* Every request that is over, or about to be sent, is well formed.
LEMMA RequestsOK ==
    /\ \A result \in Results : RequestOK(return(result))
    /\ \A n \in 0 .. max_retries :
          RequestOK([pc |-> "in_flight", attempt |-> n, result |-> "none"])
BY RetriesAssumption DEF RequestOK, Request, Pcs, Results, return

\* Reading the state moves an open breaker at most to half_open.
LEMMA ReadStateKeeps ==
    ASSUME NEW b, BreakerOK(b)
    PROVE  BreakerOK(read_state(b)) /\ read_state(b).failure_count = b.failure_count
BY DEF BreakerOK, Breaker, read_state, States

\* A recorded success closes the breaker and clears its counter.
LEMMA SuccessCloses ==
    ASSUME NEW b, BreakerOK(b)
    PROVE  BreakerOK(record_success(b)) /\ record_success(b).failure_count = 0
BY ThresholdAssumption DEF BreakerOK, Breaker, record_success, States

\* A recorded failure counts one, and opens the breaker at the threshold.
LEMMA FailureCounts ==
    ASSUME NEW b, BreakerOK(b), b.failure_count < MaxFailures
    PROVE  /\ BreakerOK(record_failure(b))
           /\ record_failure(b).failure_count = b.failure_count + 1
BY ThresholdAssumption DEF BreakerOK, Breaker, record_failure, trips, States

\* A well-formed request in one coroutine's place leaves all well formed.
LEMMA BecomeKeeps ==
    ASSUME IInv, NEW c \in Senders, NEW s, RequestOK(s), Become(c, s)
    PROVE  /\ DOMAIN sender' = Senders
           /\ sender' = [d \in Senders |-> sender'[d]]
           /\ \A d \in Senders : RequestOK(sender'[d])
BY DEF IInv, Become

LEMMA InitIInv == Init => IInv
<1> SUFFICES ASSUME Init PROVE IInv
    OBVIOUS
<1>1. BreakerOK(circuit)
    BY ThresholdAssumption DEF Init, BreakerOK, Breaker, States
<1>2. ASSUME NEW c \in Senders PROVE RequestOK(sender[c])
    BY RetriesAssumption DEF Init, RequestOK, Request, Pcs, Results
<1> QED BY <1>1, <1>2 DEF Init, IInv

LEMMA StepIInv == IInv /\ [Next]_vars => IInv'
<1> SUFFICES ASSUME IInv, [Next]_vars PROVE IInv'
    OBVIOUS
<1>1. ASSUME NEW c \in Senders, Send(c) PROVE IInv'
  <2>1. PICK s : RequestOK(s) /\ Become(c, s)
      BY <1>1, RequestsOK, RetriesAssumption DEF Send, Results
  <2>2. BreakerOK(circuit') /\ circuit'.failure_count = circuit.failure_count
      BY <1>1, ReadStateKeeps DEF Send, IInv
  <2> QED BY <1>1, <2>1, <2>2, BecomeKeeps DEF Send, IInv
<1>2. ASSUME NEW c \in Senders, Succeed(c) PROVE IInv'
  <2>1. RequestOK(return("response"))
      BY RequestsOK DEF Results
  <2>2. BreakerOK(circuit') /\ circuit'.failure_count = 0
      BY <1>2, SuccessCloses DEF Succeed, IInv
  <2> QED BY <1>2, <2>1, <2>2, BecomeKeeps DEF Succeed, IInv
<1>3. ASSUME NEW c \in Senders, NEW result \in {"response", "connect_error"},
             FailAttempt(c, result)
      PROVE IInv'
  <2>1. CASE is_last_attempt(sender[c])
    <3>1. RequestOK(return(result))
        BY RequestsOK DEF Results
    <3>2. /\ BreakerOK(circuit')
          /\ circuit'.failure_count = circuit.failure_count + 1
        BY <1>3, <2>1, FailureCounts DEF FailAttempt, IInv
    <3>3. exhausted' = exhausted + 1 /\ healthy' = healthy
        BY <1>3, <2>1 DEF FailAttempt, is_last_attempt
    <3> QED BY <1>3, <2>1, <3>1, <3>2, <3>3, BecomeKeeps DEF FailAttempt, IInv
  <2>2. CASE ~is_last_attempt(sender[c])
    <3>1. RequestOK([sender[c] EXCEPT !.pc = "backoff"])
        BY <2>2, RetriesAssumption
        DEF IInv, RequestOK, Request, Pcs, is_last_attempt
    <3>2. UNCHANGED <<circuit, healthy, exhausted>>
        BY <1>3, <2>2 DEF FailAttempt, is_last_attempt
    <3> QED BY <1>3, <2>2, <3>1, <3>2, BecomeKeeps DEF FailAttempt, IInv
  <2> QED BY <2>1, <2>2
<1>4. ASSUME NEW c \in Senders, Retry(c) PROVE IInv'
  <2>1. sender[c].attempt + 1 \in 0 .. max_retries
      BY <1>4, RetriesAssumption DEF Retry, IInv, RequestOK, Request
  <2> QED BY <1>4, <2>1, RequestsOK, BecomeKeeps DEF Retry, IInv
<1>5. ASSUME NEW c \in Senders, Abandon(c) PROVE IInv'
  <2>1. RequestOK(return("other_error"))
      BY RequestsOK DEF Results
  <2> QED BY <1>5, <2>1, BecomeKeeps DEF Abandon, IInv
<1>6. CASE ReadCircuitState
    BY <1>6, ReadStateKeeps DEF ReadCircuitState, IInv
<1>7. CASE TimeoutPasses
  <2>1. BreakerOK(circuit') /\ circuit'.failure_count = circuit.failure_count
      BY <1>7 DEF TimeoutPasses, IInv, BreakerOK, Breaker
  <2> QED BY <1>7, <2>1 DEF TimeoutPasses, IInv
<1>8. CASE ServiceRecovers
    BY <1>8 DEF ServiceRecovers, IInv
<1>9. CASE UNCHANGED vars
    BY <1>9 DEF vars, IInv
<1> QED BY <1>1, <1>2, <1>3, <1>4, <1>5, <1>6, <1>7, <1>8, <1>9 DEF Next

\* In every reachable state the counter, the state and the history agree.
THEOREM Invariance == Spec => []IInv
BY InitIInv, StepIInv, PTL DEF Spec

-----------------------------------------------------------------------------
\* Every variable keeps its shape; attempts never exceed max_retries + 1.
THEOREM TypeCorrect == Spec => []TypeOK
<1>1. IInv => TypeOK
  <2> SUFFICES ASSUME IInv PROVE TypeOK
      OBVIOUS
  <2>1. sender \in [Senders -> Request]
      BY DEF IInv, RequestOK
  <2>2. exhausted \in Nat
      BY DEF IInv, BreakerOK, Breaker
  <2> QED BY <2>1, <2>2 DEF IInv, TypeOK, BreakerOK, RequestOK
<1> QED BY <1>1, Invariance, PTL

\* The breaker is closed exactly while its counter is below the threshold.
THEOREM StateFollowsCount == Spec => []StateMatchesCount
<1>1. IInv => StateMatchesCount
    BY DEF IInv, BreakerOK, StateMatchesCount
<1> QED BY <1>1, Invariance, PTL

\* Only whole requests that ran out of retries open the breaker.
THEOREM WholeRequestsOpen == Spec => []OpenedByWholeRequests
<1>1. IInv => OpenedByWholeRequests
    BY ThresholdAssumption
    DEF IInv, BreakerOK, Breaker, States, OpenedByWholeRequests
<1> QED BY <1>1, Invariance, PTL
=============================================================================
