--------------------------- MODULE ServiceHttpClient ---------------------------
(***************************************************************************)
(* ServiceHttpClient and its _CircuitBreaker (http.py): the requests that  *)
(* several coroutines send through one client, their retries, and the      *)
(* breaker they share.                                                     *)
(*                                                                         *)
(* A coroutine sends one request after another.  Of time only one thing    *)
(* matters, whether reset_timeout has passed since the last recorded       *)
(* failure.  What a request carries is left out.                           *)
(***************************************************************************)
EXTENDS Integers

CONSTANTS
    Senders,             \* the coroutines that use the client
    max_retries,
    failure_threshold,
    MaxFailures          \* bound on what _failure_count may reach

VARIABLES
    circuit,   \* the breaker: _state, _failure_count, has the timeout passed
    sender,    \* what each coroutine's request is doing
    healthy,   \* the service answers every request from now on
    exhausted  \* history: requests that ran out of retries since a success

vars == <<circuit, sender, healthy, exhausted>>

ASSUME RetriesAssumption == max_retries \in Nat

ASSUME ThresholdAssumption ==
    /\ failure_threshold \in Nat \ {0}
    /\ MaxFailures \in Nat /\ failure_threshold <= MaxFailures

States == {"closed", "open", "half_open"}

Breaker == [state : States, failure_count : 0 .. MaxFailures,
            timeout_passed : BOOLEAN]

-----------------------------------------------------------------------------
(***************************************************************************)
(* _CircuitBreaker.  The property `state' is read through, and stores, the *)
(* transition from open to half_open.                                      *)
(***************************************************************************)
\* Fault variant of read_state: an open circuit never half-opens.
read_state_stuck(b) == b

read_state(b) ==
    IF b.state = "open" /\ b.timeout_passed
    THEN [b EXCEPT !.state = "half_open"] ELSE b

allow_request(b) == read_state(b).state \in {"closed", "half_open"}

record_success(b) ==
    [state |-> "closed", failure_count |-> 0, timeout_passed |-> b.timeout_passed]

\* Fault variant of trips: the threshold is exceeded, not reached.
trips_above(b) == b.state = "half_open" \/ b.failure_count + 1 > failure_threshold

trips(b) == b.state = "half_open" \/ b.failure_count + 1 >= failure_threshold

record_failure(b) ==
    [state          |-> IF trips(b) THEN "open" ELSE b.state,
     failure_count  |-> b.failure_count + 1,
     timeout_passed |-> FALSE]

-----------------------------------------------------------------------------
(***************************************************************************)
(* _execute_with_retry.                                                    *)
(***************************************************************************)
Pcs == {"idle", "in_flight", "backoff"}

\* How a request ends for its caller.
Results == {"none", "response", "connect_error", "circuit_open", "other_error"}

Request == [pc : Pcs, attempt : 0 .. max_retries, result : Results]

\* Fault variant of is_last_attempt: every failed attempt counts as a failure.
is_last_attempt_always(s) == TRUE

\* Fault variant of is_last_attempt: one retry too many.
is_last_attempt_late(s) == s.attempt > max_retries

is_last_attempt(s) == s.attempt = max_retries

\* The request of a coroutine is over, with this result.
return(result) == [pc |-> "idle", attempt |-> 0, result |-> result]

Become(c, s) == sender' = [sender EXCEPT ![c] = s]

\* The breaker is asked once, before the first attempt.
Send(c) ==
    /\ sender[c].pc = "idle"
    /\ circuit' = read_state(circuit)
    /\ Become(c, IF allow_request(circuit)
                 THEN [pc |-> "in_flight", attempt |-> 0, result |-> "none"]
                 ELSE return("circuit_open"))
    /\ UNCHANGED <<healthy, exhausted>>

\* Any status but 502, 503 and 504 is a success, whatever the breaker's state.
Succeed(c) ==
    /\ sender[c].pc = "in_flight"
    /\ circuit' = record_success(circuit)
    /\ Become(c, return("response"))
    /\ exhausted' = 0
    /\ UNCHANGED healthy

\* 502, 503 or 504 (the last of which is returned), or a ConnectError (the last
\* of which is raised).
FailAttempt(c, result) ==
    /\ sender[c].pc = "in_flight"
    /\ ~healthy
    /\ IF is_last_attempt(sender[c])
       THEN /\ circuit.failure_count < MaxFailures
            /\ circuit' = record_failure(circuit)
            /\ Become(c, return(result))
       ELSE /\ Become(c, [sender[c] EXCEPT !.pc = "backoff"])
            /\ UNCHANGED circuit
    /\ exhausted' = IF sender[c].attempt = max_retries
                    THEN exhausted + 1 ELSE exhausted
    /\ UNCHANGED healthy

\* asyncio.sleep is over.
Retry(c) ==
    /\ sender[c].pc = "backoff"
    /\ Become(c, [pc |-> "in_flight", attempt |-> sender[c].attempt + 1,
                  result |-> "none"])
    /\ UNCHANGED <<circuit, healthy, exhausted>>

\* A read timeout, another httpx error or a cancellation: the breaker is not told.
Abandon(c) ==
    /\ sender[c].pc \in {"in_flight", "backoff"}
    /\ sender[c].pc = "in_flight" => ~healthy
    /\ Become(c, return("other_error"))
    /\ UNCHANGED <<circuit, healthy, exhausted>>

\* Someone reads circuit_state.
ReadCircuitState ==
    /\ circuit' = read_state(circuit)
    /\ UNCHANGED <<sender, healthy, exhausted>>

\* reset_timeout seconds have passed since the last recorded failure.
TimeoutPasses ==
    /\ ~circuit.timeout_passed
    /\ circuit' = [circuit EXCEPT !.timeout_passed = TRUE]
    /\ UNCHANGED <<sender, healthy, exhausted>>

\* The service recovers for good.
ServiceRecovers ==
    /\ ~healthy
    /\ healthy' = TRUE
    /\ UNCHANGED <<circuit, sender, exhausted>>

-----------------------------------------------------------------------------
\* _last_failure_time starts at 0.0, long past.
Init ==
    /\ circuit = [state |-> "closed", failure_count |-> 0, timeout_passed |-> TRUE]
    /\ sender = [c \in Senders |-> [pc |-> "idle", attempt |-> 0, result |-> "none"]]
    /\ healthy = FALSE
    /\ exhausted = 0

Next ==
    \/ \E c \in Senders : Send(c)
    \/ \E c \in Senders : Succeed(c)
    \/ \E c \in Senders : FailAttempt(c, "response")
    \/ \E c \in Senders : FailAttempt(c, "connect_error")
    \/ \E c \in Senders : Retry(c)
    \/ \E c \in Senders : Abandon(c)
    \/ ReadCircuitState
    \/ TimeoutPasses
    \/ ServiceRecovers

Spec == Init /\ [][Next]_vars

(***************************************************************************)
(* Fairness.  Time passes; a sleep ends; a request that is in flight ends, *)
(* because httpx has a timeout; and the services keep sending requests.    *)
(***************************************************************************)
EndAttempt(c) ==
    \/ Succeed(c)
    \/ FailAttempt(c, "response")
    \/ FailAttempt(c, "connect_error")
    \/ sender[c].pc = "in_flight" /\ Abandon(c)

FairSpec ==
    /\ Spec
    /\ WF_vars(TimeoutPasses)
    /\ \A c \in Senders : /\ WF_vars(Send(c))
                          /\ WF_vars(EndAttempt(c))
                          /\ WF_vars(Retry(c))

-----------------------------------------------------------------------------
(***************************************************************************)
(* Properties.                                                             *)
(***************************************************************************)
\* The shape of every variable; no request is sent more than max_retries + 1
\* times, and the next one starts from its first attempt.
TypeOK ==
    /\ circuit \in Breaker
    /\ sender \in [Senders -> Request]
    /\ \A c \in Senders : sender[c].pc = "idle" => sender[c].attempt = 0
    /\ healthy \in BOOLEAN
    /\ exhausted \in Nat

\* The breaker is closed exactly as long as fewer than failure_threshold
\* failures were recorded since the last success: through late answers, half-open
\* probes and re-openings the state and the counter never disagree.
StateMatchesCount ==
    circuit.state = "closed" <=> circuit.failure_count < failure_threshold

\* A single request never opens the breaker by its retries: it is not closed
\* only if failure_threshold whole requests ran out of retries since a success.
OpenedByWholeRequests ==
    circuit.state # "closed" => failure_threshold <= exhausted

\* The breaker does not keep a recovered service cut off: while services go on
\* sending, it closes and stays closed, whatever requests were lost on the way.
ClosesAfterRecovery == healthy ~> [](circuit.state = "closed")
=============================================================================
