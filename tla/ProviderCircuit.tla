--------------------------- MODULE ProviderCircuit ---------------------------
(***************************************************************************)
(* One circuit of the breaker in front of a model provider                 *)
(* (services/provider_circuit.py) and the requests that pass it            *)
(* (stream_provider_response in services/provider_proxy.py).               *)
(*                                                                         *)
(* A request asks allow(), is admitted against its run, is sent, and ends  *)
(* with a verdict that is recorded in the circuit; the requests of the     *)
(* process interleave between these steps.  A run that was cancelled or    *)
(* lost its lease in the meantime is refused after allow() has counted it, *)
(* and a caller that goes away while the answer is awaited ends without a  *)
(* verdict.                                                                *)
(***************************************************************************)
EXTENDS Naturals, FiniteSets

CONSTANTS
    Requests,          \* requests in flight at one time; each may come again
    FailureThreshold,  \* AGENT_CIRCUIT_FAILURE_THRESHOLD
    Probes,            \* AGENT_CIRCUIT_HALF_OPEN_PROBES
    SuccessesRequired  \* half_open_successes_required

\* Only finitely many requests are in flight in one process.
ASSUME FiniteRequests == IsFiniteSet(Requests)

ASSUME CircuitAssumption ==
    /\ FailureThreshold \in Nat \ {0}
    /\ Probes \in Nat \ {0}
    /\ SuccessesRequired \in Nat \ {0}

VARIABLES
    state,     \* the circuit's state; "cooled" is an open circuit whose cooldown,
               \* counted from opened_at, is over
    failures,  \* consecutive_failures, as far as the threshold
    inFlight,  \* half_open_in_flight
    successes, \* half_open_successes
    request,   \* each request, and under which rule it was allowed
    down,      \* the upstream is unreachable
    doomed,    \* requests the outage has hit
    \* History of the current half-open period:
    sent,      \* requests let through
    lost,      \* probes that ended without a verdict
    late       \* the verdict of an older request was recorded as a probe's

circuit == <<state, failures, inFlight, successes>>
period == <<sent, lost, late>>
vars == <<circuit, request, down, doomed, period>>

(* normal: allowed while closed.  probe: allowed in the current half-open  *)
(* period.  late: allowed in a half-open period that is over.              *)
Sent == {"normal", "probe", "late"}
InFlight(kind) == {r \in Requests : request[r] = kind}

\* A request is let through that begins, or continues, a half-open period; n is
\* 1 if it is lost at once.
NewPeriod(n) == sent' = 1 /\ lost' = n /\ late' = FALSE
SamePeriod(n) == sent' = sent + 1 /\ lost' = lost + n /\ UNCHANGED late

Init ==
    /\ state = "closed" /\ failures = 0
    /\ inFlight = 0 /\ successes = 0
    /\ request = [r \in Requests |-> "none"]
    /\ down = FALSE /\ doomed = {}
    /\ sent = 0 /\ lost = 0 /\ late = FALSE

-----------------------------------------------------------------------------
(* allow, by the state it finds.                                           *)

\* Mutant of MayProbe: off by one at the limit.
MayProbeOneMore(count) == count <= Probes

MayProbe(count) == count < Probes

\* Mutant of Count: the limit on probes is not looked at.
CountUnlimited(n) == inFlight' = n + 1

Count(n) == MayProbe(n) /\ inFlight' = n + 1

AllowClosed ==
    /\ state = "closed"
    /\ UNCHANGED circuit

\* Mutant of AllowCooled: the count of the period before is not reset.
AllowCooledDirty ==
    /\ state = "cooled"
    /\ state' = "half_open" /\ successes' = 0
    /\ Count(inFlight)
    /\ UNCHANGED failures

\* The first request after the cooldown starts a half-open period.
AllowCooled ==
    /\ state = "cooled"
    /\ state' = "half_open" /\ successes' = 0
    /\ Count(0)
    /\ UNCHANGED failures

AllowProbe ==
    /\ state = "half_open"
    /\ Count(inFlight)
    /\ UNCHANGED <<state, failures, successes>>

\* The request goes out under the rule that let it pass.
Send(r) ==
    /\ request[r] = "none"
    /\ \/ /\ AllowClosed
          /\ request' = [request EXCEPT ![r] = "normal"]
          /\ UNCHANGED period
       \/ /\ AllowCooled
          /\ request' = [request EXCEPT ![r] = "probe"]
          /\ NewPeriod(0)
       \/ /\ AllowProbe
          /\ request' = [request EXCEPT ![r] = "probe"]
          /\ SamePeriod(0)
    /\ doomed' = IF down THEN doomed \cup {r} ELSE doomed
    /\ UNCHANGED down

\* _admit_upstream_request raises after allow() has said yes: nothing is sent
\* and nothing is recorded.
Refused(r) ==
    /\ request[r] = "none"
    /\ \/ AllowCooled /\ NewPeriod(1)
       \/ AllowProbe /\ SamePeriod(1)
    /\ UNCHANGED <<request, down, doomed>>

-----------------------------------------------------------------------------
(* The verdicts.                                                           *)

\* A request ends; the probes of a period that ends with it are late.
Ended(r, periodOver) ==
    /\ request' = [q \in Requests |->
                     IF q = r THEN "none"
                     ELSE IF periodOver /\ request[q] = "probe" THEN "late"
                     ELSE request[q]]
    /\ doomed' = doomed \ {r}

OneLess == IF inFlight = 0 THEN 0 ELSE inFlight - 1

\* Mutant of RecordSuccess: a successful probe stays counted as in flight.
RecordSuccessStillCounted ==
    IF state = "half_open"
    THEN /\ IF successes + 1 >= SuccessesRequired
            THEN state' = "closed" /\ failures' = 0 /\ successes' = 0
            ELSE successes' = successes + 1 /\ UNCHANGED <<state, failures>>
         /\ UNCHANGED inFlight
    ELSE failures' = 0 /\ UNCHANGED <<state, inFlight, successes>>

RecordSuccess ==
    IF state = "half_open"
    THEN /\ inFlight' = OneLess
         /\ IF successes + 1 >= SuccessesRequired
            THEN state' = "closed" /\ failures' = 0 /\ successes' = 0
            ELSE successes' = successes + 1 /\ UNCHANGED <<state, failures>>
    ELSE failures' = 0 /\ UNCHANGED <<state, inFlight, successes>>

\* A failure that is recorded while the circuit is open starts the cooldown
\* again.
RecordFailure ==
    IF state = "half_open"
    THEN /\ inFlight' = OneLess /\ successes' = 0
         /\ state' = "open"
         /\ UNCHANGED failures
    ELSE /\ failures' = IF failures < FailureThreshold THEN failures + 1
                        ELSE failures
         /\ state' = IF failures' >= FailureThreshold THEN "open" ELSE state
         /\ UNCHANGED <<inFlight, successes>>

PeriodEnds == state = "half_open" /\ state' # "half_open"
Noted(r) ==
    /\ late' = (late \/ (state = "half_open" /\ request[r] # "probe"))
    /\ UNCHANGED <<sent, lost>>

\* Response headers arrived, whatever the status code.
Succeed(r) ==
    /\ request[r] \in Sent /\ ~down
    /\ RecordSuccess
    /\ Ended(r, PeriodEnds)
    /\ Noted(r)
    /\ UNCHANGED down

\* The transport failed or the header timeout expired.
Fail(r) ==
    /\ request[r] \in Sent /\ r \in doomed
    /\ RecordFailure
    /\ Ended(r, PeriodEnds)
    /\ Noted(r)
    /\ UNCHANGED down

\* The caller is cancelled while the headers are awaited: no verdict.
Abandon(r) ==
    /\ request[r] \in Sent
    /\ Ended(r, FALSE)
    /\ lost' = IF request[r] = "probe" THEN lost + 1 ELSE lost
    /\ UNCHANGED <<circuit, down, sent, late>>

\* cooldown_seconds have passed since opened_at.  A request may still be in
\* flight: the header timeout and the cooldown are configured separately.
CooldownOver ==
    /\ state = "open"
    /\ state' = "cooled"
    /\ UNCHANGED <<failures, inFlight, successes, request, down, doomed,
                   period>>

Outage ==
    /\ ~down
    /\ down' = TRUE
    /\ doomed' = {r \in Requests : request[r] \in Sent}
    /\ UNCHANGED <<circuit, request, period>>

Recovery ==
    /\ down
    /\ down' = FALSE
    /\ UNCHANGED <<circuit, request, doomed, period>>

-----------------------------------------------------------------------------
Next ==
    \/ \E r \in Requests : Send(r) \/ Refused(r) \/ Succeed(r) \/ Fail(r) \/ Abandon(r)
    \/ CooldownOver \/ Outage \/ Recovery

Spec == Init /\ [][Next]_vars

\* The header timeout bounds every answer and the cooldown is a clock.  That
\* requests keep coming is the one assumption on the callers; a circuit nobody
\* asks never leaves open.
Fairness ==
    /\ \A r \in Requests : WF_vars(Succeed(r) \/ Fail(r))
    /\ WF_vars(CooldownOver)
    /\ WF_vars(\E r \in Requests : Send(r))

FairSpec == Spec /\ Fairness

-----------------------------------------------------------------------------
TypeOK ==
    /\ state \in {"closed", "open", "cooled", "half_open"}
    /\ failures \in 0..FailureThreshold
    /\ inFlight \in 0..Probes
    /\ successes \in 0..SuccessesRequired - 1
    /\ request \in [Requests -> {"none"} \cup Sent]
    /\ down \in BOOLEAN
    /\ doomed \subseteq Requests
    /\ sent \in Nat /\ lost \in Nat /\ late \in BOOLEAN

\* Every probe the circuit counts is a request that will still report, or one
\* that ended without a verdict: a half-open circuit is never full because of
\* a miscount of its own.
ProbesAreReal ==
    state = "half_open" => inFlight <= Cardinality(InFlight("probe")) + lost

\* In half_open a request is allowed only while fewer probes than
\* half_open_probes are in flight (the docstring of allow), counting requests
\* and not the circuit's own count of them.  The verdict of a request from
\* before the outage breaks this, so it needs a header timeout below the
\* cooldown, as in the defaults.
ProbeLimit ==
    state = "half_open" /\ ~late => Cardinality(InFlight("probe")) <= Probes

\* An upstream on trial gets few requests before the verdict, also when late
\* verdicts of older requests are taken for those of probes.
TrialBounded ==
    state = "half_open" => sent <= Probes + SuccessesRequired - 1

\* Once the upstream stays reachable and probes report, the circuit closes and
\* stays closed, whatever stale failures are still recorded.
Recovers ==
    <>[]~down /\ <>[](state = "half_open" => lost = 0)
        => <>[](state = "closed")

\* What the docstring of allow says: in half_open a request is refused only
\* because enough probes are in flight.
RefusalHasAProbe ==
    state = "half_open" /\ ~MayProbe(inFlight) => InFlight("probe") # {}
=============================================================================
