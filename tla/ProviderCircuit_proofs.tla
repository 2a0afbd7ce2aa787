----------------------- MODULE ProviderCircuit_proofs -----------------------
(***************************************************************************)
(* What the breaker guarantees for any number of requests, any threshold   *)
(* and any number of probes: types, the bound on a trial, and that the     *)
(* circuit's count of probes is backed by requests.                        *)
(***************************************************************************)
EXTENDS ProviderCircuit, FiniteSetTheorems, TLAPS

-----------------------------------------------------------------------------
(* Why a trial is bounded: every request let through in a half-open period *)
(* is still counted as in flight, or a success was recorded for it, or for *)
(* an older request in its place.                                          *)
SentIsCounted == state = "half_open" => sent <= inFlight + successes

CircuitInv == TypeOK /\ SentIsCounted

CircuitTypes ==
    /\ state \in {"closed", "open", "cooled", "half_open"}
    /\ failures \in 0..FailureThreshold
    /\ inFlight \in 0..Probes
    /\ successes \in 0..SuccessesRequired - 1

RequestTypes ==
    /\ request \in [Requests -> {"none"} \cup Sent]
    /\ down \in BOOLEAN
    /\ doomed \subseteq Requests

PeriodTypes == sent \in Nat /\ lost \in Nat /\ late \in BOOLEAN

LEMMA TypesByPart == TypeOK <=> CircuitTypes /\ RequestTypes /\ PeriodTypes
BY DEF TypeOK, CircuitTypes, RequestTypes, PeriodTypes

LEMMA TypesByPartNext == TypeOK' <=> CircuitTypes' /\ RequestTypes' /\ PeriodTypes'
BY DEF TypeOK, CircuitTypes, RequestTypes, PeriodTypes

LEMMA InitCircuitInv == Init => CircuitInv
<1> SUFFICES ASSUME Init
             PROVE  CircuitInv
  OBVIOUS
<1>1. CircuitTypes
  BY CircuitAssumption DEF Init, CircuitTypes
<1>2. RequestTypes
  BY DEF Init, RequestTypes
<1>3. PeriodTypes
  BY DEF Init, PeriodTypes
<1>4. SentIsCounted
  BY DEF Init, SentIsCounted
<1>5. QED BY <1>1, <1>2, <1>3, <1>4, TypesByPart DEF CircuitInv

LEMMA StepCircuitInv == CircuitInv /\ [Next]_vars => CircuitInv'
<1> SUFFICES ASSUME CircuitInv, [Next]_vars
             PROVE  CircuitInv'
  OBVIOUS
<1> USE CircuitAssumption
<1>0. CircuitTypes /\ RequestTypes /\ PeriodTypes /\ SentIsCounted
  BY TypesByPart DEF CircuitInv
\* A request that is let through while the circuit is closed.
<1>1. ASSUME AllowClosed, UNCHANGED period
      PROVE  CircuitTypes' /\ PeriodTypes' /\ SentIsCounted'
  BY <1>0, <1>1 DEF AllowClosed, circuit, period, CircuitTypes, PeriodTypes, SentIsCounted
\* The first request of a half-open period.
<1>2. ASSUME NEW n \in Nat, AllowCooled,
             NewPeriod(n)
      PROVE  CircuitTypes' /\ PeriodTypes' /\ SentIsCounted'
  <2>1. PeriodTypes' /\ sent' = 1
    BY <1>2 DEF NewPeriod, PeriodTypes
  <2>2. inFlight' = 1 /\ successes' = 0 /\ state' = "half_open"
        /\ failures' = failures
    BY <1>2 DEF AllowCooled, Count
  <2>3. CircuitTypes'
    BY <1>0, <2>2 DEF CircuitTypes
  <2>4. SentIsCounted'
    BY <2>1, <2>2 DEF SentIsCounted
  <2>5. QED BY <2>1, <2>3, <2>4
\* A further request of the period.
<1>3. ASSUME NEW n \in Nat, AllowProbe,
             SamePeriod(n)
      PROVE  CircuitTypes' /\ PeriodTypes' /\ SentIsCounted'
  <2>1. PeriodTypes' /\ sent' = sent + 1
    BY <1>0, <1>3 DEF SamePeriod, PeriodTypes
  <2>2. /\ inFlight' = inFlight + 1 /\ inFlight < Probes
        /\ UNCHANGED <<state, failures, successes>>
    BY <1>3 DEF AllowProbe, Count, MayProbe
  <2>3. CircuitTypes'
    BY <1>0, <2>2 DEF CircuitTypes
  <2>4. SentIsCounted'
    BY <1>0, <2>1, <2>2 DEF SentIsCounted, CircuitTypes, PeriodTypes
  <2>5. QED BY <2>1, <2>3, <2>4
<1>4. ASSUME NEW r \in Requests, Send(r)
      PROVE  CircuitInv'
  <2>1. RequestTypes'
    BY <1>0, <1>4 DEF Send, RequestTypes, Sent
  <2>2. CASE AllowClosed /\ UNCHANGED period
    BY <1>1, <2>1, <2>2, TypesByPartNext DEF CircuitInv
  <2>3. CASE AllowCooled /\ NewPeriod(0)
    BY <1>2, <2>1, <2>3, TypesByPartNext DEF CircuitInv
  <2>4. CASE AllowProbe /\ SamePeriod(0)
    BY <1>3, <2>1, <2>4, TypesByPartNext DEF CircuitInv
  <2>5. QED BY <1>4, <2>2, <2>3, <2>4 DEF Send
<1>5. ASSUME NEW r \in Requests, Refused(r)
      PROVE  CircuitInv'
  <2>1. RequestTypes'
    BY <1>0, <1>5 DEF Refused, RequestTypes
  <2>2. QED
    BY <1>2, <1>3, <1>5, <2>1, TypesByPartNext DEF Refused, CircuitInv
\* A verdict leaves the count of requests let through alone.
<1>6. ASSUME NEW r \in Requests, Ended(r, PeriodEnds), Noted(r), UNCHANGED down
      PROVE  RequestTypes' /\ PeriodTypes' /\ sent' = sent
  <2>1. RequestTypes'
    BY <1>0, <1>6 DEF Ended, RequestTypes, Sent
  <2>2. PeriodTypes' /\ sent' = sent
    BY <1>0, <1>6 DEF Noted, PeriodTypes
  <2>3. QED BY <2>1, <2>2
<1>7. ASSUME NEW r \in Requests, Succeed(r)
      PROVE  CircuitInv'
  <2>1. RequestTypes' /\ PeriodTypes' /\ sent' = sent
    BY <1>6, <1>7 DEF Succeed
  <2>2. RecordSuccess
    BY <1>7 DEF Succeed
  <2>3. CircuitTypes'
    BY <1>0, <2>2 DEF RecordSuccess, OneLess, CircuitTypes
  <2>4. SentIsCounted'
    BY <1>0, <2>1, <2>2 DEF RecordSuccess, OneLess, SentIsCounted, CircuitTypes,
                            PeriodTypes
  <2>5. QED BY <2>1, <2>3, <2>4, TypesByPartNext DEF CircuitInv
<1>8. ASSUME NEW r \in Requests, Fail(r)
      PROVE  CircuitInv'
  <2>1. RequestTypes' /\ PeriodTypes' /\ sent' = sent
    BY <1>6, <1>8 DEF Fail
  <2>2. RecordFailure
    BY <1>8 DEF Fail
  <2>3. CASE state = "half_open"
    <3>1. /\ inFlight' = OneLess /\ successes' = 0
          /\ state' = "open" /\ failures' = failures
      BY <2>2, <2>3 DEF RecordFailure
    <3>2. CircuitTypes'
      BY <1>0, <3>1 DEF OneLess, CircuitTypes
    <3>3. QED BY <2>1, <3>1, <3>2, TypesByPartNext DEF CircuitInv, SentIsCounted
  <2>4. CASE state # "half_open"
    <3>1. /\ failures' = IF failures < FailureThreshold THEN failures + 1
                         ELSE failures
          /\ state' = "open" \/ state' = state
          /\ UNCHANGED <<inFlight, successes>>
      BY <2>2, <2>4 DEF RecordFailure
    <3>2. CircuitTypes'
      BY <1>0, <3>1 DEF CircuitTypes
    <3>3. state' # "half_open"
      BY <2>4, <3>1
    <3>4. QED BY <2>1, <3>2, <3>3, TypesByPartNext DEF CircuitInv, SentIsCounted
  <2>5. QED BY <2>3, <2>4
<1>9. ASSUME NEW r \in Requests, Abandon(r)
      PROVE  CircuitInv'
  <2>1. RequestTypes'
    BY <1>0, <1>9 DEF Abandon, Ended, RequestTypes, Sent
  <2>2. PeriodTypes' /\ sent' = sent
    BY <1>0, <1>9 DEF Abandon, PeriodTypes
  <2>3. UNCHANGED circuit
    BY <1>9 DEF Abandon
  <2>4. CircuitTypes' /\ SentIsCounted'
    BY <1>0, <2>2, <2>3 DEF circuit, CircuitTypes, SentIsCounted
  <2>5. QED BY <2>1, <2>2, <2>4, TypesByPartNext DEF CircuitInv
\* Steps of the environment.
<1>10. CASE CooldownOver
  <2>1. CircuitTypes' /\ RequestTypes' /\ PeriodTypes'
    BY <1>0, <1>10 DEF CooldownOver, period, CircuitTypes, RequestTypes, PeriodTypes
  <2>2. SentIsCounted'
    BY <1>10 DEF CooldownOver, SentIsCounted
  <2>3. QED BY <2>1, <2>2, TypesByPartNext DEF CircuitInv
<1>11. CASE Outage \/ Recovery \/ UNCHANGED vars
  <2>1. UNCHANGED <<circuit, request, period>>
    BY <1>11 DEF Outage, Recovery, vars
  <2>2. down' \in BOOLEAN /\ doomed' \subseteq Requests
    BY <1>0, <1>11 DEF Outage, Recovery, vars, RequestTypes
  <2>3. CircuitTypes' /\ RequestTypes' /\ PeriodTypes' /\ SentIsCounted'
    BY <1>0, <2>1, <2>2 DEF circuit, period, CircuitTypes, RequestTypes, PeriodTypes,
                            SentIsCounted
  <2>4. QED BY <2>3, TypesByPartNext DEF CircuitInv
<1>12. QED BY <1>4, <1>5, <1>7, <1>8, <1>9, <1>10, <1>11 DEF Next

LEMMA CircuitInvHolds == Spec => []CircuitInv
BY InitCircuitInv, StepCircuitInv, PTL DEF Spec

\* Every variable keeps its type: in particular the counters of a circuit never
\* pass their limits, whatever verdicts are recorded in whatever state.
THEOREM CircuitTypeCorrect == Spec => []TypeOK
<1>1. CircuitInv => TypeOK
  BY DEF CircuitInv
<1>2. QED BY <1>1, CircuitInvHolds, PTL

\* In one half-open period at most Probes + SuccessesRequired - 1 requests are
\* let through to the upstream.
THEOREM TrialIsBounded == Spec => []TrialBounded
<1>1. CircuitInv => TrialBounded
  BY CircuitAssumption DEF CircuitInv, TypeOK, SentIsCounted, TrialBounded
<1>2. QED BY <1>1, CircuitInvHolds, PTL

-----------------------------------------------------------------------------
(* The requests behind the circuit's count.                                *)

LEMMA ProbesFinite ==
    IsFiniteSet(InFlight("probe")) /\ Cardinality(InFlight("probe")) \in Nat
BY FiniteRequests, FS_Subset, FS_CardinalityType DEF InFlight

\* A request that becomes a probe adds one to them.
LEMMA OneMoreProbe ==
    ASSUME TypeOK, NEW r \in Requests, request[r] # "probe",
           request' = [request EXCEPT ![r] = "probe"]
    PROVE  Cardinality(InFlight("probe")') = Cardinality(InFlight("probe")) + 1
<1>1. InFlight("probe")' = InFlight("probe") \cup {r} /\ r \notin InFlight("probe")
  BY DEF TypeOK, InFlight
<1>2. QED BY <1>1, ProbesFinite, FS_AddElement

\* A request that ends takes at most one from them, and none if it was no probe.
LEMMA OneLessProbe ==
    ASSUME TypeOK, NEW r \in Requests, Ended(r, FALSE)
    PROVE  Cardinality(InFlight("probe")') =
             IF request[r] = "probe" THEN Cardinality(InFlight("probe")) - 1
                                     ELSE Cardinality(InFlight("probe"))
<1>1. InFlight("probe")' = InFlight("probe") \ {r}
  BY DEF TypeOK, InFlight, Ended
<1>2. CASE request[r] = "probe"
  <2>1. r \in InFlight("probe")
    BY <1>2 DEF InFlight
  <2>2. QED BY <1>1, <1>2, <2>1, ProbesFinite, FS_RemoveElement
<1>3. CASE request[r] # "probe"
  <2>1. InFlight("probe") \ {r} = InFlight("probe")
    BY <1>3 DEF InFlight
  <2>2. QED BY <1>1, <1>3, <2>1
<1>4. QED BY <1>2, <1>3

\* A verdict that does not end the half-open period.
LEMMA VerdictInPeriod ==
    ASSUME TypeOK, ProbesAreReal, NEW r \in Requests, state = "half_open",
           inFlight' = OneLess, Ended(r, FALSE), lost' = lost
    PROVE  inFlight' <= Cardinality(InFlight("probe")') + lost'
<1>1. inFlight <= Cardinality(InFlight("probe")) + lost
  BY DEF ProbesAreReal
<1>2. inFlight \in Nat /\ lost \in Nat
  BY CircuitAssumption DEF TypeOK
<1>3. Cardinality(InFlight("probe")) \in Nat /\ Cardinality(InFlight("probe")') \in Nat
  <2>1. IsFiniteSet(InFlight("probe")')
    BY FiniteRequests, FS_Subset DEF InFlight
  <2>2. QED BY <2>1, ProbesFinite, FS_CardinalityType
<1>4. Cardinality(InFlight("probe")') =
        IF request[r] = "probe" THEN Cardinality(InFlight("probe")) - 1
                                ELSE Cardinality(InFlight("probe"))
  BY OneLessProbe
<1>5. inFlight' = IF inFlight = 0 THEN 0 ELSE inFlight - 1
  BY DEF OneLess
<1>6. lost' = lost
  OBVIOUS
<1>7. QED BY <1>1, <1>2, <1>3, <1>4, <1>5, <1>6

\* Every probe that the circuit counts in a half-open period is a request in
\* flight or one that ended without a verdict.
THEOREM CountedProbesAreReal == Spec => []ProbesAreReal
<1>1. Init => ProbesAreReal
  BY DEF Init, ProbesAreReal
<1>2. ASSUME CircuitInv, CircuitInv', ProbesAreReal, [Next]_vars
      PROVE  ProbesAreReal'
  <2> SUFFICES ASSUME state' = "half_open"
               PROVE  inFlight' <= Cardinality(InFlight("probe")') + lost'
    BY DEF ProbesAreReal
  <2> USE CircuitAssumption
  <2>0. /\ TypeOK
        /\ inFlight \in Nat /\ lost \in Nat
        /\ inFlight' \in Nat /\ lost' \in Nat
    BY <1>2 DEF CircuitInv, TypeOK
  <2>1. Cardinality(InFlight("probe")) \in Nat /\ Cardinality(InFlight("probe")') \in Nat
    <3>1. IsFiniteSet(InFlight("probe")')
      BY FiniteRequests, FS_Subset DEF InFlight
    <3>2. QED BY <3>1, ProbesFinite, FS_CardinalityType
  <2>2. state = "half_open" =>
          inFlight <= Cardinality(InFlight("probe")) + lost
    BY <1>2 DEF ProbesAreReal
  <2>3. ASSUME NEW r \in Requests, Send(r)
        PROVE  inFlight' <= Cardinality(InFlight("probe")') + lost'
    <3>1. CASE AllowClosed
      BY <3>1 DEF AllowClosed, circuit
    <3>2. CASE AllowCooled /\ request' = [request EXCEPT ![r] = "probe"]
      <4>1. Cardinality(InFlight("probe")') = Cardinality(InFlight("probe")) + 1
        BY <2>0, <2>3, <3>2, OneMoreProbe DEF Send
      <4>2. QED BY <2>0, <2>1, <3>2, <4>1 DEF AllowCooled, Count
    <3>3. CASE AllowProbe /\ request' = [request EXCEPT ![r] = "probe"]
                          /\ SamePeriod(0)
      <4>1. Cardinality(InFlight("probe")') = Cardinality(InFlight("probe")) + 1
        BY <2>0, <2>3, <3>3, OneMoreProbe DEF Send
      <4>2. lost' = lost
        BY <2>0, <3>3 DEF SamePeriod
      <4>3. QED BY <2>0, <2>1, <2>2, <3>3, <4>1, <4>2 DEF AllowProbe, Count
    <3>4. QED BY <2>3, <3>1, <3>2, <3>3 DEF Send
  <2>4. ASSUME NEW r \in Requests, Refused(r)
        PROVE  inFlight' <= Cardinality(InFlight("probe")') + lost'
    <3>1. InFlight("probe")' = InFlight("probe")
      BY <2>4 DEF Refused, InFlight
    <3>2. CASE AllowCooled /\ NewPeriod(1)
      BY <2>1, <3>1, <3>2 DEF AllowCooled, Count, NewPeriod
    <3>3. CASE AllowProbe /\ SamePeriod(1)
      <4>1. lost' = lost + 1
        BY <2>0, <3>3 DEF SamePeriod
      <4>2. QED BY <2>0, <2>1, <2>2, <3>1, <3>3, <4>1 DEF AllowProbe, Count
    <3>4. QED BY <2>4, <3>2, <3>3 DEF Refused
  <2>5. ASSUME NEW r \in Requests, Succeed(r)
        PROVE  inFlight' <= Cardinality(InFlight("probe")') + lost'
    <3>1. state = "half_open" /\ inFlight' = OneLess
      BY <2>5 DEF Succeed, RecordSuccess
    <3>2. Ended(r, FALSE)
      BY <2>5, <3>1 DEF Succeed, PeriodEnds
    <3>3. lost' = lost
      BY <2>0, <2>5 DEF Succeed, Noted, TypeOK
    <3>4. QED BY <1>2, <2>0, <3>1, <3>2, <3>3, VerdictInPeriod
  <2>6. ASSUME NEW r \in Requests, Fail(r)
        PROVE  FALSE
    BY <2>0, <2>6 DEF Fail, RecordFailure, TypeOK
  <2>7. ASSUME NEW r \in Requests, Abandon(r)
        PROVE  inFlight' <= Cardinality(InFlight("probe")') + lost'
    <3>1. state = "half_open" /\ inFlight' = inFlight /\ Ended(r, FALSE)
      BY <2>7 DEF Abandon, circuit
    <3>2. lost' = IF request[r] = "probe" THEN lost + 1 ELSE lost
      BY <2>0, <2>7 DEF Abandon, TypeOK
    <3>3. Cardinality(InFlight("probe")') =
            IF request[r] = "probe" THEN Cardinality(InFlight("probe")) - 1
                                    ELSE Cardinality(InFlight("probe"))
      BY <2>0, <3>1, OneLessProbe
    <3>4. QED BY <2>0, <2>1, <2>2, <3>1, <3>2, <3>3
  <2>8. CASE CooldownOver
    BY <2>8 DEF CooldownOver
  <2>9. CASE Outage \/ Recovery \/ UNCHANGED vars
    <3>1. UNCHANGED <<state, inFlight, request, lost>>
      BY <2>9 DEF Outage, Recovery, vars, circuit, period
    <3>2. InFlight("probe")' = InFlight("probe")
      BY <3>1 DEF InFlight
    <3>3. QED BY <2>2, <3>1, <3>2
  <2>10. QED
    BY <1>2, <2>3, <2>4, <2>5, <2>6, <2>7, <2>8, <2>9 DEF Next
<1>3. QED BY <1>1, <1>2, CircuitInvHolds, PTL DEF Spec

-----------------------------------------------------------------------------
(* The limit on probes, counting requests and not the circuit's own count. *)

\* Outside a half-open period no request is a probe: those of a period that
\* ended are late.
NoProbeOutside == state # "half_open" => InFlight("probe") = {}

\* Until a late verdict is taken for a probe's, the circuit counts every probe.
ProbesAreCounted ==
    state = "half_open" /\ ~late => Cardinality(InFlight("probe")) <= inFlight

\* The probes after a verdict: none once the period is over, else one less at
\* most.
LEMMA ProbesAfterEnd ==
    ASSUME TypeOK, NEW r \in Requests, NEW over \in BOOLEAN, Ended(r, over)
    PROVE  InFlight("probe")' = IF over THEN {} ELSE InFlight("probe") \ {r}
<1>1. \A q \in Requests :
        request'[q] = "probe" <=> ~over /\ q # r /\ request[q] = "probe"
  BY DEF Ended
<1>2. QED BY <1>1 DEF InFlight

\* A period ends with the verdict that makes its probes late.
LEMMA NoProbeOutsideStep ==
    ASSUME TypeOK, NoProbeOutside, [Next]_vars
    PROVE  NoProbeOutside'
<1> SUFFICES ASSUME state' # "half_open" PROVE InFlight("probe")' = {}
  BY DEF NoProbeOutside
<1>1. ASSUME NEW r \in Requests, Send(r) PROVE InFlight("probe")' = {}
  <2>1. /\ state = "closed" /\ state' = state
        /\ request' = [request EXCEPT ![r] = "normal"]
    BY <1>1 DEF Send, AllowClosed, AllowCooled, AllowProbe, circuit
  <2>2. InFlight("probe") = {}
    BY <2>1 DEF NoProbeOutside
  <2>3. QED BY <2>1, <2>2 DEF InFlight, TypeOK
<1>2. ASSUME NEW r \in Requests, Refused(r) PROVE FALSE
  BY <1>2 DEF Refused, AllowCooled, AllowProbe
<1>3. ASSUME NEW r \in Requests, Succeed(r) \/ Fail(r)
      PROVE  InFlight("probe")' = {}
  <2>1. Ended(r, PeriodEnds) /\ PeriodEnds \in BOOLEAN
    BY <1>3 DEF Succeed, Fail, PeriodEnds
  <2>2. PeriodEnds \/ InFlight("probe") = {}
    BY DEF PeriodEnds, NoProbeOutside
  <2>3. QED BY <2>1, <2>2, ProbesAfterEnd
<1>4. ASSUME NEW r \in Requests, Abandon(r) PROVE InFlight("probe")' = {}
  <2>1. InFlight("probe") = {}
    BY <1>4 DEF Abandon, circuit, NoProbeOutside
  <2>2. InFlight("probe")' = InFlight("probe") \ {r}
    BY <1>4, ProbesAfterEnd DEF Abandon
  <2>3. QED BY <2>1, <2>2
<1>5. CASE CooldownOver \/ Outage \/ Recovery \/ UNCHANGED vars
  <2>1. request' = request /\ state # "half_open"
    BY <1>5 DEF CooldownOver, Outage, Recovery, vars, circuit
  <2>2. QED BY <2>1 DEF NoProbeOutside, InFlight
<1>6. QED BY <1>1, <1>2, <1>3, <1>4, <1>5 DEF Next

\* Each new probe is counted, and a probe's verdict takes itself off the count.
LEMMA ProbesAreCountedStep ==
    ASSUME TypeOK, TypeOK', NoProbeOutside, ProbesAreCounted, [Next]_vars
    PROVE  ProbesAreCounted'
<1> SUFFICES ASSUME state' = "half_open", ~late'
             PROVE  Cardinality(InFlight("probe")') <= inFlight'
  BY DEF ProbesAreCounted
<1> DEFINE n == Cardinality(InFlight("probe"))
<1>1. /\ n \in Nat /\ inFlight \in Nat
      /\ state = "half_open" /\ ~late => n <= inFlight
      /\ state # "half_open" => n = 0
  BY ProbesFinite, FS_EmptySet, CircuitAssumption
     DEF TypeOK, ProbesAreCounted, NoProbeOutside
<1>2. ASSUME NEW r \in Requests, Send(r)
      PROVE  Cardinality(InFlight("probe")') <= inFlight'
  <2>1. ~AllowClosed
    BY DEF AllowClosed, circuit
  <2>2. request[r] = "none" /\ request' = [request EXCEPT ![r] = "probe"]
    BY <1>2, <2>1 DEF Send
  <2>3. Cardinality(InFlight("probe")') = n + 1
    BY <2>2, OneMoreProbe
  <2>4. CASE AllowCooled
    BY <1>1, <2>3, <2>4 DEF AllowCooled, Count
  <2>5. CASE AllowProbe /\ SamePeriod(0)
    BY <1>1, <2>3, <2>5 DEF AllowProbe, Count, SamePeriod
  <2>6. QED BY <1>2, <2>1, <2>4, <2>5 DEF Send
<1>3. ASSUME NEW r \in Requests, Refused(r)
      PROVE  Cardinality(InFlight("probe")') <= inFlight'
  <2>1. InFlight("probe")' = InFlight("probe")
    BY <1>3 DEF Refused, InFlight
  <2>2. CASE AllowCooled
    BY <1>1, <2>1, <2>2 DEF AllowCooled, Count
  <2>3. CASE AllowProbe /\ SamePeriod(1)
    BY <1>1, <2>1, <2>3 DEF AllowProbe, Count, SamePeriod
  <2>4. QED BY <1>3, <2>2, <2>3 DEF Refused
\* A verdict that leaves the period open and is no late one is a probe's.
<1>4. ASSUME NEW r \in Requests, Succeed(r)
      PROVE  Cardinality(InFlight("probe")') <= inFlight'
  <2>1. state = "half_open" /\ inFlight' = OneLess
    BY <1>4 DEF Succeed, RecordSuccess
  <2>2. ~late /\ request[r] = "probe"
    BY <1>4, <2>1 DEF Succeed, Noted
  <2>3. Ended(r, FALSE)
    BY <1>4, <2>1 DEF Succeed, PeriodEnds
  <2>4. Cardinality(InFlight("probe")') = n - 1
    BY <2>2, <2>3, OneLessProbe
  <2>5. QED BY <1>1, <2>1, <2>2, <2>4 DEF OneLess
<1>5. ASSUME NEW r \in Requests, Fail(r) PROVE FALSE
  BY <1>5 DEF Fail, RecordFailure, TypeOK
<1>6. ASSUME NEW r \in Requests, Abandon(r)
      PROVE  Cardinality(InFlight("probe")') <= inFlight'
  <2>1. /\ state = "half_open" /\ ~late /\ inFlight' = inFlight
        /\ Ended(r, FALSE)
    BY <1>6 DEF Abandon, circuit
  <2>2. Cardinality(InFlight("probe")') = IF request[r] = "probe" THEN n - 1 ELSE n
    BY <2>1, OneLessProbe
  <2>3. QED BY <1>1, <2>1, <2>2
<1>7. CASE CooldownOver \/ Outage \/ Recovery \/ UNCHANGED vars
  <2>1. UNCHANGED <<state, inFlight, request, late>>
    BY <1>7 DEF CooldownOver, Outage, Recovery, vars, circuit, period
  <2>2. InFlight("probe")' = InFlight("probe")
    BY <2>1 DEF InFlight
  <2>3. QED BY <1>1, <2>1, <2>2
<1>8. QED BY <1>2, <1>3, <1>4, <1>5, <1>6, <1>7 DEF Next

\* While no late verdict has been taken for a probe's, a half-open circuit has
\* no more probes with the upstream than half_open_probes.
THEOREM ProbesAreLimited == Spec => []ProbeLimit
<1>1. Init => NoProbeOutside /\ ProbesAreCounted
  BY DEF Init, NoProbeOutside, ProbesAreCounted, InFlight
<1>2. ASSUME CircuitInv, CircuitInv', NoProbeOutside, ProbesAreCounted,
             [Next]_vars
      PROVE  NoProbeOutside' /\ ProbesAreCounted'
  BY <1>2, NoProbeOutsideStep, ProbesAreCountedStep DEF CircuitInv
<1>3. CircuitInv /\ ProbesAreCounted => ProbeLimit
  <2> SUFFICES ASSUME CircuitInv, ProbesAreCounted, state = "half_open", ~late
               PROVE  Cardinality(InFlight("probe")) <= Probes
    BY DEF ProbeLimit
  <2>1. /\ inFlight \in Nat /\ inFlight <= Probes /\ Probes \in Nat
        /\ Cardinality(InFlight("probe")) <= inFlight
    BY CircuitAssumption DEF CircuitInv, TypeOK, ProbesAreCounted
  <2>2. QED BY <2>1, ProbesFinite
<1>4. QED BY <1>1, <1>2, <1>3, CircuitInvHolds, PTL DEF Spec
=============================================================================
