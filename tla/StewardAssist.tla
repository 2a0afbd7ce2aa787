---------------------------- MODULE StewardAssist ----------------------------
(***************************************************************************)
(* The model calls of the steward in one space (services/steward_assist.py *)
(* with the steward endpoints of api/internal_agent.py).                   *)
(*                                                                         *)
(* When a job has succeeded, a plan reserves one attempt for each subject  *)
(* it has calls for.  A sidecar leases an attempt and opens a run for it   *)
(* in a second transaction, keeps both alive by heartbeats, and settles    *)
(* both in one transaction; the product of a successful call is applied in *)
(* a further one.  The maintenance loop picks up what a dead process left  *)
(* between two of these transactions.  Meanwhile the inputs of a plan may  *)
(* change: it is fenced by the snapshot it was made from.                  *)
(***************************************************************************)
EXTENDS Naturals, FiniteSets, FiniteSetsExt

CONSTANTS
    Cards,      \* subjects of explanations by id, one attempt for each card
    Groups,     \* subjects of terminology, one attempt for each viewer's group
    Works,      \* bound: the sets of subjects jobs may find work for
    MaxCalls,   \* bound: calls plans may reserve, and changes of their inputs
    Quotas,     \* values of STEWARD_ASSIST_MAX_MODEL_CALLS_PER_JOB to try
    Limit,      \* STEWARD_ASSIST_MAX_CONCURRENT_CALLS_PER_SPACE
    Ttl         \* ticks of STEWARD_ASSIST_CALL_LEASE_SECONDS

ASSUME AssistAssumption ==
    /\ Cards \subseteq Nat /\ IsFiniteSet(Cards)
    /\ IsFiniteSet(Groups) /\ Cards \cap Groups = {}
    /\ Works \subseteq SUBSET (Cards \cup Groups)
    /\ {MaxCalls, Limit, Ttl} \subseteq Nat \ {0}
    /\ Quotas \subseteq Nat \ {0}

Kinds == {"explanation", "terminology"}
Subjects == Cards \cup Groups
KindOf(s) == IF s \in Cards THEN "explanation" ELSE "terminology"
Of(k) == IF k = "explanation" THEN Cards ELSE Groups
Plans == 1..MaxCalls
Attempts == Plans \X Subjects

VARIABLES
    quota,      \* calls a job may reserve
    registered, \* the space's counter exists; else live leases are counted
    planned,    \* plans made so far
    input,      \* version of what the calls of a kind are made from; it may
                \* return to an earlier one
    snapshot,   \* the versions a plan is fenced with
    over,       \* plans whose wall clock ran out with attempts still reserved;
                \* it is longer than a lease
    fresh,      \* plans made since the last tick, within the retry cooldown
    first,      \* the kind the space's rotation starts with
    status,     \* of each attempt: "none" is no row; "exhausted" is a row skipped
                \* for want of budget, never reserved; "transient" a failure that
                \* may be repeated
    lease,      \* ticks left of an attempt's lease, which is also its run's
    run,        \* the run of an attempt
    gate,       \* whether the attempt took a slot of the counter, and returned it
    active,     \* the space's counter
    worker,     \* the process at work on an attempt
    applied,    \* how often the outcome of an attempt was written back
    shown,      \* plan whose text a card shows, 0 for none
    changes     \* changes of inputs, for the bound

config == <<quota, registered>>
plan == <<planned, snapshot, first>>
slots == <<gate, active>>
product == <<applied, shown>>
vars == <<config, plan, input, over, fresh, status, lease, run, slots,
          worker, product, changes>>

Init ==
    /\ quota \in Quotas /\ registered \in BOOLEAN
    /\ planned = 0
    /\ input = [k \in Kinds |-> 0]
    /\ snapshot = [p \in Plans |-> [k \in Kinds |-> 0]]
    /\ over = {}
    /\ fresh = {}
    /\ first = "explanation"
    /\ status = [a \in Attempts |-> "none"]
    /\ lease = [a \in Attempts |-> 0]
    /\ run = [a \in Attempts |-> "none"]
    /\ gate = [a \in Attempts |-> "none"]
    /\ active = 0
    /\ worker = [a \in Attempts |-> "none"]
    /\ applied = [a \in Attempts |-> 0]
    /\ shown = [c \in Cards |-> 0]
    /\ changes = 0

InStatus(set) == {a \in Attempts : status[a] \in set}

\* The inputs an attempt was planned from are those of now.
FencePasses(a) ==
    LET k == KindOf(a[2]) IN snapshot[a[1]][k] = input[k]

-----------------------------------------------------------------------------
(* Planning.                                                               *)

Succeeded(c) == {p \in Plans : status[<<p, c>>] = "succeeded"}

\* The card shows the product of its newest successful call.
Trusted(c) == Succeeded(c) # {} /\ shown[c] = Max(Succeeded(c))

\* Attempts for the group's present input.
Earlier(g) == {p \in 1..planned : snapshot[p]["terminology"] = input["terminology"]}
EarlierWith(g, set) == {p \in Earlier(g) : status[<<p, g>>] \in set}

\* Mutant of Retryable: an answer that may still come, or may have come, does not
\* forbid another call.
RetryableUnlessAnswered(g) ==
    LET again == EarlierWith(g, {"transient", "skipped"})
    IN  /\ EarlierWith(g, {"succeeded", "degraded", "failed"}) = {}
        /\ Cardinality(again) < 2
        /\ again \cap fresh = {}

\* A target is asked for again only after failures that are known not to be
\* answers, twice in all and not within the cooldown.
Retryable(g) ==
    LET again == EarlierWith(g, {"transient", "skipped"})
    IN  /\ EarlierWith(g, {"reserved", "in_flight", "unknown",
                           "succeeded", "degraded", "failed"}) = {}
        /\ Cardinality(again) < 2
        /\ again \cap fresh = {}

\* The cards that are pending and the groups that are collected differ from job
\* to job.
Eligible(work) == {c \in work \cap Cards : ~Trusted(c)}
                  \cup {g \in work \cap Groups : Retryable(g)}

\* The kinds that come before k in this plan's rotation.
Before(k) == IF k = first THEN {} ELSE {first}

\* Mutant of Shares: no pass that guarantees every kind an attempt; the kinds
\* are served in the order of the rotation.
SharesByRotation(R, wanted) ==
    \A k \in Kinds : R \cap Of(k) # {}
        => \A j \in Before(k) : wanted \cap Of(j) \subseteq R

\* Which reservations the two passes over the rotation can make: the first gives
\* each kind one attempt, the second gives the rest away in order; cards go by id.
Shares(R, wanted) ==
    LET some(k) == R \cap Of(k) # {}
        all(k) == wanted \cap Of(k) \subseteq R
    IN  /\ \A k \in Kinds : some(k) => \A j \in Before(k) : some(j) \/ all(j)
        /\ \A k \in Kinds : Cardinality(R \cap Of(k)) > 1
             => /\ \A j \in Kinds : some(j) \/ all(j)
                /\ \A j \in Before(k) : all(j)
        /\ \A c, d \in wanted \cap Cards : c < d /\ d \in R => c \in R

\* Mutant of Rotate: the rotation always starts anew.
RotateNever(R) == UNCHANGED first

\* The rotation goes on behind the first kind that got an attempt.
Rotate(R) ==
    IF R = {} THEN UNCHANGED first
    ELSE LET served == IF R \cap Of(first) # {} THEN first
                       ELSE CHOOSE k \in Kinds : k # first
         IN  first' = CHOOSE k \in Kinds : k # served

\* plan_for_job, called once a job has succeeded by the delivery of its assist
\* intent.  A repeated delivery finds the plan and changes nothing.
PlanForJob ==
    /\ quota * (planned + 1) + changes <= MaxCalls
    /\ planned' = planned + 1
    /\ snapshot' = [snapshot EXCEPT ![planned + 1] = input]
    /\ fresh' = fresh \cup {planned + 1}
    /\ \E work \in Works, R \in SUBSET Subjects :
         LET wanted == Eligible(work)
         IN  /\ R \subseteq wanted /\ wanted # {}
             /\ Cardinality(R) = Min({Cardinality(wanted), quota})
             /\ Shares(R, wanted)
             /\ Rotate(R)
             /\ status' = [a \in Attempts |->
                             IF a[1] # planned + 1 \/ a[2] \notin wanted
                             THEN status[a]
                             ELSE IF a[2] \in R THEN "reserved" ELSE "exhausted"]
    /\ UNCHANGED <<config, input, over, lease, run, slots, worker, product,
                   changes>>

-----------------------------------------------------------------------------
(* Lease, run and heartbeat.                                               *)

Holders == {a \in InStatus({"in_flight"}) : lease[a] > 0}

\* Mutant of MayAcquire: without a counter nothing is counted.
MayAcquireUncounted == registered => active < Limit

MayAcquire ==
    IF registered THEN active < Limit ELSE Cardinality(Holders) < Limit

\* try_acquire and mark_acquired.
Acquire(a) ==
    IF registered
    THEN active' = active + 1 /\ gate' = [gate EXCEPT ![a] = "held"]
    ELSE UNCHANGED slots

Due == InStatus({"reserved"})
Sendable == {a \in Due : FencePasses(a) /\ a[1] \notin over}

\* lease_attempt: the oldest reserved attempt whose fence passes and whose plan
\* has time left; the ones that come before it are retired.
Lease ==
    /\ MayAcquire
    /\ \E a \in Sendable, Passed \in SUBSET (Due \ Sendable) :
         /\ \A b \in Sendable : a[1] <= b[1]
         /\ \A b \in Due \ Sendable : b[1] < a[1] => b \in Passed
         /\ \A b \in Passed : b[1] <= a[1]
         /\ status' = [b \in Attempts |-> IF b = a THEN "in_flight"
                                          ELSE IF b \in Passed THEN "skipped"
                                          ELSE status[b]]
         /\ lease' = [lease EXCEPT ![a] = Ttl]
         /\ Acquire(a)
         /\ worker' = [worker EXCEPT ![a] = "opening"]
    /\ UNCHANGED <<config, plan, input, over, fresh, run, product, changes>>

\* Every candidate is retired, the slot that was taken is given back.
LeaseNothing ==
    /\ MayAcquire
    /\ Due # {} /\ Sendable = {}
    /\ status' = [a \in Attempts |-> IF a \in Due THEN "skipped" ELSE status[a]]
    /\ UNCHANGED <<config, plan, input, over, fresh, lease, run, slots,
                   worker, product, changes>>

\* open_child_run, in a transaction of its own; the attempt may be gone.
OpenRun(a) ==
    /\ worker[a] = "opening"
    /\ IF status[a] = "in_flight"
       THEN /\ run' = [run EXCEPT ![a] = "leased"]
            /\ worker' = [worker EXCEPT ![a] = "executing"]
       ELSE worker' = [worker EXCEPT ![a] = "none"] /\ UNCHANGED run
    /\ UNCHANGED <<config, plan, input, over, fresh, status, lease, slots,
                   product, changes>>

\* Mutant of Fenced: only the run is looked at, not its attempt.
FencedByRun(a) == run[a] = "leased"

\* fence_steward_execution.
Fenced(a) == status[a] = "in_flight" /\ run[a] = "leased" /\ lease[a] > 0

\* heartbeat_child_run renews both leases, whatever is left of the plan's clock.
Heartbeat(a) ==
    /\ worker[a] = "executing" /\ Fenced(a)
    /\ lease' = [lease EXCEPT ![a] = Ttl]
    /\ UNCHANGED <<config, plan, input, over, fresh, status, run, slots,
                   worker, product, changes>>

-----------------------------------------------------------------------------
(* Settlement in two phases.                                               *)

\* Mutant of ReleaseOf: the row's gate is not looked at.
ReleaseOfUngated(set) ==
    /\ gate' = [a \in Attempts |-> IF a \in set /\ gate[a] = "held"
                                   THEN "returned" ELSE gate[a]]
    /\ active' = IF active < Cardinality(set) THEN 0
                 ELSE active - Cardinality(set)

\* release_attempt for each attempt of the set, once for each row.
ReleaseOf(set) ==
    LET holding == {a \in set : gate[a] = "held"}
    IN  /\ gate' = [a \in Attempts |->
                      IF a \in holding THEN "returned" ELSE gate[a]]
        /\ active' = active - Cardinality(holding)

\* Whether a failure may be repeated is asked of terminology alone.
Reports(a) == {"succeeded", "degraded", "failed"}
              \cup IF a[2] \in Groups THEN {"transient"} ELSE {}

\* What record_attempt_outcome makes of a report.
Outcome(a, report) ==
    IF report \in {"failed", "transient"} THEN report
    ELSE IF FencePasses(a) THEN report ELSE "skipped"

\* The handler goes on to the second phase, which has nothing to do for other
\* outcomes.
Record(a, outcome) ==
    /\ status' = [status EXCEPT ![a] = outcome]
    /\ worker' = [worker EXCEPT ![a] =
                     IF outcome \in {"succeeded", "degraded"} THEN "applying"
                     ELSE "none"]

\* The run's end and the attempt's outcome, in one transaction.  The lease of an
\* attempt that has ended is not read again.
Settle(a) ==
    /\ worker[a] = "executing" /\ Fenced(a)
    /\ run' = [run EXCEPT ![a] = "ended"]
    /\ lease' = [lease EXCEPT ![a] = 0]
    /\ \E report \in Reports(a) :
         Record(a, Outcome(a, report))
    /\ ReleaseOf({a})
    /\ UNCHANGED <<config, plan, input, over, fresh, product, changes>>

\* The lease runs out between the fence and record_attempt_outcome, which then
\* leaves the attempt to the recovery; the run has ended.
SettleLapsed(a) ==
    /\ worker[a] = "executing" /\ Fenced(a) /\ lease[a] = 1
    /\ run' = [run EXCEPT ![a] = "ended"]
    /\ lease' = [lease EXCEPT ![a] = 0]
    /\ worker' = [worker EXCEPT ![a] = "none"]
    /\ UNCHANGED <<config, plan, input, over, fresh, status, slots, product,
                   changes>>

\* The product of a set of attempts is written back; of several texts for one
\* card that of the latest plan stays.
WriteBack(set) ==
    /\ applied' = [a \in Attempts |->
                     IF a \in set THEN applied[a] + 1 ELSE applied[a]]
    /\ shown' = [c \in Cards |->
                   LET texts == {p \in Plans : <<p, c>> \in set
                                               /\ status[<<p, c>>] = "succeeded"}
                   IN  IF texts = {} THEN shown[c] ELSE Max(texts)]

\* Mutant of Unapplied: applied_at is not looked at.
UnappliedAnyway(a) == status[a] \in {"succeeded", "degraded"}

Unapplied(a) == status[a] \in {"succeeded", "degraded"} /\ applied[a] = 0

\* apply_settled_attempt: the second phase, which does not look at the fence.
Apply(a) ==
    /\ worker[a] = "applying"
    /\ worker' = [worker EXCEPT ![a] = "none"]
    /\ WriteBack({b \in {a} : Unapplied(b)})
    /\ UNCHANGED <<config, plan, input, over, fresh, status, lease, run,
                   slots, changes>>

-----------------------------------------------------------------------------
(* Crashes and recovery.                                                   *)

\* The sidecar or the handler dies, its answer is lost, or it is refused for good
\* because the viewer has left the space.
WorkerGone(a) ==
    /\ worker[a] # "none"
    /\ worker' = [worker EXCEPT ![a] = "none"]
    /\ UNCHANGED <<config, plan, input, over, fresh, status, lease, run,
                   slots, product, changes>>

\* Mutant of Stuck: a product that was not applied is forgotten.
StuckNever(a) == FALSE

\* Persisted, but not applied; a degraded attempt has no output_json.
Stuck(a) == status[a] = "succeeded" /\ Unapplied(a)

\* Mutant of Lapsed: an attempt without a run is not seen.
LapsedWithRun(a) == status[a] = "in_flight" /\ lease[a] = 0 /\ run[a] # "none"

\* Sent, perhaps, and never settled.
Lapsed(a) == status[a] = "in_flight" /\ lease[a] = 0

\* recover_stuck_attempts.
RecoverAttempts ==
    LET stuck == {a \in Attempts : Stuck(a)}
        valid == {a \in stuck : FencePasses(a)}
        lapsed == {a \in Attempts : Lapsed(a)}
    IN  /\ stuck \cup lapsed # {}
        /\ status' = [a \in Attempts |-> IF a \in stuck \ valid THEN "skipped"
                                         ELSE IF a \in lapsed THEN "unknown"
                                         ELSE status[a]]
        /\ WriteBack(valid)
        /\ ReleaseOf((stuck \ valid) \cup lapsed)
        /\ UNCHANGED <<config, plan, input, over, fresh, lease, run, worker,
                       changes>>

\* recover_stuck_child_runs.
RecoverRuns ==
    LET stale == {a \in Attempts : run[a] = "leased" /\ lease[a] = 0}
    IN  /\ stale # {}
        /\ run' = [a \in Attempts |-> IF a \in stale THEN "ended" ELSE run[a]]
        /\ UNCHANGED <<config, plan, input, over, fresh, status, lease,
                       slots, worker, product, changes>>

-----------------------------------------------------------------------------
(* The world.                                                              *)

\* Facts, cards, the provider or the policy change, or change back.
InputChanges(k) ==
    /\ planned > 0 /\ quota * planned + changes < MaxCalls
    /\ changes' = changes + 1
    /\ input' = [input EXCEPT ![k] = 1 - @]
    /\ UNCHANGED <<config, plan, over, fresh, status, lease, run, slots,
                   worker, product>>

OneLess(n) == IF n = 0 THEN 0 ELSE n - 1

Tick ==
    /\ \/ fresh # {}
       \/ \E a \in Attempts : status[a] = "reserved" /\ a[1] \notin over
       \/ \E a \in Attempts : lease[a] > 0
    /\ lease' = [a \in Attempts |-> OneLess(lease[a])]
    /\ \E late \in SUBSET {a[1] : a \in InStatus({"reserved"})} :
         over' = over \cup late
    /\ fresh' = {}
    /\ UNCHANGED <<config, plan, input, status, run, slots, worker, product,
                   changes>>

Next ==
    \/ PlanForJob \/ Lease \/ LeaseNothing
    \/ \E a \in Attempts :
         OpenRun(a) \/ Heartbeat(a) \/ Settle(a) \/ SettleLapsed(a) \/ Apply(a)
         \/ WorkerGone(a)
    \/ RecoverAttempts \/ RecoverRuns
    \/ \E k \in Kinds : InputChanges(k)
    \/ Tick

Spec == Init /\ [][Next]_vars

\* The maintenance loop runs its passes at every tick, sidecars poll for work,
\* and time goes on.  A sidecar does not renew a lease for ever: it settles or stops.
Fairness ==
    /\ WF_vars(RecoverAttempts) /\ WF_vars(RecoverRuns)
    /\ WF_vars(Lease \/ LeaseNothing)
    /\ WF_vars(Tick)
    /\ WF_vars(\E a \in Attempts : Settle(a) \/ WorkerGone(a))

FairSpec == Spec /\ Fairness

-----------------------------------------------------------------------------
TypeOK ==
    /\ quota \in Quotas /\ registered \in BOOLEAN
    /\ planned \in 0..MaxCalls
    /\ input \in [Kinds -> 0..1]
    /\ snapshot \in [Plans -> [Kinds -> 0..1]]
    /\ over \subseteq Plans
    /\ fresh \subseteq Plans
    /\ first \in Kinds
    /\ status \in [Attempts -> {"none", "exhausted", "reserved", "in_flight",
                                "succeeded", "degraded", "failed", "transient",
                                "unknown", "skipped"}]
    /\ lease \in [Attempts -> 0..Ttl]
    /\ run \in [Attempts -> {"none", "leased", "ended"}]
    /\ gate \in [Attempts -> {"none", "held", "returned"}]
    /\ active \in 0..Limit
    /\ worker \in [Attempts -> {"none", "opening", "executing", "applying"}]
    /\ applied \in [Attempts -> 0..1]
    /\ shown \in [Cards -> 0..MaxCalls]
    /\ changes \in 0..MaxCalls

\* The counter is the number of calls in flight, whichever of the five ways a
\* call ended (capacity.py: active is exactly the number of slots that are taken);
\* and counted or not, there are no more live calls than the space may have.
SlotsHonest ==
    /\ registered => active = Cardinality(InStatus({"in_flight"}))
    /\ Cardinality(Holders) <= Limit

\* A call that may have reached the model is not made again: of the attempts for
\* one input of a group at most one waits, runs, has an answer or may have one,
\* and no third attempt is reserved (the docstring of recover_stuck_attempts:
\* "never replayed"; terminology_target_retryable).
AskedOnce ==
    \A g \in Groups, v \in 0..1 :
        LET of(set) == {p \in 1..planned : snapshot[p]["terminology"] = v
                                           /\ status[<<p, g>>] \in set}
            open == {"reserved", "in_flight", "unknown", "succeeded",
                     "degraded", "failed"}
        IN  /\ Cardinality(of(open)) <= 1
            /\ Cardinality(of(open \cup {"transient", "skipped"})) <= 2

\* A kind whose subjects all stay without an attempt is the first to get one in
\* the next plan, and with a quota for every kind none stays without.
NoKindStarves ==
    LET starved(p, k) ==
            /\ \E s \in Of(k) : status[<<p, s>>] = "exhausted"
            /\ \A s \in Of(k) : status[<<p, s>>] \in {"none", "exhausted"}
    IN  \A p \in 1..planned, k \in Kinds : starved(p, k) =>
            /\ quota < Cardinality(Kinds)
            /\ p < planned => ~starved(p + 1, k)

\* A late answer changes nothing about an attempt that was given up, and what
\* was given up is never applied.
LateAnswersIgnored ==
    [][\A a \in InStatus({"unknown", "skipped", "failed", "transient"}) :
         status'[a] = status[a] /\ applied'[a] = applied[a]]_vars

\* Calls in flight end, and answers that were paid for are applied or found
\* outdated, whoever dies on the way.
AnswersConverge ==
    []<>(/\ InStatus({"in_flight"}) = {}
         /\ \A a \in InStatus({"succeeded"}) : applied[a] > 0)
=============================================================================
