--------------------------- MODULE DeliveryIntents ---------------------------
(***************************************************************************)
(* The delivery of what the steward of one space has published             *)
(* (services/steward_delivery.py, with the collection of intents in        *)
(* services/steward_gc.py).                                                *)
(*                                                                         *)
(* A core job plans a manifest of intents and publishes it with its        *)
(* generation.  Drainers (the job's own thread and the maintenance loop)   *)
(* claim intents one by one, prepare outside a transaction and settle      *)
(* effect and receipt in one.  An effect is recognised by its fingerprint, *)
(* which generations made from the same inputs share, and so is its retry  *)
(* budget.  The terms a viewer is shown are delivered in a chain of        *)
(* targets, a refresh and a receipt; its own writes change the inputs      *)
(* every generation is validated against.                                  *)
(***************************************************************************)
EXTENDS Naturals, FiniteSets, FiniteSetsExt

CONSTANTS
    MaxClaims,      \* processes that drain, each at one claim
    MaxGens,        \* bound: generations published
    MaxEvents,      \* bound: changes by users, nights, faults, and retries granted
    Attempts        \* values of STEWARD_STAGE_MAX_ATTEMPTS to try

ASSUME DeliveryAssumption ==
    /\ {MaxClaims, MaxGens} \cup Attempts \subseteq Nat \ {0}
    /\ IsFiniteSet(Attempts)
    /\ MaxEvents \in Nat

Gens == 1..MaxGens
\* Each kind stands for those alike: a finding also for suggestions, reviews of
\* cards and edges, recommendations and candidates.
Term == {"target", "refresh", "complete"}
Kinds == Term \cup {"finding", "assist"}
\* The order in which a manifest is written, and so of the ids.
Rank == [finding |-> 1, target |-> 2, refresh |-> 3, complete |-> 4, assist |-> 5]
Intents == Gens \X Kinds
None == <<>>

VARIABLES
    input,      \* versions the core computes from: of the facts, of everything
                \* that is displayed, and the day until whose end they count
    wanted,     \* the term a viewer should be shown, numbered by the change that
    projected,  \* made it; and the one the term projection holds
    due,        \* events or demands the core has not taken up
    plan,       \* what the leased job will publish
    made,       \* generations published; the last is the current publication
    versions,   \* the input a generation was made from
    view,       \* the term its view shows
    occurrence, \* the generation in which its finding occurred first, 0 for none
    chain,      \* the input its terminology writes have left, and whether it
                \* was ever found changed by another
    receipt,    \* the input its complete intent has certified
    status,     \* of an intent; "none" is no row
    leased,     \* intents with a lease that lives
    attempt,    \* claims of an intent
    changed,    \* generations whose target has changed a term
    used, most, \* budget of an effect, kept with the first intent that has it
    cooling,    \* effects within their retry cooldown
    work,       \* claims drainers are at: the intent, its attempt, the input that
                \* was prepared from
    told,       \* how often members were told of a finding's occurrence
    events      \* changes, faults and grants so far, for the bound

world == <<input, wanted, projected, due>>
generation == <<made, versions, view, occurrence>>
terms == <<chain, receipt, changed>>
intent == <<status, leased, attempt>>
budget == <<used, most, cooling>>
vars == <<world, plan, generation, terms, intent, budget, work, told,
          events>>

Input == [structural : 0..MaxEvents, presentation : 0..(MaxEvents + MaxGens),
          day : 0..MaxEvents]
First == [structural |-> 0, presentation |-> 0, day |-> 0]

Init ==
    /\ input = First
    /\ wanted = 1 /\ projected = 0
    /\ due = TRUE
    /\ plan = None
    /\ made = 0
    /\ versions = [g \in Gens |-> First]
    /\ view = [g \in Gens |-> 0]
    /\ occurrence = [g \in Gens |-> 0]
    /\ chain = [g \in Gens |-> [next |-> First, drift |-> FALSE]]
    /\ receipt = [g \in Gens |-> None]
    /\ status = [i \in Intents |-> "none"]
    /\ leased = {}
    /\ attempt = [i \in Intents |-> 0]
    /\ changed = {}
    /\ used = [i \in Intents |-> 0]
    /\ \E n \in Attempts : most = [i \in Intents |-> n]
    /\ cooling = {}
    /\ work = {}
    /\ told = [g \in Gens |-> 0]
    /\ events = 0

Event == events < MaxEvents /\ events' = events + 1

Of(g, kinds) == {g} \X kinds
InStatus(set) == {i \in Intents : status[i] \in set}
Some(g, kinds, set) == \E k \in kinds : status[<<g, k>>] \in set

\* core_versions: what versions_match compares.
Core(v) == <<v.structural, v.presentation>>

\* valid_generation, and valid_delivery_generation for terminology, which goes on
\* across its own writes but only for the current publication.
Valid(i) ==
    LET v == versions[i[1]]
    IN  /\ v.day = input.day
        /\ IF i[2] \in Term
           THEN i[1] = made /\ v.structural = input.structural
           ELSE Core(v) = Core(input)

\* Same effect_fingerprint: kind, key, payload, inputs and valid_until.
Same(i, j) ==
    /\ i[2] = j[2] /\ versions[i[1]] = versions[j[1]]
    /\ i[2] = "finding" => occurrence[i[1]] = occurrence[j[1]]
    /\ {status[i], status[j]} \cap {"none"} = {}

\* The row of the budget of an intent's effect.
Budget(i) == <<Min({g \in Gens : Same(<<g, i[2]>>, i)}), i[2]>>

\* _replacement: a later intent owns the effect.
Replaced(i) == \E g \in Gens :
    /\ i[1] < g /\ Same(i, <<g, i[2]>>)
    /\ status[<<g, i[2]>>] \in {"pending", "failed", "done"}

-----------------------------------------------------------------------------
(* The core: planning and publishing a generation.                         *)

\* terminology_blocks_core: the current publication's own writes have changed the
\* presentation and its chain is not finished.
Blocks ==
    /\ made > 0
    /\ LET v == versions[made]
       IN  /\ v.day = input.day /\ v.structural = input.structural
           /\ v.presentation # input.presentation
    /\ made \in changed /\ status[<<made, "target">>] = "done"
    /\ Some(made, Term, {"pending"})

\* _terminology_already_delivered: the prior generation's receipt certifies the
\* inputs of now, and nothing of its chain is open.
AlreadyDelivered ==
    /\ made > 0 /\ Valid(<<made, "complete">>)
    /\ receipt[made] # None /\ receipt[made] = Core(input)
    /\ ~Some(made, Term, {"pending", "failed", "superseded"})

TargetDone ==
    /\ made > 0 /\ Valid(<<made, "finding">>)
    /\ status[<<made, "target">>] = "done"

\* Members have a finding while the structure is one with a problem.
Problem == input.structural % 2 = 0

\* lease_next_steward_job takes up every event there is; prepare_intents plans for
\* the inputs the job has begun with.
Plan ==
    /\ plan = None /\ due /\ made < MaxGens
    /\ ~Blocks
    /\ due' = FALSE
    /\ plan' =
         [versions |-> input, view |-> projected,
          kinds |-> {"complete", "assist"}
                    \cup (IF Problem THEN {"finding"} ELSE {})
                    \cup (IF AlreadyDelivered \/ TargetDone THEN {}
                          ELSE {"target", "refresh"}),
          occurrence |-> IF ~Problem THEN 0
                         ELSE IF made > 0 /\ occurrence[made] > 0
                         THEN occurrence[made] ELSE made + 1]
    /\ UNCHANGED <<input, wanted, projected, generation, terms, intent, budget,
                   work, told, events>>

\* publish, fenced by require_generation; or SnapshotChanged, and the job is
\* queued again.
Publish ==
    /\ plan # None
    /\ plan' = None
    /\ IF Core(plan.versions) = Core(input) /\ plan.versions.day = input.day
       THEN LET g == made + 1
            IN  /\ made' = g
                /\ versions' = [versions EXCEPT ![g] = plan.versions]
                /\ view' = [view EXCEPT ![g] = plan.view]
                /\ occurrence' = [occurrence EXCEPT ![g] = plan.occurrence]
                /\ chain' = [chain EXCEPT ![g].next = plan.versions]
                /\ status' = [i \in Intents |-> IF i \in Of(g, plan.kinds)
                                                THEN "pending" ELSE status[i]]
                /\ UNCHANGED due
       ELSE /\ due' = TRUE
            /\ UNCHANGED <<generation, chain, status>>
    /\ UNCHANGED <<input, wanted, projected, receipt, changed, leased, attempt,
                   budget, work, told, events>>

-----------------------------------------------------------------------------
(* Claims.                                                                 *)

\* Mutant of Ready: an assist intent does not wait for the chain.
ReadyAnyway(i) ==
    LET g == i[1]
    IN  /\ i[2] = "refresh" => ~Some(g, {"target"}, {"pending"})
        /\ i[2] = "complete" => ~Some(g, {"target", "refresh"}, {"pending"})

\* _prerequisites_ready.
Ready(i) ==
    LET g == i[1]
    IN  /\ i[2] = "refresh" => ~Some(g, {"target"}, {"pending"})
        /\ i[2] = "complete" => /\ ~Some(g, {"target", "refresh"}, {"pending"})
                                /\ ~Some(g, {"refresh"}, {"failed"})
        /\ i[2] = "assist" => /\ ~Some(g, Term, {"pending"})
                              /\ ~Some(g, {"refresh", "complete"}, {"failed"})

\* Mutant of Responsible: the lease of another generation's intent is not seen.
ResponsibleAlone(i) == FALSE

\* Another intent with the same effect is in flight.
Responsible(i) == \E j \in leased \ {i} : Same(i, j) /\ status[j] = "pending"

\* Mutant of Exhausted: one claim too many.
ExhaustedLate(i) == used[Budget(i)] > most[Budget(i)]

Exhausted(i) == used[Budget(i)] >= most[Budget(i)]

\* What _claim_due would only defer; the time of the deferral ends with the
\* other's lease or with the cooldown.
Deferred(i) == Valid(i) /\ (Responsible(i)
                            \/ (~Exhausted(i) /\ Budget(i) \in cooling))

Due == {i \in InStatus({"pending"}) \ leased : Ready(i) /\ ~Deferred(i)}

Before(i, j) == i[1] < j[1] \/ (i[1] = j[1] /\ Rank[i[2]] < Rank[j[2]])

\* The oldest due intent.  The job's own drainer looks at its generation alone;
\* it is modelled as one that looks at all.
Heads ==
    LET all == Due
    IN  {i \in all : \A j \in all \ {i} : Before(i, j)}

\* What it was made from has changed.
Supersede(i) ==
    /\ ~Valid(i)
    /\ status' = [status EXCEPT ![i] = "superseded"]
    /\ UNCHANGED <<leased, attempt, used, work>>

\* A scan or a new generation does not renew the budget.
GiveUp(i) ==
    /\ Valid(i) /\ Exhausted(i)
    /\ status' = [status EXCEPT ![i] = "failed"]
    /\ UNCHANGED <<leased, attempt, used, work>>

Take(i) ==
    /\ Cardinality(work) < MaxClaims
    /\ Valid(i) /\ ~Exhausted(i)
    /\ used' = [used EXCEPT ![Budget(i)] = @ + 1]
    /\ attempt' = [attempt EXCEPT ![i] = @ + 1]
    /\ leased' = leased \cup {i}
    /\ work' = work \cup {[on |-> i, nr |-> attempt[i] + 1, from |-> None]}
    /\ UNCHANGED status

\* _claim_due.
ClaimDue ==
    /\ \E i \in Heads : Supersede(i) \/ GiveUp(i) \/ Take(i)
    /\ UNCHANGED <<world, plan, generation, terms, most, cooling, told,
                   events>>

-----------------------------------------------------------------------------
(* Preparation and settlement.                                             *)

\* _matches_claim: the owner, which is the attempt's, and a lease that lives.
Matches(c) == status[c.on] = "pending" /\ attempt[c.on] = c.nr /\ c.on \in leased

Finish(c) == work' = work \ {c}

\* _release_success.
Release(i) ==
    /\ used' = [used EXCEPT ![Budget(i)] = IF @ = 0 THEN 0 ELSE @ - 1]
    /\ cooling' = cooling \ {Budget(i)}
    /\ leased' = leased \ {i}
    /\ UNCHANGED <<most, attempt>>

\* prepare_delivery_item, outside of any transaction.
Prepare(c) ==
    /\ c.on[2] = "target" /\ c.from = None
    /\ Valid(c.on)
    /\ work' = (work \ {c}) \cup {[c EXCEPT !.from = input]}
    /\ UNCHANGED <<world, plan, generation, terms, intent, budget, told,
                   events>>

Prepared(c) == c.on[2] = "target" => c.from # None
Snapshot(c) == c.on[2] = "target" => c.from = input

\* The claim was lost: nothing is settled.
Lose(c) ==
    /\ ~Matches(c)
    /\ Finish(c)
    /\ UNCHANGED <<world, plan, generation, terms, intent, budget, told,
                   events>>

\* The source is gone, a prerequisite has been reopened, or the snapshot a target
\* was prepared from has changed.
PutBack(c) ==
    /\ Matches(c)
    /\ LET i == c.on
       IN  /\ ~Valid(i) \/ ~Ready(i) \/ (Prepared(c) /\ ~Snapshot(c))
           /\ status' = [status EXCEPT ![i] = IF Valid(i) THEN @ ELSE "superseded"]
           /\ Release(i)
    /\ Finish(c)
    /\ UNCHANGED <<world, plan, generation, terms, told, events>>

\* Mutant of Known: receipts of findings are not looked at.
KnownNever(g) == FALSE

\* StewardFindingDelivery.
Known(g) == told[occurrence[g]] > 0

\* Mutant of Rearm: barriers that are done stay done.
RearmNothing(g) == {}

\* What has to be done again once a target has changed a term.
Rearm(g) == {j \in Of(g, {"refresh", "complete"}) : status[j] = "done"}

\* _record_terminology_progress.
Progress(g, after) ==
    chain' = [chain EXCEPT ![g] =
                [next |-> after,
                 drift |-> @.drift \/ Core(@.next) # Core(input)]]

Done(i) == status' = [status EXCEPT ![i] = "done"]

ApplyFinding(g) ==
    /\ told' = IF Known(g) THEN told ELSE [told EXCEPT ![occurrence[g]] = @ + 1]
    /\ Done(<<g, "finding">>)
    /\ UNCHANGED <<world, terms>>

\* A term that differs is written, which changes what is displayed.
ApplyTarget(g) ==
    LET differs == projected # wanted
        after == IF differs THEN [input EXCEPT !.presentation = @ + 1] ELSE input
    IN  /\ projected' = wanted
        /\ input' = after
        /\ Progress(g, after)
        /\ changed' = IF differs THEN changed \cup {g} ELSE changed \ {g}
        /\ status' = [j \in Intents |->
                        IF j = <<g, "target">> THEN "done"
                        ELSE IF differs /\ j \in Rearm(g) THEN "pending"
                        ELSE status[j]]
        /\ UNCHANGED <<wanted, due, receipt, told>>

\* request_projection_refresh: the event that asks for the core's successor.
ApplyRefresh(g) ==
    /\ due' = (due \/ (g \in changed /\ status[<<g, "target">>] = "done"))
    /\ Done(<<g, "refresh">>)
    /\ UNCHANGED <<input, wanted, projected, terms, told>>

\* The receipt certifies the final inputs if only the chain itself wrote.
ApplyComplete(g) ==
    /\ Progress(g, input)
    /\ receipt' = [receipt EXCEPT ![g] = IF chain'[g].drift THEN None
                                         ELSE Core(input)]
    /\ Done(<<g, "complete">>)
    /\ UNCHANGED <<world, changed, told>>

\* plan_for_job; see StewardAssist.
ApplyAssist(g) == Done(<<g, "assist">>) /\ UNCHANGED <<world, terms, told>>

\* Effect and receipt, in one transaction.
Settle(c) ==
    /\ Matches(c) /\ Prepared(c) /\ Snapshot(c)
    /\ LET i == c.on
           g == i[1]
       IN  /\ Valid(i) /\ Ready(i)
           /\ CASE i[2] = "finding" -> ApplyFinding(g)
                [] i[2] = "target" -> ApplyTarget(g)
                [] i[2] = "refresh" -> ApplyRefresh(g)
                [] i[2] = "complete" -> ApplyComplete(g)
                [] i[2] = "assist" -> ApplyAssist(g)
           /\ Release(i)
    /\ Finish(c)
    /\ UNCHANGED <<plan, generation, events>>

\* _record_failure, after the transaction was rolled back or the preparation
\* has failed.
Fail(c) ==
    /\ Event
    /\ Matches(c)
    /\ LET i == c.on
       IN  IF Valid(i)
           THEN /\ IF Exhausted(i)
                   THEN status' = [status EXCEPT ![i] = "failed"] /\ UNCHANGED cooling
                   ELSE cooling' = cooling \cup {Budget(i)} /\ UNCHANGED status
                /\ leased' = leased \ {i}
                /\ UNCHANGED <<used, most, attempt>>
           ELSE status' = [status EXCEPT ![i] = "superseded"] /\ Release(i)
    /\ Finish(c)
    /\ UNCHANGED <<world, plan, generation, terms, told>>

-----------------------------------------------------------------------------
(* Crashes, time, operators, collection.                                   *)

Crash(c) ==
    /\ Event
    /\ Matches(c)
    /\ Finish(c)
    /\ UNCHANGED <<world, plan, generation, terms, intent, budget, told>>

\* No heartbeat renews a delivery's lease: besides a dead drainer's, that of a
\* slow one may run out.
LeaseEnds(i) ==
    /\ i \in leased
    /\ leased' = leased \ {i}
    /\ IF \E c \in work : c.on = i /\ Matches(c) THEN Event ELSE UNCHANGED events
    /\ UNCHANGED <<world, plan, generation, terms, status, attempt, budget, work,
                   told>>

CooldownEnds(i) ==
    /\ i \in cooling
    /\ cooling' = cooling \ {i}
    /\ UNCHANGED <<world, plan, generation, terms, intent, used, most, work,
                   told, events>>

Retryable(i) == status[i] = "failed" /\ Valid(i) /\ ~Replaced(i)

\* retry_intent; a request carries the attempt its sender has seen, and may be
\* repeated.
RetryIntent(i) ==
    /\ Event
    /\ Retryable(i)
    /\ most' = [most EXCEPT ![Budget(i)] = used[Budget(i)] + 1]
    /\ cooling' = cooling \ {Budget(i)}
    /\ status' = [status EXCEPT ![i] = "pending"]
    /\ leased' = leased \ {i}
    /\ UNCHANGED <<world, plan, generation, terms, attempt, used, work, told>>

\* _is_obsolete: the source is gone, or the effect has a later owner.
Obsolete(i) ==
    /\ status[i] \in {"pending", "failed"} /\ i \notin leased
    /\ ~Valid(i) \/ Replaced(i)

\* A batch of obsolete intents is retired by the garbage collector.
Collect ==
    LET obsolete == {i \in Intents : Obsolete(i)}
    IN  /\ obsolete # {}
        /\ status' = [i \in Intents |-> IF i \in obsolete THEN "superseded"
                                        ELSE status[i]]
    /\ UNCHANGED <<world, plan, generation, terms, leased, attempt, budget, work,
                   told, events>>

Change(next) ==
    /\ Event
    /\ input' = next
    /\ UNCHANGED <<projected, plan, generation, terms, intent, budget, work, told>>

\* Facts or membership change, a member prefers another term, a member opens a
\* view of the same inputs again, or the day ends and with it what is valid.
FactsChange == /\ Change([input EXCEPT !.structural = @ + 1])
               /\ wanted' = wanted + 1 /\ due' = TRUE
TermChanges == /\ Change([input EXCEPT !.presentation = @ + 1])
               /\ wanted' = wanted + 1 /\ due' = TRUE
Ask == Change(input) /\ ~due /\ due' = TRUE /\ UNCHANGED wanted
Midnight == Change([input EXCEPT !.day = @ + 1]) /\ UNCHANGED <<wanted, due>>

Drain(c) == Prepare(c) \/ Lose(c) \/ PutBack(c) \/ Settle(c)

Next ==
    \/ Plan \/ Publish
    \/ ClaimDue
    \/ \E c \in work : Drain(c) \/ Fail(c) \/ Crash(c)
    \/ \E i \in Intents : LeaseEnds(i) \/ CooldownEnds(i) \/ RetryIntent(i)
    \/ Collect
    \/ FactsChange \/ TermChanges \/ Ask \/ Midnight

Spec == Init /\ [][Next]_vars

\* The core and the maintenance loop go on, and so does time.
Fairness ==
    /\ WF_vars(Plan) /\ WF_vars(Publish)
    /\ WF_vars(ClaimDue)
    /\ WF_vars(\E c \in work : Drain(c))
    /\ WF_vars(\E i \in Intents : LeaseEnds(i) \/ CooldownEnds(i))

FairSpec == Spec /\ Fairness

-----------------------------------------------------------------------------
TypeOK ==
    /\ input \in Input
    /\ wanted \in 1..(MaxEvents + 1) /\ projected \in 0..(MaxEvents + 1)
    /\ due \in BOOLEAN
    /\ made \in 0..MaxGens
    /\ versions \in [Gens -> Input]
    /\ view \in [Gens -> 0..(MaxEvents + 1)]
    /\ occurrence \in [Gens -> 0..MaxGens]
    /\ status \in [Intents -> {"none", "pending", "done", "failed", "superseded"}]
    /\ leased \subseteq Intents
    /\ changed \subseteq Gens
    /\ \A i \in Intents : used[i] \in 0..most[i]
    /\ \A i \in Intents : most[i] \in 1..(Max(Attempts) + MaxEvents)
    /\ cooling \subseteq Intents
    /\ told \in [Gens -> Nat]
    /\ events \in 0..MaxEvents

\* Members are told of an occurrence of a finding once, however many generations
\* carry it and drainers die.
EffectOnce == \A g \in Gens : told[g] <= 1

\* One drainer at a time is responsible for an effect, across generations
\* (_claim_due: "Keep one active responsibility for that effect").
OneResponsible ==
    \A i, j \in InStatus({"pending"}) :
        i # j /\ Same(i, j) => ~({i, j} \subseteq leased)

\* When the model calls are registered the chain of terms has ended without a
\* failed barrier, and every change of a term has asked for a new view.
OrderKept ==
    [][\A g \in Gens : status[<<g, "assist">>] # "done"
                       /\ status'[<<g, "assist">>] = "done"
         => /\ ~Some(g, Term, {"pending"})
            /\ ~Some(g, {"refresh", "complete"}, {"failed"})]_vars

\* Nothing published is left behind: in the end every intent is settled or stands
\* behind a failed barrier, the finding of now has been told, and the view of now
\* shows the projected term, unless a delivery of the publication has failed.
NothingLost ==
    LET failed == made > 0 /\ Some(made, Kinds, {"failed"})
        bound == due /\ made = MaxGens
        stale == made = 0 \/ versions[made].day # input.day
        settled == \A i \in InStatus({"pending"}) :
                       Some(i[1], {"refresh", "complete"}, {"failed"})
        current == /\ Problem => occurrence[made] > 0 /\ told[occurrence[made]] = 1
                   /\ view[made] = projected /\ projected = wanted
    IN  <>[](settled /\ (failed \/ bound \/ stale \/ current))
=============================================================================
