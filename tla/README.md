# FamilyGraph: models, checks and proofs

TLA+ models of the parts of FamilyGraph whose correctness depends on the order
in which things happen, the TLC configurations that check them, and proofs for
TLAPS. Paths below are relative to `src/backend/app/` unless they start with
`agent/`, `embedding/`, `docs/` or `.trellis/`, which lie directly in `src/`.

## 1. The system

FamilyGraph is a FastAPI backend with one API process (three listeners), a
PostgreSQL database (SQLite for development and tests), a Node sidecar that
executes assistant runs, an embedding service, and two single-page
applications. A family graph of people and relations is seen through spaces; an
*assistant* answers a member's questions and a *steward* keeps derived views of
each space up to date.

| part | state | operations | what is hard |
|---|---|---|---|
| Assistant queue (`services/agent_queue.py`, `agent_execution.py`, `agent_events.py`, `api/internal_agent.py`) | run, job and event rows, a lease per run, the cancel flag | submit, lease, heartbeat, append, settle, cancel, reaper, retention | expired leases whose worker lives on; lost answers and retries; cancellation against settlement |
| Sidecar (`agent/src/worker.ts`, `client.ts`) | slots, one attempt each; produced and confirmed events | poll, stream, heartbeat, settle | crashes, retried requests, slots keyed by run id |
| Capacity counters (`services/capacity.py`) | one row per dimension, a gate per counted row | acquire, release, bootstrap | given back twice or never |
| Execution admission (`services/agent_admission.py`, `execute_tool`) | slots per tenant, waiters, tool semaphore, cluster counter | acquire, release, timer, cancellation | a grant racing a timer; a cancellation between two awaits; starvation |
| Provider circuit (`services/provider_circuit.py`, `provider_proxy.py`) | circuit per provider and kind | allow, record a verdict | late verdicts; probes without a verdict |
| Steward core (`services/steward.py`, `steward_pipeline.py`, `steward_demand.py`, `steward_runtime.py`) | job per space, generations and views, publication, demand rows, schedule | event, scan, request, lease, stage, publish, fail, reap | inputs that change during minutes of work; events and requests that come in meanwhile; crashes |
| Steward delivery (`services/steward_delivery.py`, `steward_gc.py`) | intents, retry budgets | claim, effect, record, retry | a crash between effect and record; the same effect in two generations |
| Steward assist (`services/steward_assist.py`) | plans, model calls, child runs | plan, lease, settle, apply, recover | two-phase application, money spent twice or never billed |
| Suggestions, inferences, overlays | rows written by a delivery or an applied answer | project, supersede | stale evidence |
| Writer epoch (`services/writer_epoch.py`) | epoch row, epoch held by the process | advance, guard | the gap between guard and commit |
| Spaces and membership (`services/space_fsm.py`, `commands/spaces.py`) | member rows, approvals, ownership | invite, approve, leave, revoke, transfer | two deciders; approval of a row that changed |
| Relations and facts (`services/relation_fsm.py`, `source_facts.py`) | edges, facts | propose, confirm, dispute | two pending edges that exclude each other |
| Identity and registration (`services/identity_fsm.py`, `invite_codes.py`, `commands/bindings.py`) | bindings, codes | redeem, bind | a code redeemed twice |
| Memories and their index (`services/memory_rag.py`, `rag_maintenance.py`) | candidates, memories, documents, a maintenance round | confirm, dismiss, supersede, restore, revoke, expire, index, retire | commands that interleave with a long batch |
| Evidence of answers (`services/context_builder.py`, `memory_sources.py`, citations in `agent_events.py`) | one build per attempt, its sources | build, replay, cite, invalidate | sources withdrawn after they were read; a finding lost in a rollback |
| Embedding index (`services/embedding_index.py`) | vectors of chunks | embed, store | vectors of an old text |
| Embedding service (`embedding/app/gate.py`) | slots and a wait queue | acquire, release, deadline | priorities against deadlines |
| Sessions and rate limits (`services/refresh_session.py`, `auth_guard.py`) | refresh chains, windows | rotate, revoke | two rotations of one token |
| Cards, notifications, attachments, controlled web, data rights, platform features, frontends | rows of one request | | no protocol between actors |

The parts meet in four places: the database rows above; the maintenance loop
(`services/maintenance.py:61`), which runs the queue's reaper, the steward's
reaper, scan and launch, delivery, collection and recovery one after the other
for ever; the capacity counters, which queue and steward both take; and domain
events, which commands append in their own transaction and which schedule the
steward. The steward's parts form a chain: a job of `StewardSpace` publishes a
generation with the intents `DeliveryIntents` carries out, whose last kind
registers the model calls of `StewardAssist`, and what these write changes the
inputs of the next job. `PROJECT.json` lists every part with its status, and under `hazards`
what is hard to test in it, at its line, with the properties that cover it.

## 2. The modules

| module | models | extends or uses |
|---|---|---|
| `CapacityCounters` | acquire and release of counter rows, as operators | |
| `RunLifecycle` | the promise about one run, without leases, workers, events | |
| `AgentQueue` | queue, fence, event stream, sidecar, network | `CapacityCounters`; implements `RunLifecycle` |
| `ExecutionAdmission` | limiter, tool semaphore, cluster counter, `execute_tool` | `CapacityCounters` |
| `ProviderCircuit` | one circuit and the requests that pass it | |
| `StewardSpace` | one space: job, generation, publication, demand, coordinators | `CapacityCounters` |
| `DeliveryIntents` | intents of published generations, drainers, budgets, the terminology chain, collection | |
| `StewardAssist` | plans, model calls, child runs, settlement in two phases, recovery | |
| `MemoryEvidence` | memories, their documents, the maintenance batch, contexts and citations | |
| `AgentQueue_proofs`, `ExecutionAdmission_proofs`, `ProviderCircuit_proofs`, `StewardSpace_proofs`, `DeliveryIntents_proofs`, `StewardAssist_proofs`, `MemoryEvidence_proofs` | theorems | their module |
| `FiniteNumbers` | lemmas on least and greatest numbers and on cardinalities | used by the proofs |
| `*MC` | model values and instances for TLC | their module |

### AgentQueue

`run`, `job` and `events` are the three tables; `active` the counters;
`worker` the slots of the sidecars. Every operation of the queue is one
`immediate_tx`, so one action; `request_cancel`, which decides on a status it
read before its transaction, is two (`ReadForCancel`, then `CancelQueued`,
`CancelExecuting` or `CancelRefused`). A lease is the number of `Tick`s it has
left. The network is in the actions of the sidecar: a request whose answer is
lost changes the tables and not the slot, and is sent again. `Fence` is
`fence_execution`. `ReaperPass` treats every stale row in one pass as the code
does. An event carries what its fingerprint tells apart: the attempt and its
place in that attempt's stream.

The account limit exists twice in the code: by counting rows and, once the
counters are bootstrapped, by the counters. `Bootstrapped` chooses.

### ExecutionAdmission

Everything runs on one event loop, so the code between two awaits is one
action. A call's `phase` is where its coroutine is; `pending`, `granted` and
`lapsed` tell apart a future that is open, one that has its result before the
coroutine resumed, and one whose timer or caller fired first. `Release` is the
hand-over to at most one waiter. `lost` is history: what the two known leaks
have left behind, so that the other properties can be stated in spite of them.

### ProviderCircuit

`allow` by the state it finds; a verdict by `Succeed` or `Fail`; `Refused` is
`_admit_upstream_request` raising after `allow` has counted the request;
`Abandon` a caller that goes away. `state = "cooled"` is an open circuit whose
cooldown is over. `sent`, `lost` and `late` are history of the current
half-open period.

### StewardSpace

`job` is the newest job row: the space has at most one active one. `trigger`
is `trigger_cursor`, which events raise even while the job runs; `cursor` the
bound fixed by the lease; `done` the highest cursor of a succeeded job. `gen`
is the newest generation with its views, `cached` what `_reuse_view` may take
over, `publication` what readers see. `version` stands for everything
`steward_snapshot.input_versions` covers, and for `valid_until`. A coordinator
is a `task` that goes through begin, snapshot, create, pick and stage a view,
complete it, prepare and publish, each a transaction of its own behind
`require_binding` or `require_generation`. A task that lost its lease lives on
until a fence refuses it, and the owner name is the same for all of them: only
the attempt tells them apart. `record_failure` runs twice for one error, as in
the code, the second time with a poorer classification.

Abstracted: what views, findings, cards and intents contain; the retry budgets
of single targets (`TargetFails` may happen); the terminology layer, which can
only delay a lease; retry backoff, also a delay; the cooldown of a manual retry
(granted or not); other spaces, whose events only move the watermark. The
steward's own events do not schedule it. `scan_due_spaces` may come whenever
no job is active.

### DeliveryIntents

`status`, `leased` and `attempt` are the columns of `StewardDeliveryIntent`;
`used`, `most` and `cooling` those of `StewardRetryBudget`, kept with the first
intent that has the fingerprint, since `Same` says which intents share it. A
drainer's `work` is the claim it carries from `ClaimDue` through `Prepare`
(outside any transaction) to `Settle`; a claim whose lease was lost is dropped
there (`Lose`). `Plan` merges the lease of a core job with its `prepare_intents`,
and `Publish` is the generation with its manifest. `input` is
`steward_snapshot.input_versions` in three parts, because the core validates
against all of them and the terminology only against the structural one;
triggers raise the presentation whenever the term projection is written, also by
a delivery itself (migrations 0045 and 0048). `Collect` is the part of
`steward_gc.collect` that retires intents.

Abstracted: one finding stands for all deliveries that are told once
(suggestions, reviews of cards, recommendations, candidates); the inferred
overlay is not modelled; leases and cooldowns end by an event instead of a
clock; a drain of one generation is a drain that may stop early.

### StewardAssist

`status`, `lease`, `gate` and `applied` are columns of `StewardModelCall`; `run`
is the child run of an attempt and `worker` where the process that works on it
stands: between lease and opening of the run, executing, or between settlement
and application. `PlanForJob` reserves attempts by `Shares` and the rotation of
the kinds; `Settle` is one transaction for attempt and run, and the application
of its product a second one. `RecoverAttempts` and `RecoverRuns` are the passes
of the maintenance loop, with their parts in the code's order. An input may
return to an earlier value, as a card that is edited back.

Abstracted: two of the four kinds of call, since candidates and rankings go the
way of explanations without the test for a trusted text; the deadline of a plan
is the set `over`, which no heartbeat respects, as in the code; tokens, prompts
and the validation of an answer are its outcome.

### MemoryEvidence

Here transactions are *not* atomic: the database is PostgreSQL under READ
COMMITTED. A command that acts on what it has read is a `...Begin` (reads, locks
what its conditional UPDATE hits) and a `...Commit`; a maintenance batch is a
sequence of actions that ends in `BatchCommit`, and `Written` is what it sees of
itself. A batch checks again what it has indexed (`Validated`), but not whether
the memory is still current, and then computes what to retire from its own
uncommitted writes. `document` has an inactive state that can be brought back
(`index_superseded`) and two that cannot (`Dead`). `Replay` and `Cite` ask for
every source whether it may still be read; `accepted` is whether the request
they are part of commits.

Abstracted: deletion and revocation are both "withdrawn"; what a memory says,
its scope and sensitivity; documents that belong to no memory; the lease of the
maintenance, which is the row lock its UPDATE holds to the end of the
transaction; the vectors, which search filters by the document's state. The
unique index on `source_candidate_id` is not needed, as the claim already
excludes a second memory.

## 3. Runs

| run | instance | what it asks |
|---|---|---|
| `queue` | 1 run, 2 workers, 2 attempts, lease of 2 ticks, 3 events per attempt, fairness | fence, rows, stream, cancellation, refinement of `RunLifecycle`, and that the run ends |
| `double_release` | counters in use, 4 sessions, limit 2 | *violated*: finding 1 |
| `leaked_slot` | counters in use | *violated*: finding 2 |
| `admission` | 5 calls of 2 tenants, 3 + 3 + 1 slots, queue of 3 | accounting, capacity, reserve, no orphaned waiters |
| `admission_leak` | the same | *violated*: finding 3 |
| `circuit` | 3 requests, threshold 2, 2 probes, 3 successes | probes, trial bound, recovery |
| `circuit_leak` | 3 requests, 1 probe, as by default | *violated*: finding 4 |
| `steward` | 1 viewer, 2 coordinators, 1 event, 2 input versions, 2 demand revisions, 2 attempts, 1 fault | what is forgotten, what is published, who settles, convergence |
| `delivery` | 2 generations, 2 claims, 1 or 2 attempts, 2 events | effects once, one responsible drainer, barriers, nothing lost |
| `assist` | up to 3 plans over 2 cards and 1 group, quota 1 or 2, 1 slot, lease of 1 tick | slots, repeated calls, starvation, late answers, convergence |
| `memory` | 2 candidates, 2 requests in flight, 1 build, 2 switches, 1 fault, 1 restoration | decisions, stale evidence, citations, the index settles |
| `memory_restore` | the same | *violated*: finding 5 |

Why these bounds: two workers and two attempts are what one lost lease needs (an
old and a new holder, and the attempt limit met with both); runs of different
sessions meet only in the account's limit, so one run is enough for what
concerns a run. Five calls fill three slots and leave two waiters, so that
tenants can block each other. Two probes with three successes make a half-open
period longer than one round. In `steward` one event, one change of inputs and
one fault can fall anywhere between the transactions of an execution, and the
second revision makes a request that follows a served one; a second viewer adds
only views that go through the same steps. In `delivery` two generations are
what a shared effect and a superseded intent need; `MaxEvents` bounds changes by
members, nights, failures, crashes and granted retries together, so any two of
them meet. In `assist` three plans let an attempt follow one that followed
another, which the limit of two repetitions and the rotation need, and one slot
makes the space's limit bite. In `memory` two memories are a superseded one and
its superseder, two requests a race, and the second switch turns the feature on
again; memories that supersede the same one twice would need a third candidate. `MaxRuns`, `MaxOutput`, `MaxEvent`,
`MaxVersion`, `MaxRevision`, `MaxFaults`, `MaxGens`, `MaxEvents`, `MaxCalls`,
`Works`, `MaxRequests`, `MaxToggles` and `MaxRestores` are bounds of the model;
the other constants are configuration of the program, made small.

`assist`, `delivery`, `memory` and `memory_restore` run without deadlock checking:
when the bounds are used up and everything is settled, nothing is left to do.
No run uses symmetry.

### Fairness

* Maintenance passes (`ReaperPass`, `Reap`, `ScanDue`) and the launch of
  leases: `maintenance.py` loops for ever and a failing pass does not end it.
* Clocks (`Tick`, `LeaseLapses`, `CooldownOver`).
* A worker or coordinator that is alive takes its next step, or one of the
  steps that end its attempt: every request and every transaction has a
  time-out. Crashes, failures and revocations are never required and never
  ruled out; in `StewardSpace` they are bounded by `MaxFaults`, so "every event
  is consumed" means after the last of them.
* `DeliveryIntents`: the maintenance loop drains for ever (`ClaimDue`), a drainer
  that lives takes its next step, leases and cooldowns end. `StewardAssist`: the
  two recovery passes, the sidecars' poll and time; a sidecar settles or stops.
  `MemoryEvidence`: the maintenance starts batches and carries them on, and a
  failed memory's retry comes. Crashes, failures, switches of the feature and
  commands of the author are bounded and never required.
* Nothing makes browsers, callers or viewers act. `Recovers` needs requests to
  keep coming: a circuit nobody asks stays open, and that is assumed by name.

## 4. Properties

Each is stated in words above its definition. The ones that carry the most:

* `OneLiveExecutor`, `OnlyTheLiveAttemptWrites`: leases that expire, are
  requeued and leased again leave one writer.
* `StreamIsWhole`: requests repeated after a lost answer neither double nor skip
  events, the stream is closed exactly when the run ended, and success is never
  without an answer of the attempt that succeeded.
* `ImplementsLifecycle`: the whole queue, seen without leases and workers, is
  the six-step lifecycle of `RunLifecycle`.
* `NobodyWaitsOnAnEmptyPool`, `ReserveKept`: tenants that block each other by
  the reserve cannot do so with all slots free.
* `TrialBounded`, `ProbesAreReal`, `Recovers`: a recovering upstream sees few
  requests, and late verdicts cannot keep the circuit from closing.
* `NothingForgotten`: whatever event or request comes in, at whichever moment of
  an execution, has a job; except after a failure that no change of inputs
  caused, when it waits for the next scan or event (`Unattended`).
* `PublishesTheCurrent`, `SettledInOrder`: what is published was computed, all of
  it, from the inputs of that moment; executions are settled by their holders and
  consume adjoining windows.
* `WorkConverges`, `PublicationCatchesUp`: liveness of the steward through
  failures, crashes, lost leases and changes no event tells of.
* `EffectOnce`, `OneResponsible`, `OrderKept`, `NothingLost`: a member is told of
  an occurrence once although generations repeat it and drainers die; barriers
  hold against retries by hand; and nothing published is left behind, although a
  delivery's own writes change the inputs it is validated against.
* `AskedOnce`, `NoKindStarves`, `SlotsHonest`, `LateAnswersIgnored`,
  `AnswersConverge`: a model call that may have been answered is not paid for
  twice, no kind of call is crowded out, the counter is the number of calls in
  flight whichever of five ways they end, and paid answers are applied.
* `FoundStaleStaysStale`, `WithdrawnIsNotCited`: evidence found stale stays so
  through rollbacks, restorations and switches of the feature; a withdrawn memory
  is never cited, also while a batch is writing its document.
* `DecidedOnce`, `IndexSettles`: a candidate is decided once; the index ends up
  with the current memories and no others, except for documents that are dead.

Each property of a passing run has a mutant in `PROJECT.json`: a plausible
mistake in one definition (a dropped comparison, an off-by-one, a missing
reset) with which TLC finds the property violated.

## 5. Findings

1. `_settle` gives an account's run slot back twice
   (`services/agent_queue.py:472` and `:499`).
2. The reaper ends runs without giving their slot back
   (`services/agent_queue.py:662`).
3. `execute_tool` awaits a second slot outside the `try` that returns the first
   (`api/internal_agent.py:1402`).
4. A request refused after `allow()` keeps its probe for good
   (`services/provider_proxy.py:558`).
5. A maintenance batch retires for good the document of a memory superseded
   while the batch ran, so the superseding cannot be taken back
   (`services/rag_maintenance.py:420`).

Met while modelling, without a run of their own:

* The limiter's fast path passes by its queue, so an older request of a tenant
  can starve until its timer, against the docstring of `_waiter_priority`
  (`agent_admission.py:158`, `:202`); and a waiter that leaves wakes nobody,
  although its leaving may lift the reserve for others (`:185`).
* `ProbeLimit` needs a header time-out below the cooldown, which the defaults
  have and nothing enforces.
* `try_acquire`'s refusal is ignored at `steward.py:563` and the event path
  (`:445`) takes no slot, so the steward's quota is counted, not enforced;
  `settle_steward_job` is not called in production; `launch_due` overwrites the
  registry entry of a job whose older coordinator still runs
  (`steward_runtime.py:138`).
* `apply_settled_attempt` applies an answer without looking at the fence again,
  although its card may have changed since the settlement; only the recovery
  looks (`steward_assist.py:1959`, `:2391`). A heartbeat extends a call's lease
  past the deadline of its plan (`:2286`). A degraded answer is not selected by
  the recovery of applications (`:2385`).
* A failed refresh of the terminology holds the core's jobs until midnight UTC, a
  structural change or a retry by hand (`terminology_blocks_core`).
* Two confirmations that supersede the same memory at the same time both see it
  as current on PostgreSQL, and the second overwrites the pointer of the first
  (`memory_rag.py:540`). `restore_memory` does not look at the superseder, though
  its docstring says so. A superseded memory whose document is still active can
  be cited, since only searches look at `superseded_by_id`. The replay of a
  steward's context always invalidates it, because its build has no account.

## 6. Proofs

Every safety property that a passing run checks is also a theorem: for every
value of the constants that satisfies the named assumption, and with nothing
taken on trust. The theorems are about `Spec`, without fairness, so they hold for
`FairSpec` as well. The inductive invariants were checked by TLC before they
were proved.

The proofs share a plan. Where a component has many actions, one definition says
how a step of the *whole* system may change one part of the state (`Moves`,
`RowMoves`, `GenMoves`, `Moved`); that every action makes such a move is proved
once, by action, and the invariants and action properties follow from the move
and not from the actions. An invariant is cut into parts and each part is a lemma
of its own.

### AgentQueue_proofs (from `QueueAssumption`)

Rows: `TypeCorrect` is inductive by itself, one lemma per group of actions.
`RowsAlwaysAgree` needs only the types. The other invariants of rows rest on
`QueueInv`: types, agreeing rows, `RowsInOrder` (ids are given in order, so a row
beyond `created` does not exist), one active run per session, bounded attempts
and cancellations honoured. `Moves` says that a step moves at most the rows the
abstract lifecycle allows; `EndedStaysEnded` and the refinement
`QueueImplementsLifecycle` follow from it. `AccountLimitHolds` assumes
`~Bootstrapped`: with the counters it is false (finding 1).

Slots and streams: `SlotMoves` and `StreamMoves` do for slots and event streams
what `Moves` does for rows. `StreamInv` adds to `QueueInv` that a slot's token is
of an attempt that was handed out (`TokensKnown`), that no two slots hold the same
one (`TokensDiffer`), that no event is of an attempt still to come
(`StreamsKnown`), and `OwnPart`: what a stream holds beyond the worker's mark are
exactly the events of the worker that holds the newest attempt, in order, and all
it saw confirmed are among them. `OwnPart` is what the fence is for. A request
repeated after a lost answer carries events the stream already has, and only
`OwnPart` tells that `append` skips just these. From it come
`StreamsAreWhole`, `NoSecondExecutor` and the action property
`FenceGuardsTheStream`.

### ExecutionAdmission_proofs (from `AdmissionAssumption`)

`AdmissionInv` counts. `Fits`: the slots of a tenant are those its calls hold plus
those the leaks have lost, and the total, which the fast path and the hand-over
compare with the capacity, is within it. `ClusterFits` and `ToolFits` say the like
of the cluster counter and the tool semaphore, whose queue names every waiting
call once. Only two facts about the phases of a call are needed of a
step: how it changes a count (`CountMoves`), and that all other calls stay where
they are; `Grant`, `GiveBack`, `Relabel` and `Lose` are the four moves of the
limiter on that level. `WaitersAreCaredFor` is part of the invariant: a
hand-over that serves nobody leaves no waiter or another holder, who will look at
the queue in turn (`HandOver`), unless a slot was lost. `ReserveIsKept` is read off the same moves.

### ProviderCircuit_proofs (from `CircuitAssumption` and `FiniteRequests`)

`CircuitTypeCorrect` and `TrialIsBounded` from
`CircuitInv == TypeOK /\ SentIsCounted`, where `SentIsCounted` says that in
half-open every request let through is still counted in flight or as a success;
`TrialBounded` alone is not inductive, since it does not say why a further
request would be refused. `CountedProbesAreReal` adds the cardinality of the
probes, with lemmas for one more and one less. `ProbesAreLimited` needs the
converse, that every probe is counted as long as no late verdict was taken for
one (`ProbesAreCounted`), and that no probe is left outside a half-open period
(`NoProbeOutside`): a period that begins with probes of the last would exceed the
limit with its own.

### StewardSpace_proofs (from `StewardAssumption`)

`SpaceInv` ties the row, the tasks, the generation and the inputs together.
`RowOK`: an active row asks for every event there is, and a row that succeeded
leaves no event and no request outstanding. `FenceOK`: tasks bound to the row are
of different attempts, so at most one is of the row's. `WindowOK`: a
coordinator works on events up to one that exists, and goes on from where the
last execution ended. `InputsOK`: what a task has read and a generation holds is of
the version both carry, and a view is ready only with that version.
`SpaceForgetsNothing` needs `RowOK`, which is kept at a publication because of
`WindowOK` and because of the comparison of the revisions asked for with those
served. `SpacePublishesTheCurrent` needs `InputsOK`: the check at the end compares
versions, and `InputsOK` says what agreeing versions mean for views made in
several transactions before. `SpaceSettledInOrder` needs `FenceOK` and
`WindowOK`. `SpaceCounterMatches` says that the counter has a slot exactly while
a row holds one, which also makes "given back twice" impossible.

### DeliveryIntents_proofs (from `DeliveryAssumption`)

`DeliveryInv`: how far the world has gone, what generations exist, intents of
generations still to be made are absent and leased ones are pending, budgets are
not overdrawn, nobody was told twice, and `OneResponsible`. That the types are
bounded is itself an argument: a delivery that writes terms raises the
presentation its own generation is validated against, and `WorldOK` says that each
generation does so once. `ToldOnce` is inductive with the types because effect
and receipt are one transaction. `OneIsResponsible` needs that leases only
shrink except where a claim takes one (`LeasesShrink`, `TakeKept`). `ChainBeforeAssist`
(`OrderKept`) follows from `Moves`, the life of an intent: it is done only when
valid and ready, and only the two intents of the chain are ever done again.

### StewardAssist_proofs (from `AssistAssumption`)

`AssistInv`: types of plans, rows and products; a plan still to be made has no
attempts (`NoneYet`); a gate is held exactly while a registered call is in flight
(`GateOK`); the counter is the number of these (`CountOK`); and the three
properties with what they need. `AssistSlotsHonest` needs `GateOK`, since each of
five ways to end a call gives back by the gate, and the recovery gives several
back in one step. `AssistAsksOnce` looks over all plans: for one input of a group at most one
attempt is open or answered and at most two were ever made; it follows from
`Moved`, the ways a row's status goes on, and from the test at planning.
`AssistStarvesNone` needs `TurnOK`, that the kind which got nothing in the last
plan is first in the next, so that one reservation is enough.
`AssistIgnoresLateAnswers` is an action property of the types alone.

### MemoryEvidence_proofs (from `MemoryAssumption`)

`MemoryInvariant` is the inductive
`MemoryInv == StateOK /\ RequestsOK /\ MaintenanceOK /\ EvidenceOK`, one lemma per
part. `DecidedForGood` needs `RequestsOK`: a request that confirms found its
candidate open, and no two requests hold the same one, so what it writes at its
commit undoes no other decision. `MemoryTypeCorrect` needs `MaintenanceOK`: a batch
writes documents long after it read the memories, and only of memories that were
confirmed. `FoundStaleIsNotCited` needs `EvidenceOK`: a build that was noticed is
invalid, hence not usable, hence not cited. `OnlyLiveIsCited` needs the types
alone: the check of a source and the citation are one step.

### Assumptions and limits

The assumptions are types and signs of the configuration, and that the sets over
which the models count (the `Calls` and `Tenants` of `ExecutionAdmission`, the
`Cards` and `Groups` of `StewardAssist`, the requests of the circuit) or take a
maximum (the attempts a budget may have, in `DeliveryIntents`) are finite. `MaxVersion` is at least 1, because the
first version is 1 and a version of 0 means "none". No theorem assumes anything of
the run-time behaviour.

Only model-checked: everything under fairness (`RunConverges`, `Recovers`,
`WorkConverges`, `PublicationCatchesUp`, `AnswersConverge`, `NothingLost`,
`IndexSettles`), since liveness and `ENABLED` are out of the prover's reach. No
module declares a RECURSIVE operator; what a fold or a recursive function computes
over data of any length would need induction theorems with operator parameters,
so the models count with cardinalities and choose with `Min` and `Max` (see
`FiniteNumbers`). `OneActiveRun`, `BoundedAttempts`, `EndedStaysEnded`
and `AccountLimitHolds` are proved for every instance and no longer
model-checked.

## 7. Plan

Proofs: two abstract specifications, each to be implemented by the detailed one
as `RunLifecycle` is by `AgentQueue`: a space's publication as "the newest
complete result of the current version, for the cursor reached", implemented by
`StewardSpace`; and a counting semaphore with owners, implemented by
`ExecutionAdmission` as far as nothing is lost.

Modules, each to take the place of a run whose question a theorem has answered
or a finding has settled: `SidecarSlots` (slots keyed by run id), the queue's
transactions under READ COMMITTED in the manner of `MemoryEvidence` (lease
against lease, deletion of a session against submission), `SpaceMembership`,
`RefreshSessions`, `Relations`, `EmbeddingGate`.

## 8. Not modelled

Transactions are atomic, as `immediate_tx` and the writer transactions of the
steward make them, except in `MemoryEvidence`, whose commands take no writer
lock; the races of two PostgreSQL transactions of the queue on rows without a
lock are in the plan. Data is abstracted to what the properties tell apart: no property is
about the text of messages, the contents of views, the wording of errors or the
search for relationships. Authentication, visibility rules and policies appear
only as the membership bit and as versions of inputs. The model provider, the
browsers and the network are environments: they may do anything the code
allows. The bootstrap of the counters, the lock order of rows and the frontends
have no model. Scripts for development,
smoke tests and the migrations are tools around the system and have no state of
their own at run time. `PROJECT.json` says for every part what is left out.
