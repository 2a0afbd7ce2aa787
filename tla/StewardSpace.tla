----------------------------- MODULE StewardSpace -----------------------------
(***************************************************************************)
(* One family space as the steward keeps it up to date: the job row        *)
(* (services/steward.py), the staged generation and its atomic publication *)
(* (steward_pipeline.py), the viewers' requests (steward_demand.py) and    *)
(* the coordinator threads of the process (steward_runtime.py).            *)
(*                                                                         *)
(* Domain events raise the cursor a job has to reach; a lease fixes how    *)
(* far this execution goes.  A coordinator works outside every transaction *)
(* and comes back to short ones, each behind the fence of its lease and of *)
(* the versions of the inputs it read; one that lost its lease lives on    *)
(* until a fence tells it.  Transactions are atomic.  The other spaces are *)
(* left out: their events only move the watermark on, and their claims to  *)
(* the global slots and the threads only delay.                            *)
(***************************************************************************)
EXTENDS Naturals, CapacityCounters

CONSTANTS
    Viewers,        \* accounts that may belong to the space
    Tasks,          \* coordinator tasks, those that lost their lease included
    MaxAttempts,    \* STEWARD_MAX_ATTEMPTS
    Counted,        \* whether the space's capacity counter is registered
    MaxEvent,       \* bound: domain events
    MaxVersion,     \* bound: versions of the space's inputs
    MaxRevision,    \* bound: revisions of a viewer's demand
    MaxFaults       \* bound: failures, crashes and missed heartbeats

ASSUME StewardAssumption ==
    /\ MaxAttempts \in Nat \ {0}
    /\ Counted \in BOOLEAN
    /\ {MaxEvent, MaxRevision, MaxFaults} \subseteq Nat
    /\ MaxVersion \in Nat \ {0}

VARIABLES
    head,        \* the highest domain event id
    version,     \* version of the inputs: facts, members, terms, configuration, day
    members,     \* viewers with an active membership
    job,         \* the newest job row
    done,        \* the highest last_event_cursor of a succeeded job
    gen,         \* the newest generation and its views
    cached,      \* per viewer, the inputs its newest view was completed for
    publication, \* what readers see
    demand,      \* per viewer, revision and fulfilled_revision
    slots,       \* the capacity counter
    task,        \* the coordinator tasks
    faults       \* failures so far

inputs == <<head, version, members>>
results == <<done, gen, cached, publication, demand>>
vars == <<inputs, results, job, slots, task, faults>>

Active == {"queued", "leased", "running"}
Leased == {"leased", "running"}

NoJob == [status |-> "none", trigger |-> 0, cursor |-> 0, attempt |-> 0,
          live |-> FALSE, held |-> FALSE]
Zero == [v \in Viewers |-> 0]
NoGeneration == [status |-> "none", attempt |-> 0, version |-> 0, required |-> {},
                 view |-> [v \in Viewers |-> "none"], asked |-> Zero, built |-> Zero]
NoPublication == [version |-> 0, views |-> {}, asked |-> Zero, built |-> Zero]
Idle == [phase |-> "idle", attempt |-> 0, upper |-> 0, floor |-> 0, version |-> 0,
         viewers |-> {}, pick |-> {}, seen |-> 0, error |-> "none"]

Init ==
    /\ head = 0 /\ version = 1 /\ members = Viewers
    /\ job = NoJob /\ done = 0 /\ gen = NoGeneration /\ cached = Zero
    /\ publication = NoPublication
    /\ demand = [v \in Viewers |-> [revision |-> 0, fulfilled |-> 0]]
    /\ slots = [d \in IF Counted THEN {"space"} ELSE {} |-> 0]
    /\ task = [t \in Tasks |-> Idle]
    /\ faults = 0

Later(a, b) == IF a < b THEN b ELSE a

-----------------------------------------------------------------------------
(* Enqueueing.  The space has at most one active job row.                  *)

\* With a new row, no fence lets a task pass that is bound to an older one.
Orphaned(tasks) ==
    [t \in Tasks |-> IF tasks[t].phase = "idle" THEN Idle
                     ELSE [Idle EXCEPT !.phase = "orphan"]]

Queued(trigger, held) ==
    [NoJob EXCEPT !.status = "queued", !.trigger = trigger, !.held = held]

\* _enqueue_core_job_locked after its checks.  A job that gets no slot is enqueued
\* as well.
Enqueue(trigger, count, tasks) ==
    LET held == Counted /\ CanAcquire(count, [d \in DOMAIN count |-> 1], {"space"})
    IN  /\ job' = Queued(trigger, held)
        /\ slots' = IF held THEN Acquired(count, {"space"}) ELSE count
        /\ task' = Orphaned(tasks)

Raise(trigger) ==
    /\ job' = [job EXCEPT !.trigger = Later(@, trigger)]
    /\ UNCHANGED <<slots, task>>

\* schedule_steward_job_for_event, in the transaction that appends the event.
\* The row it inserts takes no slot.  Its search for a succeeded job that covers
\* the event finds none: the event is new.
Schedule(event) ==
    IF job.status \in Active
    THEN Raise(event)
    ELSE job' = Queued(event, FALSE) /\ task' = Orphaned(task) /\ UNCHANGED slots

InputsChange == version < MaxVersion /\ version' = version + 1

\* An event of this space: without new inputs, with some, or a member joining or
\* leaving.
Event ==
    /\ head < MaxEvent
    /\ head' = head + 1
    /\ \/ UNCHANGED <<version, members>>
       \/ InputsChange /\ UNCHANGED members
       \/ \E v \in Viewers :
             /\ InputsChange
             /\ members' = IF v \in members THEN members \ {v} ELSE members \cup {v}
    /\ Schedule(head + 1)
    /\ UNCHANGED <<results, faults>>

\* Inputs that change without an event: configuration, policy, a bridge that
\* expires, the day.
SilentChange ==
    /\ InputsChange
    /\ UNCHANGED <<head, members, results, job, slots, task, faults>>

\* Mutant of ScanWants: the scan is subject to the short circuit of the other
\* causes, which skips a space whose cursor is covered.
ScanWantsNews == job.status \notin Active /\ (done < head \/ job.status = "none")

ScanWants == job.status \notin Active

\* scan_due_spaces, when next_scan_at has come.
ScanDue ==
    /\ ScanWants
    /\ Enqueue(head, slots, task)
    /\ UNCHANGED <<inputs, results, faults>>

-----------------------------------------------------------------------------
(* Requests of the viewers.                                                *)

Satisfied(v) == publication.version = version /\ v \in publication.views

\* _already_covered, the part about a running generation.
Covered(v) ==
    /\ gen.status = "running" /\ gen.version = version
    /\ gen.view[v] \in {"pending", "ready"}
    /\ demand[v].fulfilled < demand[v].revision
    /\ gen.asked[v] >= demand[v].revision
    /\ job.status \in Leased /\ job.live /\ job.attempt = gen.attempt
    /\ job.trigger >= head

FailedSameInput == gen.status = "failed" /\ gen.version = version

\* A request that has been served before gets a new revision, unless its view is
\* still good.
Requested(v) ==
    LET old == demand[v]
        served == \/ old.fulfilled >= old.revision
                  \/ v \in publication.views /\ publication.asked[v] >= old.revision
    IN  IF old.revision = 0 THEN 1
        ELSE IF served /\ ~Satisfied(v) THEN old.revision + 1
        ELSE old.revision

\* register; granted: a retry that is outside its cooldown.
Register(v, retry) ==
    /\ v \in members
    /\ retry \/ ~(Satisfied(v) \/ Covered(v))
    /\ \E granted \in {FALSE, retry} :
          LET revision == Requested(v) + IF granted THEN 1 ELSE 0
          IN  /\ revision <= MaxRevision
              /\ demand' = [demand EXCEPT ![v].revision = revision]
              /\ IF FailedSameInput /\ ~granted
                 THEN UNCHANGED <<job, slots, task>>
                 ELSE IF job.status \in Active THEN Raise(head)
                 ELSE Enqueue(head, slots, task)
    /\ UNCHANGED <<inputs, done, gen, cached, publication, faults>>

-----------------------------------------------------------------------------
(* The lease and its fences.                                               *)

\* Mutant of BindingOk: the attempt is not compared.
BindingOkAnyAttempt(t) ==
    /\ task[t].phase \notin {"idle", "orphan"}
    /\ job.status \in Leased /\ job.live

\* require_binding.  The owner is one name for the whole process.
BindingOk(t) ==
    /\ task[t].phase \notin {"idle", "orphan"}
    /\ job.status \in Leased /\ job.live
    /\ job.attempt = task[t].attempt

OwnGeneration(t) == gen.status = "running" /\ gen.attempt = task[t].attempt

\* Mutant of GenerationOk: the versions of the inputs are not compared.
GenerationOkAnyInput(t) == BindingOk(t) /\ OwnGeneration(t)

\* require_generation.
GenerationOk(t) == BindingOk(t) /\ OwnGeneration(t) /\ gen.version = version

LeasedJob ==
    [job EXCEPT !.status = "leased", !.attempt = @ + 1, !.live = TRUE,
                !.cursor = job.trigger]

\* lease_next_steward_job and the submission to the thread pool, from the
\* maintenance tick or from a request, once the row's backoff is over.
Lease(t) ==
    /\ task[t].phase = "idle"
    /\ job.status = "queued"
    /\ job' = LeasedJob
    /\ task' = [task EXCEPT ![t] =
                   [Idle EXCEPT !.phase = "launched", !.attempt = job.attempt + 1]]
    /\ UNCHANGED <<inputs, results, slots, faults>>

\* The heartbeat of a coordinator is accepted, or its turn is yet to come.
Beats(t) ==
    /\ BindingOk(t)
    /\ task[t].phase # "rethrown"
    /\ OwnGeneration(t) => gen.version = version

LeaseEnds ==
    /\ job.status \in Leased /\ job.live
    /\ job' = [job EXCEPT !.live = FALSE]
    /\ UNCHANGED <<inputs, results, slots, task>>

\* The lease of a coordinator that is gone, or whose heartbeat was refused.
LeaseLapses == LeaseEnds /\ (\A t \in Tasks : ~Beats(t)) /\ UNCHANGED faults

Fault == faults < MaxFaults /\ faults' = faults + 1

\* The heartbeats of a living coordinator come too late.
HeartbeatsMissed == LeaseEnds /\ (\E t \in Tasks : Beats(t)) /\ Fault

\* Mutant of Left: the slot is kept.
LeftHeld(count) == count

\* release_job: the row's gate gives the slot back once.
Left(count) == IF job.held THEN Released(count, {"space"}) ELSE count

\* Mutant of MayRetry: off by one at the last attempt.
MayRetryOneMore == job.attempt <= MaxAttempts

MayRetry == job.attempt < MaxAttempts

\* Mutant of Overdue: only a job that has begun is taken back.
OverdueRunning == job.status = "running" /\ ~job.live

Overdue == job.status \in Leased /\ ~job.live

\* reaper_pass.
Reap ==
    /\ Overdue
    /\ gen' = IF gen.status = "running" /\ gen.attempt = job.attempt
              THEN [gen EXCEPT !.status = "superseded"] ELSE gen
    /\ IF MayRetry
       THEN job' = [job EXCEPT !.status = "queued"] /\ UNCHANGED slots
       ELSE job' = [job EXCEPT !.status = "expired", !.held = FALSE] /\ slots' = Left(slots)
    /\ UNCHANGED <<inputs, done, cached, publication, demand, task, faults>>

-----------------------------------------------------------------------------
(* A coordinator's way through one execution.                              *)

Step(t, from, to) ==
    /\ task[t].phase = from
    /\ task' = [task EXCEPT ![t].phase = to]

\* begin_job, and the bound run_steward_job takes for this execution.
Begin(t) ==
    /\ task[t].phase = "launched" /\ BindingOk(t)
    /\ job' = [job EXCEPT !.status = "running"]
    /\ task' = [task EXCEPT ![t].phase = "begun",
                   ![t].upper = IF job.trigger < job.cursor THEN job.trigger ELSE job.cursor]
    /\ UNCHANGED <<inputs, results, slots, faults>>

\* _snapshot_header.
Snapshot(t) ==
    /\ task[t].phase = "begun" /\ BindingOk(t)
    /\ task' = [task EXCEPT ![t].phase = "snapped", ![t].floor = done,
                            ![t].version = version, ![t].viewers = members]
    /\ UNCHANGED <<inputs, results, job, slots, faults>>

\* execute, the transaction that creates the generation.  Generations of older
\* attempts have ended before: their lease was taken back.
Create(t) ==
    /\ BindingOk(t) /\ task[t].version = version
    /\ Step(t, "snapped", "building")
    /\ gen' = [NoGeneration EXCEPT !.status = "running", !.attempt = task[t].attempt,
                  !.version = version, !.required = task[t].viewers]
    /\ UNCHANGED <<inputs, done, cached, publication, demand, job, slots, faults>>

\* execute takes the next viewer and reads which revision of the demand this
\* view will serve.
Pick(t, v) ==
    /\ task[t].phase = "building" /\ task[t].pick = {} /\ GenerationOk(t)
    /\ v \in gen.required /\ gen.view[v] = "none"
    /\ task' = [task EXCEPT ![t].pick = {v}, ![t].seen = demand[v].revision]
    /\ UNCHANGED <<inputs, results, job, slots, faults>>

\* _reuse_view: the viewer's newest view is complete and its inputs are these.
Reusable(v) == cached[v] = version

\* Mutant of Serves: a view that is taken over keeps the revision it served.
ServesOld(t, v) == IF Reusable(v) THEN publication.asked[v] ELSE task[t].seen

Serves(t, v) == task[t].seen

\* _reuse_view or _stage_view.  A staged view may be ready at once: no targets,
\* or nothing about it has changed.
Stage(t, v) ==
    /\ task[t].pick = {v} /\ GenerationOk(t)
    /\ \E status \in IF Reusable(v) THEN {"ready"} ELSE {"pending", "ready"} :
          LET from == IF Reusable(v) THEN cached[v] ELSE task[t].version
          IN  /\ gen' = [gen EXCEPT !.view[v] = status, !.asked[v] = Serves(t, v),
                                    !.built[v] = from]
              /\ cached' = [cached EXCEPT ![v] = IF status = "ready" THEN from ELSE 0]
    /\ task' = [task EXCEPT ![t].pick = {}, ![t].seen = 0]
    /\ UNCHANGED <<inputs, done, publication, demand, job, slots, faults>>

\* save_target for the last pending target of a view.
Complete(t, v) ==
    /\ task[t].phase = "building" /\ task[t].pick = {} /\ GenerationOk(t)
    /\ gen.view[v] = "pending"
    /\ gen' = [gen EXCEPT !.view[v] = "ready"]
    /\ cached' = [cached EXCEPT ![v] = gen.built[v]]
    /\ UNCHANGED <<inputs, done, publication, demand, job, slots, task, faults>>

AllReady == \A v \in gen.required : gen.view[v] = "ready"

\* _prepare_delivery, and the transaction that marks the intents prepared.
Prepare(t) ==
    /\ task[t].pick = {} /\ GenerationOk(t) /\ AllReady
    /\ Step(t, "building", "prepared")
    /\ UNCHANGED <<inputs, results, job, slots, faults>>

\* What a publication fulfils: the revision each view was built for, and every
\* request of somebody who is no longer a member.
Fulfilled(v) ==
    LET captured == IF v \in gen.required THEN Later(demand[v].fulfilled, gen.asked[v])
                    ELSE demand[v].fulfilled
    IN  IF v \in members THEN captured ELSE Later(captured, demand[v].revision)

\* Mutants of NeedsSuccessor: only new events count; only new requests count.
NeedsSuccessorForEvents(t) == job.trigger > task[t].upper
NeedsSuccessorForDemand(t) ==
    \E v \in members : /\ demand[v].revision > Fulfilled(v)
                       /\ ~(v \in gen.required /\ gen.asked[v] >= demand[v].revision)

NeedsSuccessor(t) == NeedsSuccessorForEvents(t) \/ NeedsSuccessorForDemand(t)

\* Mutant of Reached: the settlement declares the cursor requested by now.
ReachedByNow(t) == job.trigger

Reached(t) == task[t].upper

\* publish: one transaction switches the publication, settles the job and leaves
\* a successor for what came in the meantime.
Publish(t) ==
    /\ GenerationOk(t) /\ AllReady
    /\ task[t].phase = "prepared"
    /\ publication' = [version |-> gen.version, views |-> gen.required,
                       asked |-> gen.asked, built |-> gen.built]
    /\ gen' = [gen EXCEPT !.status = "published"]
    /\ done' = Later(done, Reached(t))
    /\ demand' = [v \in Viewers |-> [demand[v] EXCEPT !.fulfilled = Fulfilled(v)]]
    /\ IF NeedsSuccessor(t)
       THEN Enqueue(Later(job.trigger, head), Left(slots), [task EXCEPT ![t] = Idle])
       ELSE /\ job' = [job EXCEPT !.status = "succeeded", !.live = FALSE, !.held = FALSE]
            /\ slots' = Left(slots)
            /\ task' = [task EXCEPT ![t] = Idle]
    /\ UNCHANGED <<inputs, cached, faults>>

-----------------------------------------------------------------------------
(* Failures.                                                               *)

Working == {"begun", "snapped", "building", "prepared"}

Failing(t, error) ==
    task' = [task EXCEPT ![t].phase = IF @ = "launched" THEN "rethrown" ELSE "failing",
                         ![t].error = error, ![t].pick = {}, ![t].seen = 0]

\* SnapshotChanged at a fence.
InputChanged(t) ==
    /\ task[t].phase \in Working \ {"begun"} /\ BindingOk(t)
    /\ task[t].version # version
    /\ Failing(t, "changed")
    /\ UNCHANGED <<inputs, results, job, slots, faults>>

\* A locked database, a timeout or a shutdown; or an error that no retry cures.
Fail(t, error) ==
    /\ task[t].phase \in Working \cup {"launched"}
    /\ Fault /\ Failing(t, error)
    /\ UNCHANGED <<inputs, results, job, slots>>

\* A required target fails: _fail_target, and RequiredTargetFailed.
TargetFails(t, v) ==
    /\ task[t].phase = "building" /\ task[t].pick = {} /\ GenerationOk(t)
    /\ gen.view[v] = "pending"
    /\ gen' = [gen EXCEPT !.view[v] = "failed"]
    /\ Fault /\ Failing(t, "fatal")
    /\ UNCHANGED <<inputs, done, cached, publication, demand, job, slots>>

Requeue ==
    /\ job' = [job EXCEPT !.status = "queued", !.live = FALSE]
    /\ UNCHANGED slots

\* record_failure.  run_steward_job calls it and raises the exception again, and
\* execute_steward_job calls it a second time, when only a failed first call has
\* left something to record.
Record(t) ==
    LET changed == \/ task[t].error = "changed"
                   \/ OwnGeneration(t) /\ gen.version # version
        after == [task EXCEPT ![t] = Idle]
    IN  /\ task[t].phase \in {"failing", "rethrown"} /\ BindingOk(t)
        /\ gen' = IF OwnGeneration(t)
                  THEN [gen EXCEPT !.status = IF changed THEN "superseded" ELSE "failed"]
                  ELSE gen
        /\ IF changed THEN Enqueue(Later(job.trigger, head), Left(slots), after)
           ELSE /\ IF task[t].error = "transient" /\ MayRetry THEN Requeue
                   ELSE /\ job' = [job EXCEPT !.status = "failed", !.live = FALSE,
                                              !.held = FALSE]
                        /\ slots' = Left(slots)
                /\ task' = after
        /\ UNCHANGED <<inputs, done, cached, publication, demand, faults>>

\* What the second call of record_failure is told: not that the inputs had changed.
LaterError(t) == IF task[t].error = "changed" THEN "fatal" ELSE task[t].error

\* A call of record_failure fails itself.
RecordFails(t) ==
    /\ task[t].phase \in {"failing", "rethrown"}
    /\ task' = [task EXCEPT ![t] =
                   IF @.phase = "rethrown" THEN Idle
                   ELSE [@ EXCEPT !.phase = "rethrown", !.error = LaterError(t)]]
    /\ Fault
    /\ UNCHANGED <<inputs, results, job, slots>>

\* A fence refuses a task that is no longer bound; record_failure refuses it too.
GiveUp(t) ==
    /\ task[t].phase # "idle" /\ ~BindingOk(t)
    /\ task' = [task EXCEPT ![t] = Idle]
    /\ UNCHANGED <<inputs, results, job, slots, faults>>

\* The process dies and another one starts.
Crash ==
    /\ \E t \in Tasks : task[t].phase # "idle"
    /\ task' = [t \in Tasks |-> Idle]
    /\ Fault
    /\ UNCHANGED <<inputs, results, job, slots>>

-----------------------------------------------------------------------------
Advance(t) ==
    \/ Begin(t) \/ Snapshot(t) \/ Create(t) \/ Prepare(t) \/ Publish(t)
    \/ \E v \in Viewers : Pick(t, v) \/ Stage(t, v) \/ Complete(t, v)
    \/ InputChanged(t) \/ Record(t) \/ GiveUp(t)

Next ==
    \/ Event \/ SilentChange \/ ScanDue
    \/ \E v \in Viewers, retry \in BOOLEAN : Register(v, retry)
    \/ LeaseLapses \/ HeartbeatsMissed \/ Reap \/ Crash
    \/ \E t \in Tasks :
          \/ Lease(t) \/ Advance(t) \/ RecordFails(t)
          \/ \E error \in {"transient", "fatal"} : Fail(t, error)
          \/ \E v \in Viewers : TargetFails(t, v)

Spec == Init /\ [][Next]_vars

\* The maintenance tick runs the reaper, the scan and the launch for ever, clocks
\* advance, and a coordinator is a thread that runs.
Fairness ==
    /\ WF_vars(ScanDue) /\ WF_vars(Reap)
    /\ WF_vars(LeaseLapses)
    /\ WF_vars(\E t \in Tasks : Lease(t))
    /\ \A t \in Tasks : WF_vars(Advance(t))

FairSpec == Spec /\ Fairness

-----------------------------------------------------------------------------
Versions == 0..MaxVersion
Revisions == 0..MaxRevision
Views == {"none", "pending", "ready", "failed"}

TypeOK ==
    /\ head \in 0..MaxEvent /\ done \in 0..head
    /\ version \in 1..MaxVersion /\ members \subseteq Viewers
    /\ job \in [status : Active \cup {"none", "succeeded", "failed", "expired"},
                trigger : 0..MaxEvent, cursor : 0..MaxEvent, attempt : 0..MaxAttempts,
                live : BOOLEAN, held : BOOLEAN]
    /\ gen \in [status : {"none", "running", "published", "failed", "superseded"},
                attempt : 0..MaxAttempts, version : Versions, required : SUBSET Viewers,
                view : [Viewers -> Views], asked : [Viewers -> Revisions],
                built : [Viewers -> Versions]]
    /\ cached \in [Viewers -> Versions]
    /\ publication \in [version : Versions, views : SUBSET Viewers,
                        asked : [Viewers -> Revisions], built : [Viewers -> Versions]]
    /\ demand \in [Viewers -> [revision : Revisions, fulfilled : Revisions]]
    /\ faults \in 0..MaxFaults
    /\ slots \in [IF Counted THEN {"space"} ELSE {} -> Nat]
    /\ task \in [Tasks ->
          [phase : Working \cup {"idle", "orphan", "launched", "failing", "rethrown"},
           attempt : 0..MaxAttempts, upper : 0..MaxEvent, floor : 0..MaxEvent,
           version : Versions, viewers : SUBSET Viewers, pick : SUBSET Viewers,
           seen : Revisions, error : {"none", "changed", "transient", "fatal"}]]

\* The counter of a space is exactly the number of slots its jobs hold: nothing is
\* given back twice or for a retry, and nothing stays taken after the end.
CounterMatches ==
    Counted => slots["space"] = IF job.status \in Active /\ job.held THEN 1 ELSE 0

\* After a real failure the work waits for the next scan or event; otherwise
\* whatever is outstanding has a job that will do it.
Unattended == job.status \in {"failed", "expired"}

\* No event of the space is lost between two executions: it has been consumed, or
\* the active job has to reach it.
EventNotForgotten ==
    head > done => Unattended \/ (job.status \in Active /\ job.trigger >= head)

\* A member's request that is not served yet has an active job, whichever moment
\* of an execution it came in.
DemandNotForgotten ==
    \A v \in members :
        demand[v].revision > demand[v].fulfilled => Unattended \/ job.status \in Active

\* Whatever comes in while an execution runs or ends is taken up by it or by another.
NothingForgotten == EventNotForgotten /\ DemandNotForgotten

\* A publication shows the inputs of its moment: every member has a view, nobody
\* else has, and each was built from these inputs.
PublishesTheCurrent ==
    [][publication' # publication =>
          /\ publication'.version = version
          /\ publication'.views = members
          /\ \A v \in members : publication'.built[v] = version]_vars

\* The windows of successive executions join: each starts where the last one ended
\* and ends where its lease said, although cursors rise while it runs.
WindowsJoin ==
    [][done' # done =>
          \E t \in Tasks : /\ task[t].phase = "prepared"
                           /\ task[t].floor = done /\ task[t].upper = done']_vars

\* A live lease is ended by the task that holds it and by nobody else.
OnlyTheHolderSettles ==
    [][job.status \in Leased /\ job.live /\ job'.status \notin Leased =>
          \E t \in Tasks : /\ task[t].phase \notin {"idle", "orphan"}
                           /\ task[t].attempt = job.attempt
                           /\ task'[t] = Idle]_vars

\* Executions are settled by their holders, one after the other and each where the
\* one before it ended, though an expired coordinator still works (require_binding).
SettledInOrder == WindowsJoin /\ OnlyTheHolderSettles

\* Every event of the space is consumed in the end, after any failures.
EventsConverge == \A e \in 1..MaxEvent : (head >= e) ~> (done >= e)

\* Once the inputs rest, readers get their current state, whether or not an event
\* told the steward of the change.
PublicationCatchesUp ==
    <>[](publication.version = version /\ publication.views = members)

\* Every request is served or ends with its viewer's membership.
DemandServed ==
    \A v \in Viewers :
        (demand[v].revision > demand[v].fulfilled) ~>
            (demand[v].revision = demand[v].fulfilled)

\* Whatever asks for work, an event or a member, gets it (the maintenance tick).
WorkConverges == EventsConverge /\ DemandServed
=============================================================================
