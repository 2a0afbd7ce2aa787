------------------------- MODULE StewardSpace_proofs -------------------------
(***************************************************************************)
(* Types, the capacity counter, outstanding work, publications and         *)
(* settlements in StewardSpace, for any viewers, coordinators and bounds.  *)
(***************************************************************************)
EXTENDS StewardSpace, TLAPS

Statuses == Active \cup {"none", "succeeded", "failed", "expired"}
Jobs == [status : Statuses, trigger : 0..MaxEvent, cursor : 0..MaxEvent,
         attempt : 0..MaxAttempts, live : BOOLEAN, held : BOOLEAN]
Generations ==
    [status : {"none", "running", "published", "failed", "superseded"},
     attempt : 0..MaxAttempts, version : Versions, required : SUBSET Viewers,
     view : [Viewers -> Views], asked : [Viewers -> Revisions],
     built : [Viewers -> Versions]]
Publications == [version : Versions, views : SUBSET Viewers,
                 asked : [Viewers -> Revisions], built : [Viewers -> Versions]]
Demands == [Viewers -> [revision : Revisions, fulfilled : Revisions]]
Errors == {"none", "changed", "transient", "fatal"}
States == [phase : Working \cup {"idle", "orphan", "launched", "failing", "rethrown"},
           attempt : 0..MaxAttempts, upper : 0..MaxEvent, floor : 0..MaxEvent,
           version : Versions, viewers : SUBSET Viewers, pick : SUBSET Viewers,
           seen : Revisions, error : Errors]

-----------------------------------------------------------------------------
(* The inductive invariant, by the part of the state it is about.          *)

\* A task that a fence may let pass.
Bound(t) == task[t].phase \notin {"idle", "orphan"}
\* A task that has read what it works from.
Reading(t) == task[t].phase \in {"snapped", "building", "prepared"}

\* The row asks for every event there is, has an attempt left while it is queued,
\* and leaves nothing outstanding when it has succeeded.
RowOK ==
    /\ job.trigger <= head
    /\ job.status \in Active => job.trigger = head
    /\ job.status = "queued" => job.attempt < MaxAttempts
    /\ job.status \in {"none", "succeeded"} =>
         /\ done = head
         /\ gen.status # "failed"
         /\ \A v \in members : demand[v].revision <= demand[v].fulfilled
    /\ job.held => Counted

\* The tasks bound to the row are of different attempts of it, and a generation
\* that runs is the leased attempt's.
FenceOK ==
    /\ \A t \in Tasks : Bound(t) => task[t].attempt <= job.attempt
    /\ \A t, u \in Tasks :
         Bound(t) /\ Bound(u) /\ task[t].attempt = task[u].attempt => t = u
    /\ gen.status = "running" => job.status \in Leased /\ gen.attempt = job.attempt

\* A coordinator goes on from where the last execution ended, to no later than
\* there are events.
WindowOK ==
    \A t \in Tasks :
        /\ task[t].upper <= head
        /\ Reading(t) /\ job.status \in Active => task[t].floor = done

\* What tasks and the generation hold is of their version of the inputs.
InputsOK ==
    /\ gen.version <= version
    /\ gen.status = "running" /\ gen.version = version => gen.required = members
    /\ gen.status = "running" =>
         \A v \in Viewers : gen.view[v] \in {"pending", "ready"}
                              => gen.built[v] = gen.version
    /\ \A t \in Tasks :
         /\ task[t].version <= version
         /\ task[t].phase = "snapped" /\ task[t].version = version
              => task[t].viewers = members
         /\ task[t].phase \in {"building", "prepared"} /\ OwnGeneration(t)
              => task[t].version = gen.version
         /\ task[t].pick # {} => task[t].phase = "building"

SpaceInv == TypeOK /\ CounterMatches /\ RowOK /\ FenceOK /\ WindowOK /\ InputsOK

-----------------------------------------------------------------------------
LEMMA Numbers ==
    /\ MaxAttempts \in Nat \ {0} /\ Counted \in BOOLEAN
    /\ MaxEvent \in Nat /\ MaxRevision \in Nat /\ MaxFaults \in Nat
    /\ MaxVersion \in Nat \ {0}
  BY StewardAssumption

LEMMA Types ==
    TypeOK <=> /\ head \in 0..MaxEvent /\ done \in 0..head
               /\ version \in 1..MaxVersion /\ members \subseteq Viewers
               /\ job \in Jobs /\ gen \in Generations
               /\ cached \in [Viewers -> Versions]
               /\ publication \in Publications /\ demand \in Demands
               /\ faults \in 0..MaxFaults
               /\ slots \in [IF Counted THEN {"space"} ELSE {} -> Nat]
               /\ task \in [Tasks -> States]
  BY DEF TypeOK, Statuses, Jobs, Generations, Publications, Demands, Errors, States

LEMMA IdleTyped == Idle \in States /\ [Idle EXCEPT !.phase = "orphan"] \in States
  BY Numbers DEF Idle, States, Versions, Revisions, Errors

LEMMA InvInit == Init => SpaceInv
<1> SUFFICES ASSUME Init PROVE SpaceInv
  OBVIOUS
<1>1. TypeOK
  <2>1. job \in Jobs
    BY Numbers DEF Init, NoJob, Jobs, Statuses
  <2>2. gen \in Generations
    BY Numbers DEF Init, NoGeneration, Generations, Zero, Versions, Revisions, Views
  <2>3. publication \in Publications /\ demand \in Demands /\ cached \in [Viewers -> Versions]
    BY Numbers DEF Init, NoPublication, Publications, Demands, Zero, Versions, Revisions
  <2>4. task \in [Tasks -> States]
    BY IdleTyped DEF Init
  <2> QED
    BY <2>1, <2>2, <2>3, <2>4, Numbers, Types DEF Init
<1>2. CounterMatches /\ RowOK
  BY Numbers DEF Init, NoJob, NoGeneration, CounterMatches, RowOK, Active
<1>3. FenceOK /\ WindowOK
  BY Numbers DEF Init, NoJob, NoGeneration, Idle, FenceOK, WindowOK, Bound, Reading
<1>4. InputsOK
  BY Numbers DEF Init, NoGeneration, Idle, InputsOK, OwnGeneration
<1> QED
  BY <1>1, <1>2, <1>3, <1>4 DEF SpaceInv

-----------------------------------------------------------------------------
(* Types.                                                                  *)

LEMMA OrphanedTyped ==
    ASSUME NEW tasks
    PROVE  Orphaned(tasks) \in [Tasks -> States]
  BY IdleTyped DEF Orphaned

LEMMA OneTask ==
    ASSUME TypeOK, NEW t \in Tasks, NEW r \in States, task' = [task EXCEPT ![t] = r]
    PROVE  task' \in [Tasks -> States]
  BY Types

LEMMA TasksTyped ==
    ASSUME SpaceInv, [Next]_vars
    PROVE  task' \in [Tasks -> States]
<1> DEFINE Goal == task' \in [Tasks -> States]
<1>0. /\ task \in [Tasks -> States] /\ head \in 0..MaxEvent /\ done \in 0..head
      /\ version \in 1..MaxVersion /\ members \subseteq Viewers
      /\ job \in Jobs /\ gen \in Generations /\ demand \in Demands
  BY Types DEF SpaceInv
<1>1. UNCHANGED task => Goal
  BY <1>0
<1>2. ASSUME NEW n, NEW count, NEW tasks, Enqueue(n, count, tasks) PROVE Goal
  BY <1>2, OrphanedTyped DEF Enqueue
<1>3. ASSUME NEW t \in Tasks, NEW r \in States, task' = [task EXCEPT ![t] = r] PROVE Goal
  BY <1>0, <1>3
<1>4. CASE Event
  BY <1>1, <1>4, OrphanedTyped DEF Event, Schedule, Raise
<1>5. CASE ScanDue
  BY <1>2, <1>5 DEF ScanDue
<1>6. ASSUME NEW v \in Viewers, NEW retry \in BOOLEAN, Register(v, retry) PROVE Goal
  BY <1>1, <1>2, <1>6 DEF Register, Raise
<1>7. ASSUME NEW t \in Tasks, Lease(t) PROVE Goal
  <2>1. job.attempt + 1 \in 0..MaxAttempts
    BY <1>0, <1>7, Numbers DEF Lease, SpaceInv, RowOK, Jobs
  <2>2. ASSUME NEW n \in 0..MaxAttempts
        PROVE  [Idle EXCEPT !.phase = "launched", !.attempt = n] \in States
    BY IdleTyped DEF States
  <2> QED
    BY <1>3, <1>7, <2>1, <2>2 DEF Lease
<1>8. ASSUME NEW t \in Tasks, Begin(t) PROVE Goal
  <2> DEFINE r == [task[t] EXCEPT !.phase = "begun",
                     !.upper = IF job.trigger < job.cursor THEN job.trigger ELSE job.cursor]
  <2>1. r \in States
    BY <1>0 DEF States, Jobs, Working
  <2>2. task' = [task EXCEPT ![t] = r]
    BY <1>0, <1>8 DEF Begin
  <2> QED
    BY <1>3, <2>1, <2>2
<1>9. ASSUME NEW t \in Tasks, Snapshot(t) PROVE Goal
  <2> DEFINE r == [task[t] EXCEPT !.phase = "snapped", !.floor = done,
                                  !.version = version, !.viewers = members]
  <2>1. r \in States
    <3>1. done \in 0..MaxEvent /\ version \in Versions
      BY <1>0, Numbers DEF Versions
    <3> QED
      BY <1>0, <3>1 DEF States, Working
  <2>2. task' = [task EXCEPT ![t] = r]
    BY <1>0, <1>9 DEF Snapshot
  <2> QED
    BY <1>3, <2>1, <2>2
<1>10. ASSUME NEW t \in Tasks, NEW from, NEW to \in Working, Step(t, from, to) PROVE Goal
  <2> DEFINE r == [task[t] EXCEPT !.phase = to]
  <2>1. r \in States
    BY <1>0 DEF States, Working
  <2>2. task' = [task EXCEPT ![t] = r]
    BY <1>0, <1>10 DEF Step
  <2> QED
    BY <1>3, <2>1, <2>2
<1>11. ASSUME NEW t \in Tasks, NEW v \in Viewers, Pick(t, v) \/ Stage(t, v) PROVE Goal
  <2>1. PICK p \in SUBSET Viewers, n \in Revisions :
          task' = [task EXCEPT ![t].pick = p, ![t].seen = n]
    <3>1. demand[v].revision \in Revisions /\ 0 \in Revisions
      BY <1>0, Numbers DEF Demands, Revisions
    <3> QED
      BY <1>11, <3>1 DEF Pick, Stage
  <2> DEFINE r == [task[t] EXCEPT !.pick = p, !.seen = n]
  <2>2. r \in States
    BY <1>0 DEF States
  <2>3. task' = [task EXCEPT ![t] = r]
    BY <1>0, <2>1
  <2> QED
    BY <1>3, <2>2, <2>3
<1>12. ASSUME NEW t \in Tasks, NEW error \in Errors, Failing(t, error) PROVE Goal
  <2> DEFINE r == [task[t] EXCEPT !.phase = IF @ = "launched" THEN "rethrown" ELSE "failing",
                                  !.error = error, !.pick = {}, !.seen = 0]
  <2>1. r \in States
    <3>1. 0 \in Revisions
      BY Numbers DEF Revisions
    <3> QED
      BY <1>0, <3>1 DEF States
  <2>2. task' = [task EXCEPT ![t] = r]
    BY <1>0, <1>12 DEF Failing
  <2> QED
    BY <1>3, <2>1, <2>2
<1>13. ASSUME NEW t \in Tasks, Publish(t) \/ Record(t) \/ GiveUp(t) PROVE Goal
  <2>1. CASE task' = [task EXCEPT ![t] = Idle]
    BY <1>3, <2>1, IdleTyped
  <2>2. CASE \E n, count, tasks : Enqueue(n, count, tasks)
    BY <1>2, <2>2
  <2> QED
    BY <1>13, <2>1, <2>2 DEF Publish, Record, GiveUp
<1>14. ASSUME NEW t \in Tasks, RecordFails(t) PROVE Goal
  <2> DEFINE r == IF task[t].phase = "rethrown" THEN Idle
                  ELSE [task[t] EXCEPT !.phase = "rethrown", !.error = LaterError(t)]
  <2>1. r \in States
    BY <1>0, IdleTyped DEF States, Errors, LaterError
  <2>2. task' = [task EXCEPT ![t] = r]
    BY <1>14 DEF RecordFails
  <2> QED
    BY <1>3, <2>1, <2>2
<1>15. CASE Crash
  BY <1>15, IdleTyped DEF Crash
<1>16. ASSUME NEW t \in Tasks,
              Create(t) \/ Prepare(t) \/ InputChanged(t)
              \/ (\E error \in {"transient", "fatal"} : Fail(t, error))
              \/ (\E v \in Viewers : TargetFails(t, v) \/ Complete(t, v))
       PROVE  Goal
  BY <1>1, <1>10, <1>12, <1>16 DEF Create, Prepare, InputChanged, Fail, TargetFails, Complete,
     Working, Errors
<1>17. CASE SilentChange \/ LeaseLapses \/ HeartbeatsMissed \/ Reap \/ UNCHANGED vars
  BY <1>1, <1>17 DEF SilentChange, LeaseLapses, HeartbeatsMissed, LeaseEnds, Reap, vars
<1> QED
  BY <1>4, <1>5, <1>6, <1>7, <1>8, <1>9, <1>11, <1>13, <1>14, <1>15, <1>16, <1>17
     DEF Next, Advance

-----------------------------------------------------------------------------
(* What a step may do to the job row, its slot and the tasks bound to it.  *)

SlotsOK == slots \in [IF Counted THEN {"space"} ELSE {} -> Nat] /\ CounterMatches

\* A new row asks for every event there is and leaves no task bound.
NewRow ==
    \E held \in BOOLEAN :
        /\ job' = Queued(head', held) /\ (held => Counted)
        /\ \A t \in Tasks : task'[t] \in {Idle, [Idle EXCEPT !.phase = "orphan"]}
        /\ SlotsOK'

\* The active row is told of a newer event, or of none.
RaisedRow == /\ job.status \in Active /\ job' = [job EXCEPT !.trigger = head']
             /\ UNCHANGED <<slots, task>>

KeptRow == UNCHANGED <<job, slots, head>>

\* The holder ends the execution, or leaves the row to the next attempt.
EndedRow(t, status) ==
    /\ BindingOk(t) /\ task' = [task EXCEPT ![t] = Idle]
    /\ job' = [job EXCEPT !.status = status, !.live = FALSE, !.held = FALSE]
    /\ slots' = Left(slots)
    /\ head' = head
RetriedRow(t) ==
    /\ BindingOk(t) /\ task' = [task EXCEPT ![t] = Idle] /\ MayRetry /\ Requeue
    /\ head' = head

RowMoves ==
    \/ NewRow \/ RaisedRow \/ KeptRow
    \/ LeaseEnds \/ Reap
    \/ \E t \in Tasks : \/ Lease(t) \/ Begin(t) \/ RetriedRow(t)
                        \/ EndedRow(t, "failed")
                        \/ EndedRow(t, "succeeded") /\ Publish(t)

\* The slot is given back at most once, and there is one for the next row.
LEMMA LeftIsZero ==
    ASSUME SpaceInv, job.status \in Active
    PROVE  /\ Left(slots) \in [IF Counted THEN {"space"} ELSE {} -> Nat]
           /\ Counted => Left(slots)["space"] = 0
  BY Types DEF SpaceInv, CounterMatches, Left, Released

LEMMA EnqueueIsNew ==
    ASSUME SpaceInv, NEW count \in [IF Counted THEN {"space"} ELSE {} -> Nat],
           Counted => count["space"] = 0,
           NEW tasks, Enqueue(head', count, tasks)
    PROVE  NewRow
<1> DEFINE held == Counted /\ CanAcquire(count, [d \in DOMAIN count |-> 1], {"space"})
<1>1. /\ job' = Queued(head', held) /\ held \in BOOLEAN /\ (held => Counted)
      /\ slots' = IF held THEN Acquired(count, {"space"}) ELSE count
      /\ task' = Orphaned(tasks)
  BY Numbers DEF Enqueue
<1>2. \A t \in Tasks : task'[t] \in {Idle, [Idle EXCEPT !.phase = "orphan"]}
  BY <1>1 DEF Orphaned
<1>3. Counted => held
  BY DEF CanAcquire
<1>4. SlotsOK'
  <2>1. slots' \in [IF Counted THEN {"space"} ELSE {} -> Nat]
    BY <1>1 DEF Acquired
  <2>2. Counted => slots'["space"] = 1 /\ job'.held /\ job'.status = "queued"
    <3> SUFFICES ASSUME Counted
                 PROVE  slots'["space"] = 1 /\ job'.held /\ job'.status = "queued"
      OBVIOUS
    <3>1. held /\ job' = Queued(head', held) /\ slots' = Acquired(count, {"space"})
      BY <1>1, <1>3
    <3>2. slots'["space"] = 1
      BY <3>1 DEF Acquired
    <3> HIDE DEF held
    <3>3. job'.held /\ job'.status = "queued"
      BY <3>1 DEF Queued, NoJob
    <3> QED
      BY <3>2, <3>3
  <2> QED
    BY <2>1, <2>2 DEF SlotsOK, CounterMatches, Active
<1> QED
  BY <1>1, <1>2, <1>4 DEF NewRow

LEMMA TriggerIsHead ==
    ASSUME SpaceInv, job.status \in Active
    PROVE  Later(job.trigger, head) = head
  BY Types DEF SpaceInv, RowOK, Later

LEMMA EveryRowMoves ==
    ASSUME SpaceInv, [Next]_vars
    PROVE  RowMoves
<1>0. /\ slots \in [IF Counted THEN {"space"} ELSE {} -> Nat]
      /\ job \in Jobs /\ head \in Nat
      /\ job.status \in Active => job.trigger = head
      /\ job.status \notin Active /\ Counted => slots["space"] = 0
  BY Types, Numbers DEF SpaceInv, RowOK, CounterMatches
<1>1. CASE Event
  <2>1. head' = head + 1 /\ Schedule(head')
    BY <1>1 DEF Event
  <2>2. CASE job.status \in Active
    <3>1. Later(job.trigger, head') = head'
      BY <1>0, <2>1, <2>2 DEF Later
    <3> QED
      BY <2>1, <2>2, <3>1 DEF Schedule, Raise, RowMoves, RaisedRow
  <2>3. CASE job.status \notin Active
    <3>1. job' = Queued(head', FALSE) /\ task' = Orphaned(task) /\ slots' = slots
      BY <2>1, <2>3 DEF Schedule
    <3>2. SlotsOK'
      BY <1>0, <2>3, <3>1 DEF SlotsOK, CounterMatches, Queued, NoJob
    <3> QED
      BY <3>1, <3>2 DEF RowMoves, NewRow, Orphaned
  <2> QED
    BY <2>2, <2>3
<1>2. CASE ScanDue
  BY <1>0, <1>2, EnqueueIsNew DEF ScanDue, ScanWants, inputs, RowMoves
<1>3. ASSUME NEW v \in Viewers, NEW retry \in BOOLEAN, Register(v, retry) PROVE RowMoves
  <2>1. head' = head
    BY <1>3 DEF Register, inputs
  <2>2. CASE UNCHANGED <<job, slots, task>>
    BY <2>1, <2>2 DEF RowMoves, KeptRow
  <2>3. CASE job.status \in Active /\ Raise(head)
    BY <1>0, <2>1, <2>3, TriggerIsHead DEF RowMoves, RaisedRow, Raise
  <2>4. CASE job.status \notin Active /\ Enqueue(head, slots, task)
    BY <1>0, <2>1, <2>4, EnqueueIsNew DEF RowMoves
  <2> QED
    BY <1>3, <2>2, <2>3, <2>4 DEF Register
<1>4. ASSUME NEW t \in Tasks, Publish(t) PROVE RowMoves
  <2>1. BindingOk(t) /\ head' = head
    BY <1>4 DEF Publish, GenerationOk, inputs
  <2>2. job.status \in Active
    BY <2>1 DEF BindingOk, Active, Leased
  <2>3. CASE NeedsSuccessor(t)
    <3>1. Enqueue(head', Left(slots), [task EXCEPT ![t] = Idle])
      BY <1>4, <2>1, <2>2, <2>3, TriggerIsHead DEF Publish
    <3> QED
      BY <2>2, <3>1, LeftIsZero, EnqueueIsNew DEF RowMoves
  <2>4. CASE ~NeedsSuccessor(t)
    BY <1>4, <2>1, <2>4 DEF Publish, RowMoves, EndedRow
  <2> QED
    BY <2>3, <2>4
<1>5. ASSUME NEW t \in Tasks, Record(t) PROVE RowMoves
  <2>1. BindingOk(t) /\ head' = head
    BY <1>5 DEF Record, inputs
  <2>2. job.status \in Active
    BY <2>1 DEF BindingOk, Active, Leased
  <2>3. CASE Enqueue(Later(job.trigger, head), Left(slots), [task EXCEPT ![t] = Idle])
    BY <2>1, <2>2, <2>3, LeftIsZero, EnqueueIsNew, TriggerIsHead DEF RowMoves
  <2>4. CASE MayRetry /\ Requeue /\ task' = [task EXCEPT ![t] = Idle]
    BY <2>1, <2>4 DEF RowMoves, RetriedRow
  <2>5. CASE /\ job' = [job EXCEPT !.status = "failed", !.live = FALSE, !.held = FALSE]
             /\ slots' = Left(slots) /\ task' = [task EXCEPT ![t] = Idle]
    BY <2>1, <2>5 DEF RowMoves, EndedRow
  <2> QED
    BY <1>5, <2>3, <2>4, <2>5 DEF Record
<1>6. CASE SilentChange \/ Crash \/ UNCHANGED vars
  BY <1>6 DEF SilentChange, Crash, vars, inputs, RowMoves, KeptRow
<1>7. CASE LeaseLapses \/ HeartbeatsMissed \/ Reap
  BY <1>7 DEF LeaseLapses, HeartbeatsMissed, RowMoves
<1>8. ASSUME NEW t \in Tasks, Lease(t) \/ Begin(t) PROVE RowMoves
  BY <1>8 DEF RowMoves
<1>9. ASSUME NEW t \in Tasks,
             \/ Snapshot(t) \/ Create(t) \/ Prepare(t) \/ InputChanged(t) \/ GiveUp(t)
             \/ RecordFails(t) \/ (\E error \in {"transient", "fatal"} : Fail(t, error))
             \/ \E v \in Viewers : Pick(t, v) \/ Stage(t, v) \/ Complete(t, v)
                                   \/ TargetFails(t, v)
      PROVE  RowMoves
  BY <1>9 DEF Snapshot, Create, Prepare, InputChanged, GiveUp, RecordFails, Fail, Pick,
     Stage, Complete, TargetFails, inputs, RowMoves, KeptRow
<1> QED
  BY <1>1, <1>2, <1>3, <1>4, <1>5, <1>6, <1>7, <1>8, <1>9 DEF Next, Advance

-----------------------------------------------------------------------------
(* The inputs, the row and its slot.                                       *)

\* The inputs only move on, and members come and go with a version.
LEMMA InputsMove ==
    ASSUME SpaceInv, [Next]_vars
    PROVE  /\ head' \in 0..MaxEvent /\ (head' = head \/ head' = head + 1)
           /\ version' \in 1..MaxVersion /\ (version' = version \/ version' = version + 1)
           /\ members' \subseteq Viewers
           /\ version' = version => members' = members
           /\ head' = head => members' = members
           /\ faults' \in 0..MaxFaults
<1>0. /\ head \in 0..MaxEvent /\ version \in 1..MaxVersion /\ members \subseteq Viewers
      /\ faults \in 0..MaxFaults
  BY Types DEF SpaceInv
<1>1. CASE Event
  <2>1. head' = head + 1 /\ head < MaxEvent /\ faults' = faults
    BY <1>1 DEF Event
  <2>2. \/ UNCHANGED <<version, members>>
        \/ /\ version < MaxVersion /\ version' = version + 1
           /\ members' \subseteq Viewers
    BY <1>0, <1>1 DEF Event, InputsChange
  <2> QED
    BY <1>0, <2>1, <2>2, Numbers
<1>2. CASE SilentChange
  <2>1. /\ UNCHANGED <<head, members, faults>>
        /\ version < MaxVersion /\ version' = version + 1
    BY <1>2 DEF SilentChange, InputsChange
  <2> QED
    BY <1>0, <2>1, Numbers
<1>3. CASE UNCHANGED inputs /\ (faults' = faults \/ Fault)
  <2>1. UNCHANGED <<head, version, members>>
        /\ (faults' = faults \/ (faults < MaxFaults /\ faults' = faults + 1))
    BY <1>3 DEF inputs, Fault
  <2> QED
    BY <1>0, <2>1, Numbers
<1>4. Event \/ SilentChange \/ (UNCHANGED inputs /\ (faults' = faults \/ Fault))
  <2>1. ASSUME NEW t \in Tasks, Advance(t) PROVE UNCHANGED <<inputs, faults>>
    BY <2>1 DEF Advance, Begin, Snapshot, Create, Prepare, Publish, Pick, Stage, Complete,
       InputChanged, Record, GiveUp
  <2>2. ASSUME NEW t \in Tasks,
               \/ Lease(t) \/ RecordFails(t)
               \/ \E error \in {"transient", "fatal"} : Fail(t, error)
               \/ \E v \in Viewers : TargetFails(t, v)
        PROVE  UNCHANGED inputs /\ (faults' = faults \/ Fault)
    BY <2>2 DEF Lease, RecordFails, Fail, TargetFails
  <2>3. ScanDue \/ (\E v \in Viewers, retry \in BOOLEAN : Register(v, retry))
        \/ LeaseLapses \/ HeartbeatsMissed \/ Reap \/ Crash \/ UNCHANGED vars
          => UNCHANGED inputs /\ (faults' = faults \/ Fault)
    BY DEF ScanDue, Register, LeaseLapses, HeartbeatsMissed, LeaseEnds, Reap, Crash, vars
  <2> QED
    BY <2>1, <2>2, <2>3 DEF Next
<1> QED
  BY <1>1, <1>2, <1>3, <1>4

LEMMA RowTyped ==
    ASSUME SpaceInv, [Next]_vars
    PROVE  job' \in Jobs /\ SlotsOK' /\ (job'.held => Counted)
<1>0. /\ job \in Jobs /\ SlotsOK /\ (job.held => Counted) /\ head' \in 0..MaxEvent
      /\ job.status = "queued" => job.attempt < MaxAttempts
  BY Types, InputsMove DEF SpaceInv, SlotsOK, RowOK
<1>1. CASE NewRow
  <2>1. PICK held \in BOOLEAN : job' = Queued(head', held) /\ (held => Counted)
    BY <1>1 DEF NewRow
  <2>2. job' = [status |-> "queued", trigger |-> head', cursor |-> 0, attempt |-> 0,
                live |-> FALSE, held |-> held]
    BY <2>1 DEF Queued, NoJob
  <2>3. job' \in Jobs /\ job'.held = held
    BY <1>0, <2>2, Numbers DEF Jobs, Statuses, Active
  <2> QED
    BY <1>1, <2>1, <2>3 DEF NewRow
<1>2. CASE RaisedRow
  <2>1. job' = [job EXCEPT !.trigger = head'] /\ slots' = slots
    BY <1>2 DEF RaisedRow
  <2>2. job' \in Jobs /\ job'.status = job.status /\ job'.held = job.held
    BY <1>0, <2>1 DEF Jobs
  <2> QED
    BY <1>0, <2>1, <2>2 DEF SlotsOK, CounterMatches
<1>3. CASE KeptRow
  BY <1>0, <1>3 DEF KeptRow, SlotsOK, CounterMatches
<1>4. CASE LeaseEnds
  <2>1. job' = [job EXCEPT !.live = FALSE] /\ slots' = slots
    BY <1>4 DEF LeaseEnds
  <2>2. job' \in Jobs /\ job'.status = job.status /\ job'.held = job.held
    BY <1>0, <2>1 DEF Jobs
  <2> QED
    BY <1>0, <2>1, <2>2 DEF SlotsOK, CounterMatches
<1>5. ASSUME NEW s \in Statuses \ Active, NEW l \in BOOLEAN, job.status \in Active,
             job' = [job EXCEPT !.status = s, !.live = l, !.held = FALSE],
             slots' = Left(slots)
      PROVE  job' \in Jobs /\ SlotsOK' /\ (job'.held => Counted)
  <2>1. job' \in Jobs /\ ~job'.held
    BY <1>0, <1>5 DEF Jobs, Statuses
  <2> QED
    BY <1>5, <2>1, LeftIsZero DEF SlotsOK, CounterMatches
<1>6. ASSUME NEW s \in Active, NEW l \in BOOLEAN, job.status \in Active,
             job' = [job EXCEPT !.status = s, !.live = l], slots' = slots
      PROVE  job' \in Jobs /\ SlotsOK' /\ (job'.held => Counted)
  <2>1. job' \in Jobs /\ job'.held = job.held /\ job'.status \in Active
    BY <1>0, <1>6 DEF Jobs, Statuses
  <2> QED
    BY <1>0, <1>6, <2>1 DEF SlotsOK, CounterMatches
<1>7. CASE Reap
  <2>1. job.status \in Active /\ job.live \in BOOLEAN
    BY <1>0, <1>7 DEF Reap, Overdue, Leased, Active, Jobs
  <2>2. CASE job' = [job EXCEPT !.status = "queued"] /\ UNCHANGED slots
    <3>1. job' = [job EXCEPT !.status = "queued", !.live = job.live]
      BY <1>0, <2>2 DEF Jobs
    <3> QED
      BY <1>6, <2>1, <2>2, <3>1 DEF Active
  <2>3. CASE job' = [job EXCEPT !.status = "expired", !.held = FALSE] /\ slots' = Left(slots)
    <3>1. job' = [job EXCEPT !.status = "expired", !.live = job.live, !.held = FALSE]
      BY <1>0, <2>3 DEF Jobs
    <3> QED
      BY <1>5, <2>1, <2>3, <3>1 DEF Active, Statuses
  <2> QED
    BY <1>7, <2>2, <2>3 DEF Reap
<1>8. ASSUME NEW t \in Tasks, Lease(t)
      PROVE  job' \in Jobs /\ SlotsOK' /\ (job'.held => Counted)
  <2>1. job.status = "queued" /\ job' = LeasedJob /\ slots' = slots
    BY <1>8 DEF Lease
  <2>2. job.attempt + 1 \in 0..MaxAttempts
    BY <1>0, <2>1, Numbers DEF Jobs
  <2>3. job' \in Jobs /\ job'.held = job.held /\ job'.status \in Active
    BY <1>0, <2>1, <2>2 DEF LeasedJob, Jobs, Statuses, Active
  <2> QED
    BY <1>0, <2>1, <2>3 DEF SlotsOK, CounterMatches, Active
<1>9. ASSUME NEW t \in Tasks, Begin(t)
      PROVE  job' \in Jobs /\ SlotsOK' /\ (job'.held => Counted)
  <2>1. /\ job.status \in Active /\ job.live \in BOOLEAN
        /\ job' = [job EXCEPT !.status = "running"] /\ slots' = slots
    BY <1>0, <1>9 DEF Begin, BindingOk, Leased, Active, Jobs
  <2>2. job' = [job EXCEPT !.status = "running", !.live = job.live]
    BY <1>0, <2>1 DEF Jobs
  <2> QED
    BY <1>6, <2>1, <2>2 DEF Active
<1>10. ASSUME NEW t \in Tasks, NEW s \in {"failed", "succeeded"}, EndedRow(t, s)
       PROVE  job' \in Jobs /\ SlotsOK' /\ (job'.held => Counted)
  <2>1. job.status \in Active
    BY <1>10 DEF EndedRow, BindingOk, Leased, Active
  <2> QED
    BY <1>5, <1>10, <2>1 DEF EndedRow, Statuses, Active
<1>11. ASSUME NEW t \in Tasks, RetriedRow(t)
       PROVE  job' \in Jobs /\ SlotsOK' /\ (job'.held => Counted)
  <2>1. job.status \in Active
    BY <1>11 DEF RetriedRow, BindingOk, Leased, Active
  <2> QED
    BY <1>6, <1>11, <2>1 DEF RetriedRow, Requeue, Active
<1> QED
  BY <1>1, <1>2, <1>3, <1>4, <1>7, <1>8, <1>9, <1>10, <1>11, EveryRowMoves DEF RowMoves

-----------------------------------------------------------------------------
(* What a step may do to the generation, the publication and the demands.  *)

GenMoves ==
    \/ gen' = gen
    \/ \E s \in {"published", "superseded", "failed"} : gen' = [gen EXCEPT !.status = s]
    \/ \E t \in Tasks : Create(t)
    \/ \E t \in Tasks, v \in Viewers : Stage(t, v) \/ Complete(t, v) \/ TargetFails(t, v)

LEMMA EveryGenMoves ==
    ASSUME [Next]_vars
    PROVE  GenMoves
<1>1. ASSUME NEW t \in Tasks, Advance(t) PROVE GenMoves
  <2>1. CASE Create(t) \/ \E v \in Viewers : Stage(t, v) \/ Complete(t, v)
    BY <2>1 DEF GenMoves
  <2>2. CASE Publish(t) \/ Record(t)
    BY <2>2 DEF GenMoves, Publish, Record
  <2>3. CASE \/ Begin(t) \/ Snapshot(t) \/ Prepare(t) \/ InputChanged(t) \/ GiveUp(t)
             \/ \E v \in Viewers : Pick(t, v)
    BY <2>3 DEF GenMoves, Begin, Snapshot, Prepare, InputChanged, GiveUp, Pick, results
  <2> QED
    BY <1>1, <2>1, <2>2, <2>3 DEF Advance
<1>2. ASSUME NEW t \in Tasks,
             Lease(t) \/ RecordFails(t) \/ \E error \in {"transient", "fatal"} : Fail(t, error)
      PROVE  GenMoves
  BY <1>2 DEF GenMoves, Lease, RecordFails, Fail, results
<1>3. CASE \/ Event \/ SilentChange \/ ScanDue
           \/ (\E v \in Viewers, retry \in BOOLEAN : Register(v, retry))
           \/ LeaseLapses \/ HeartbeatsMissed \/ Reap \/ Crash \/ UNCHANGED vars
  BY <1>3 DEF GenMoves, Event, SilentChange, ScanDue, Register, LeaseLapses, HeartbeatsMissed,
     LeaseEnds, Reap, Crash, vars, results
<1> QED
  BY <1>1, <1>2, <1>3 DEF Next, GenMoves

\* Only a publication moves the cursor that is done, or switches what readers see.
LEMMA OnlyPublish ==
    ASSUME [Next]_vars
    PROVE  \/ UNCHANGED <<done, publication, demand>>
           \/ UNCHANGED <<done, publication>> /\ \E v \in Viewers, retry \in BOOLEAN :
                                                     Register(v, retry)
           \/ \E t \in Tasks : Publish(t)
<1>1. ASSUME NEW t \in Tasks, Advance(t) PROVE UNCHANGED <<done, publication, demand>> \/ Publish(t)
  BY <1>1 DEF Advance, Begin, Snapshot, Create, Prepare, Pick, Stage, Complete,
     InputChanged, Record, GiveUp, results
<1>2. ASSUME NEW t \in Tasks,
             \/ Lease(t) \/ RecordFails(t)
             \/ \E error \in {"transient", "fatal"} : Fail(t, error)
             \/ \E v \in Viewers : TargetFails(t, v)
      PROVE  UNCHANGED <<done, publication, demand>>
  BY <1>2 DEF Lease, RecordFails, Fail, TargetFails, results
<1>3. ASSUME NEW v \in Viewers, NEW retry \in BOOLEAN, Register(v, retry)
      PROVE  UNCHANGED <<done, publication>>
  BY <1>3 DEF Register
<1>4. Event \/ SilentChange \/ ScanDue \/ LeaseLapses \/ HeartbeatsMissed \/ Reap \/ Crash
      \/ UNCHANGED vars => UNCHANGED <<done, publication, demand>>
  BY DEF Event, SilentChange, ScanDue, LeaseLapses, HeartbeatsMissed, LeaseEnds, Reap, Crash,
     vars, results
<1> QED
  BY <1>1, <1>2, <1>3, <1>4 DEF Next

LEMMA GenTyped ==
    ASSUME SpaceInv, [Next]_vars
    PROVE  gen' \in Generations
<1>0. /\ gen \in Generations /\ task \in [Tasks -> States] /\ version \in Versions
      /\ cached \in [Viewers -> Versions]
  BY Types, Numbers DEF SpaceInv, Versions
<1>1. ASSUME NEW s \in {"published", "superseded", "failed"}, gen' = [gen EXCEPT !.status = s]
      PROVE  gen' \in Generations
  BY <1>0, <1>1 DEF Generations
<1>2. ASSUME NEW t \in Tasks, Create(t) PROVE gen' \in Generations
  <2>1. gen' = [status |-> "running", attempt |-> task[t].attempt, version |-> version,
                required |-> task[t].viewers, view |-> [v \in Viewers |-> "none"],
                asked |-> Zero, built |-> Zero]
    BY <1>2 DEF Create, NoGeneration
  <2>2. task[t].attempt \in 0..MaxAttempts /\ task[t].viewers \in SUBSET Viewers
    BY <1>0 DEF States
  <2>3. Zero \in [Viewers -> Revisions] /\ Zero \in [Viewers -> Versions]
        /\ [v \in Viewers |-> "none"] \in [Viewers -> Views]
    BY Numbers DEF Zero, Revisions, Versions, Views
  <2> QED
    BY <1>0, <2>1, <2>2, <2>3 DEF Generations
<1>3. ASSUME NEW t \in Tasks, NEW v \in Viewers, Stage(t, v) PROVE gen' \in Generations
  <2>1. PICK status \in {"pending", "ready"}, from \in {cached[v], task[t].version} :
          gen' = [gen EXCEPT !.view[v] = status, !.asked[v] = task[t].seen, !.built[v] = from]
    BY <1>3 DEF Stage, Serves
  <2>2. from \in Versions /\ task[t].seen \in Revisions /\ status \in Views
    BY <1>0 DEF States, Views
  <2> QED
    BY <1>0, <2>1, <2>2 DEF Generations
<1>4. ASSUME NEW t \in Tasks, NEW v \in Viewers, Complete(t, v) \/ TargetFails(t, v)
      PROVE  gen' \in Generations
  <2>1. PICK status \in Views : gen' = [gen EXCEPT !.view[v] = status]
    BY <1>4 DEF Complete, TargetFails, Views
  <2> QED
    BY <1>0, <2>1 DEF Generations
<1> QED
  BY <1>0, <1>1, <1>2, <1>3, <1>4, EveryGenMoves DEF GenMoves

LEMMA CachedTyped ==
    ASSUME SpaceInv, [Next]_vars
    PROVE  cached' \in [Viewers -> Versions]
<1>0. /\ gen \in Generations /\ task \in [Tasks -> States] /\ 0 \in Versions
      /\ cached \in [Viewers -> Versions]
  BY Types, Numbers DEF SpaceInv, Versions
<1>1. ASSUME NEW v \in Viewers, NEW n \in Versions, cached' = [cached EXCEPT ![v] = n]
      PROVE  cached' \in [Viewers -> Versions]
  BY <1>0, <1>1
<1>2. ASSUME NEW t \in Tasks, NEW v \in Viewers, Stage(t, v)
      PROVE  cached' \in [Viewers -> Versions]
  <2>1. PICK n \in {cached[v], task[t].version, 0} : cached' = [cached EXCEPT ![v] = n]
    BY <1>2 DEF Stage
  <2>2. n \in Versions
    BY <1>0 DEF States
  <2> QED
    BY <1>1, <2>1, <2>2
<1>3. ASSUME NEW t \in Tasks, NEW v \in Viewers, Complete(t, v)
      PROVE  cached' \in [Viewers -> Versions]
  <2>1. gen.built[v] \in Versions
    BY <1>0 DEF Generations
  <2> QED
    BY <1>1, <1>3, <2>1 DEF Complete
<1>4. \/ cached' = cached
      \/ \E t \in Tasks, v \in Viewers : Stage(t, v) \/ Complete(t, v)
  <2>1. ASSUME NEW t \in Tasks, Advance(t)
        PROVE  cached' = cached \/ \E v \in Viewers : Stage(t, v) \/ Complete(t, v)
    BY <2>1 DEF Advance, Begin, Snapshot, Create, Prepare, Pick, Publish, InputChanged,
       Record, GiveUp, results
  <2>2. ASSUME NEW t \in Tasks,
               \/ Lease(t) \/ RecordFails(t)
               \/ \E error \in {"transient", "fatal"} : Fail(t, error)
               \/ \E v \in Viewers : TargetFails(t, v)
        PROVE  cached' = cached
    BY <2>2 DEF Lease, RecordFails, Fail, TargetFails, results
  <2>3. ASSUME \/ Event \/ SilentChange \/ ScanDue
               \/ \E v \in Viewers, retry \in BOOLEAN : Register(v, retry)
               \/ LeaseLapses \/ HeartbeatsMissed \/ Reap \/ Crash \/ UNCHANGED vars
        PROVE  cached' = cached
    BY <2>3 DEF Event, SilentChange, ScanDue, Register, LeaseLapses, HeartbeatsMissed, LeaseEnds,
       Reap, Crash, vars, results
  <2> QED
    BY <2>1, <2>2, <2>3 DEF Next
<1> QED
  BY <1>0, <1>2, <1>3, <1>4

LEMMA ResultsTyped ==
    ASSUME SpaceInv, [Next]_vars
    PROVE  done' \in 0..head' /\ publication' \in Publications /\ demand' \in Demands
<1> DEFINE Goal == done' \in 0..head' /\ publication' \in Publications /\ demand' \in Demands
<1>0. /\ gen \in Generations /\ task \in [Tasks -> States] /\ demand \in Demands
      /\ publication \in Publications /\ done \in 0..head /\ head \in 0..MaxEvent
      /\ (head' = head \/ head' = head + 1)
  BY Types, InputsMove DEF SpaceInv
<1>1. UNCHANGED done => done' \in 0..head'
  <2>1. head \in Nat /\ done \in Nat /\ done <= head
    BY <1>0, Numbers
  <2> QED
    BY <1>0, <2>1
<1>2. ASSUME NEW v \in Viewers, NEW retry \in BOOLEAN, Register(v, retry)
      PROVE  demand' \in Demands
  <2>1. PICK n : /\ n <= MaxRevision /\ n \in Nat
                 /\ demand' = [demand EXCEPT ![v].revision = n]
    <3>1. ASSUME NEW granted \in BOOLEAN
          PROVE  Requested(v) + (IF granted THEN 1 ELSE 0) \in Nat
      <4>1. demand[v].revision \in Nat
        BY <1>0, Numbers DEF Demands, Revisions
      <4> QED
        BY <4>1 DEF Requested
    <3> QED
      BY <1>2, <3>1 DEF Register
  <2>2. n \in Revisions
    BY <2>1, Numbers DEF Revisions
  <2> QED
    BY <1>0, <2>1, <2>2 DEF Demands
<1>3. ASSUME NEW t \in Tasks, Publish(t) PROVE Goal
  <2>1. done' \in 0..head'
    <3>1. done' \in {done, task[t].upper} /\ head' = head
      BY <1>3 DEF Publish, Reached, Later, inputs
    <3>2. task[t].upper \in 0..head
      BY <1>0, Numbers DEF SpaceInv, WindowOK, States
    <3> QED
      BY <1>0, <3>1, <3>2
  <2>2. publication' \in Publications
    BY <1>0, <1>3 DEF Publish, Publications, Generations
  <2>3. ASSUME NEW v \in Viewers PROVE Fulfilled(v) \in Revisions
    <3>1. /\ gen.asked[v] \in Revisions /\ demand[v].revision \in Revisions
          /\ demand[v].fulfilled \in Revisions
      BY <1>0 DEF Generations, Demands
    <3> QED
      BY <3>1 DEF Fulfilled, Later
  <2>4. demand' \in Demands
    <3>1. demand' = [v \in Viewers |-> [demand[v] EXCEPT !.fulfilled = Fulfilled(v)]]
      BY <1>3 DEF Publish
    <3>2. ASSUME NEW v \in Viewers
          PROVE  [demand[v] EXCEPT !.fulfilled = Fulfilled(v)]
                   \in [revision : Revisions, fulfilled : Revisions]
      BY <1>0, <2>3 DEF Demands
    <3> QED
      BY <3>1, <3>2 DEF Demands
  <2> QED
    BY <2>1, <2>2, <2>4
<1> QED
  BY <1>0, <1>1, <1>2, <1>3, OnlyPublish

LEMMA TypeStep ==
    ASSUME SpaceInv, [Next]_vars
    PROVE  TypeOK' /\ CounterMatches'
<1>1. /\ head' \in 0..MaxEvent /\ version' \in 1..MaxVersion /\ members' \subseteq Viewers
      /\ faults' \in 0..MaxFaults
  BY InputsMove
<1>2. job' \in Jobs /\ slots' \in [IF Counted THEN {"space"} ELSE {} -> Nat] /\ CounterMatches'
  BY RowTyped DEF SlotsOK
<1> QED
  BY <1>1, <1>2, TasksTyped, GenTyped, CachedTyped, ResultsTyped DEF TypeOK, Statuses, Jobs,
     Generations, Publications, Demands, Errors, States

-----------------------------------------------------------------------------
(* The fence of the lease.                                                 *)

\* The life of a task.
Failed(t) ==
    /\ Bound(t) /\ task'[t].phase \in {"failing", "rethrown"} /\ task'[t].pick = {}
    /\ task'[t].attempt = task[t].attempt /\ task'[t].upper = task[t].upper
    /\ task'[t].version = task[t].version

TaskMoves(t) ==
    \/ task'[t] = task[t]
    \/ task'[t] \in {Idle, [Idle EXCEPT !.phase = "orphan"]}
    \/ Lease(t) \/ Begin(t) \/ Snapshot(t) \/ Create(t) \/ Prepare(t)
    \/ \E v \in Viewers : Pick(t, v) \/ Stage(t, v)
    \/ Failed(t)

LEMMA EveryTaskMoves ==
    ASSUME SpaceInv, [Next]_vars, NEW t \in Tasks
    PROVE  TaskMoves(t)
<1>0. task \in [Tasks -> States]
  BY Types DEF SpaceInv
<1>1. ASSUME UNCHANGED task PROVE TaskMoves(t)
  BY <1>1 DEF TaskMoves
<1>2. ASSUME NEW u \in Tasks, NEW r, task' = [task EXCEPT ![u] = r], u # t PROVE TaskMoves(t)
  BY <1>0, <1>2 DEF TaskMoves
<1>3. ASSUME NEW tasks, task' = Orphaned(tasks) PROVE TaskMoves(t)
  BY <1>3 DEF TaskMoves, Orphaned
<1>4. ASSUME NEW n, NEW count, NEW tasks, Enqueue(n, count, tasks) PROVE TaskMoves(t)
  BY <1>3, <1>4 DEF Enqueue
<1>5. ASSUME NEW u \in Tasks, task' = [task EXCEPT ![u] = Idle] PROVE TaskMoves(t)
  BY <1>0, <1>5 DEF TaskMoves
<1>6. ASSUME NEW u \in Tasks, NEW error, Failing(u, error), Bound(u) PROVE TaskMoves(t)
  <2>1. CASE u = t
    <3>1. Failed(t)
      BY <1>0, <1>6, <2>1 DEF Failing, Failed, States
    <3> QED
      BY <3>1 DEF TaskMoves
  <2>2. CASE u # t
    BY <1>0, <1>6, <2>2 DEF Failing, TaskMoves
  <2> QED
    BY <2>1, <2>2
<1>7. CASE Event \/ ScanDue \/ Crash
  BY <1>0, <1>1, <1>3, <1>4, <1>7 DEF Event, Schedule, Raise, ScanDue, Crash, TaskMoves
<1>8. ASSUME NEW v \in Viewers, NEW retry \in BOOLEAN, Register(v, retry) PROVE TaskMoves(t)
  BY <1>1, <1>4, <1>8 DEF Register, Raise
<1>9. ASSUME NEW u \in Tasks,
             \/ Lease(u) \/ Begin(u) \/ Snapshot(u) \/ Create(u) \/ Prepare(u)
             \/ \E v \in Viewers : Pick(u, v) \/ Stage(u, v)
      PROVE  TaskMoves(t)
  <2>1. CASE u = t
    BY <1>9, <2>1 DEF TaskMoves
  <2>2. CASE u # t
    <3>1. task'[t] = task[t]
      BY <1>0, <1>9, <2>2 DEF Lease, Begin, Snapshot, Create, Prepare, Step, Pick, Stage
    <3> QED
      BY <3>1 DEF TaskMoves
  <2> QED
    BY <2>1, <2>2
<1>10. ASSUME NEW u \in Tasks,
              \/ InputChanged(u) \/ \E error \in {"transient", "fatal"} : Fail(u, error)
              \/ \E v \in Viewers : TargetFails(u, v)
       PROVE  TaskMoves(t)
  BY <1>6, <1>10 DEF InputChanged, Fail, TargetFails, Working, Bound
<1>11. ASSUME NEW u \in Tasks, Publish(u) \/ Record(u) \/ GiveUp(u) PROVE TaskMoves(t)
  BY <1>4, <1>5, <1>11 DEF Publish, Record, GiveUp
<1>12. ASSUME NEW u \in Tasks, RecordFails(u) PROVE TaskMoves(t)
  <2>1. CASE u # t
    BY <1>0, <1>12, <2>1 DEF RecordFails, TaskMoves
  <2>2. CASE u = t /\ task[t].phase = "rethrown"
    BY <1>0, <1>12, <2>2 DEF RecordFails, TaskMoves
  <2>3. CASE u = t /\ task[t].phase # "rethrown"
    <3>1. /\ task[t].phase = "failing"
          /\ task'[t] = [task[t] EXCEPT !.phase = "rethrown", !.error = LaterError(t)]
      BY <1>0, <1>12, <2>3 DEF RecordFails
    <3>2. task[t].pick = {}
      BY <3>1 DEF SpaceInv, InputsOK
    <3>3. Failed(t)
      BY <1>0, <3>1, <3>2 DEF Failed, Bound, States
    <3> QED
      BY <3>3 DEF TaskMoves
  <2> QED
    BY <2>1, <2>2, <2>3
<1>13. CASE \/ SilentChange \/ LeaseLapses \/ HeartbeatsMissed \/ Reap \/ UNCHANGED vars
            \/ \E u \in Tasks, v \in Viewers : Complete(u, v)
  BY <1>1, <1>13 DEF SilentChange, LeaseLapses, HeartbeatsMissed, LeaseEnds, Reap, Complete,
     vars
<1> QED
  BY <1>7, <1>8, <1>9, <1>10, <1>11, <1>12, <1>13 DEF Next, Advance

\* What the steps of a task leave in it.
LEMMA PickedTask ==
    ASSUME SpaceInv, NEW t \in Tasks, NEW v \in Viewers, Pick(t, v) \/ Stage(t, v)
    PROVE  /\ task[t].phase = "building" /\ task'[t].phase = "building"
           /\ task'[t].attempt = task[t].attempt /\ task'[t].upper = task[t].upper
           /\ task'[t].floor = task[t].floor /\ task'[t].version = task[t].version
<1>0. task \in [Tasks -> States]
  BY Types DEF SpaceInv
<1>1. task[t].phase = "building"
  BY DEF SpaceInv, InputsOK, Pick, Stage
<1>2. PICK p, n : task' = [task EXCEPT ![t].pick = p, ![t].seen = n]
  BY DEF Pick, Stage
<1> QED
  BY <1>0, <1>1, <1>2 DEF States

LEMMA SteppedTask ==
    ASSUME SpaceInv, NEW t \in Tasks, Create(t) \/ Prepare(t)
    PROVE  /\ \/ task[t].phase = "snapped" /\ task'[t].phase = "building"
              \/ task[t].phase = "building" /\ task'[t].phase = "prepared"
           /\ task'[t].attempt = task[t].attempt /\ task'[t].upper = task[t].upper
           /\ task'[t].floor = task[t].floor /\ task'[t].version = task[t].version
           /\ task'[t].pick = task[t].pick
<1>0. task \in [Tasks -> States]
  BY Types DEF SpaceInv
<1> QED
  BY <1>0 DEF Create, Prepare, Step, States

LEMMA ReadTask ==
    ASSUME SpaceInv, NEW t \in Tasks, Begin(t) \/ Snapshot(t)
    PROVE  /\ Bound(t) /\ task'[t].attempt = task[t].attempt
           /\ task'[t].pick = task[t].pick
           /\ \/ /\ task'[t].phase = "begun" /\ task'[t].version = task[t].version
                 /\ task'[t].upper = IF job.trigger < job.cursor THEN job.trigger
                                     ELSE job.cursor
              \/ /\ task'[t].phase = "snapped" /\ task'[t].version = version
                 /\ task'[t].floor = done /\ task'[t].viewers = members
                 /\ task'[t].upper = task[t].upper
                 /\ UNCHANGED <<version, members, done>>
<1>0. task \in [Tasks -> States]
  BY Types DEF SpaceInv
<1> QED
  BY <1>0 DEF Begin, Snapshot, States, Bound, inputs, results

\* A task is bound by a lease and stays of its attempt.
LEMMA BoundMoves ==
    ASSUME SpaceInv, [Next]_vars, NEW t \in Tasks, Bound(t)'
    PROVE  \/ Bound(t) /\ task'[t].attempt = task[t].attempt
           \/ Lease(t)
<1>1. task'[t].phase \notin {"idle", "orphan"}
  BY DEF Bound
<1>2. task'[t] # Idle /\ task'[t] # [Idle EXCEPT !.phase = "orphan"]
  BY <1>1 DEF Idle
<1>3. TaskMoves(t)
  BY EveryTaskMoves
<1>4. ASSUME NEW v \in Viewers, Pick(t, v) \/ Stage(t, v)
      PROVE  Bound(t) /\ task'[t].attempt = task[t].attempt
  BY <1>4, PickedTask DEF Bound
<1>5. ASSUME Create(t) \/ Prepare(t) PROVE Bound(t) /\ task'[t].attempt = task[t].attempt
  BY <1>5, SteppedTask DEF Bound
<1>6. ASSUME Begin(t) \/ Snapshot(t) PROVE Bound(t) /\ task'[t].attempt = task[t].attempt
  BY <1>6, ReadTask
<1> QED
  BY <1>1, <1>2, <1>3, <1>4, <1>5, <1>6 DEF TaskMoves, Failed, Bound

\* The attempt of a row only rises, by a lease.
LEMMA AttemptMoves ==
    ASSUME SpaceInv, [Next]_vars
    PROVE  \/ NewRow
           \/ job'.attempt = job.attempt /\ \A t \in Tasks : ~Lease(t)
           \/ job'.attempt = job.attempt + 1 /\ \E t \in Tasks : Lease(t)
<1>0. job \in Jobs
  BY Types DEF SpaceInv
<1>1. ASSUME NEW t \in Tasks, Lease(t) PROVE job'.attempt = job.attempt + 1
  BY <1>0, <1>1 DEF Lease, LeasedJob, Jobs
<1>2. CASE RaisedRow \/ KeptRow \/ LeaseEnds \/ Reap
  BY <1>0, <1>1, <1>2 DEF RaisedRow, KeptRow, LeaseEnds, Reap, Jobs
<1>3. ASSUME NEW t \in Tasks,
             Begin(t) \/ RetriedRow(t) \/ EndedRow(t, "failed") \/ EndedRow(t, "succeeded")
      PROVE  job'.attempt = job.attempt
  BY <1>0, <1>3 DEF Begin, RetriedRow, Requeue, EndedRow, Jobs
<1> QED
  BY <1>1, <1>2, <1>3, EveryRowMoves DEF RowMoves

\* A generation runs only as long as the lease of its attempt is not taken back.
LEMMA RunningStays ==
    ASSUME SpaceInv, [Next]_vars, gen'.status = "running"
    PROVE  job'.status \in Leased /\ gen'.attempt = job'.attempt
<1> DEFINE Goal == job'.status \in Leased /\ gen'.attempt = job'.attempt
<1>0. /\ task \in [Tasks -> States] /\ job \in Jobs /\ gen \in Generations
      /\ gen.status = "running" => job.status \in Leased /\ gen.attempt = job.attempt
  BY Types DEF SpaceInv, FenceOK
<1>1. ASSUME NEW t \in Tasks, Create(t) PROVE Goal
  BY <1>0, <1>1 DEF Create, BindingOk, NoGeneration
<1>2. ASSUME UNCHANGED <<gen, job>> PROVE Goal
  BY <1>0, <1>2
<1>3. ASSUME NEW n, job.status \in Active, job' = [job EXCEPT !.trigger = n], UNCHANGED gen
      PROVE  Goal
  BY <1>0, <1>3 DEF Jobs
<1>4. ASSUME job.status \notin Leased, UNCHANGED gen PROVE FALSE
  BY <1>0, <1>4
<1>5. CASE Event \/ ScanDue
  <2>1. UNCHANGED gen
    BY <1>5 DEF Event, ScanDue, results
  <2>2. job.status \in Active
    BY <1>4, <2>1 DEF Active, Leased
  <2>3. Raise(head + 1)
    BY <1>5, <2>2 DEF Event, Schedule, ScanDue, ScanWants
  <2> QED
    BY <1>3, <2>1, <2>2, <2>3 DEF Raise
<1>6. ASSUME NEW v \in Viewers, NEW retry \in BOOLEAN, Register(v, retry) PROVE Goal
  BY <1>2, <1>3, <1>4, <1>6 DEF Register, Raise, Active, Leased
<1>7. ASSUME NEW t \in Tasks, Lease(t) PROVE Goal
  BY <1>4, <1>7 DEF Lease, Leased, results
<1>8. ASSUME NEW t \in Tasks, Begin(t) PROVE Goal
  BY <1>0, <1>8 DEF Begin, results, Leased, Jobs
<1>9. ASSUME NEW t \in Tasks, NEW v \in Viewers,
             Stage(t, v) \/ Complete(t, v) \/ TargetFails(t, v)
      PROVE  Goal
  BY <1>0, <1>9 DEF Stage, Complete, TargetFails, Generations
<1>10. ASSUME NEW t \in Tasks, Publish(t) PROVE FALSE
  BY <1>0, <1>10 DEF Publish, Generations
<1>11. ASSUME NEW t \in Tasks, Record(t) PROVE FALSE
  <2>1. BindingOk(t) /\ (OwnGeneration(t) => gen'.status # "running")
        /\ (~OwnGeneration(t) => gen' = gen)
    BY <1>0, <1>11 DEF Record, Generations
  <2> QED
    BY <1>0, <2>1 DEF BindingOk, OwnGeneration
<1>12. CASE Reap
  BY <1>0, <1>12 DEF Reap, Generations
<1>13. CASE LeaseLapses \/ HeartbeatsMissed
  BY <1>0, <1>13 DEF LeaseLapses, HeartbeatsMissed, LeaseEnds, results, Jobs
<1>14. ASSUME NEW t \in Tasks,
              \/ Snapshot(t) \/ Prepare(t) \/ InputChanged(t) \/ GiveUp(t) \/ RecordFails(t)
              \/ \E error \in {"transient", "fatal"} : Fail(t, error)
              \/ \E v \in Viewers : Pick(t, v)
       PROVE  Goal
  BY <1>2, <1>14 DEF Snapshot, Prepare, InputChanged, GiveUp, RecordFails, Fail, Pick, results
<1>15. CASE SilentChange \/ Crash \/ UNCHANGED vars
  BY <1>2, <1>15 DEF SilentChange, Crash, vars, results
<1> QED
  BY <1>1, <1>5, <1>6, <1>7, <1>8, <1>9, <1>10, <1>11, <1>12, <1>13, <1>14, <1>15
     DEF Next, Advance

LEMMA FenceStep ==
    ASSUME SpaceInv, [Next]_vars
    PROVE  FenceOK'
<1>0. /\ task \in [Tasks -> States] /\ job \in Jobs /\ job.attempt \in Nat
      /\ \A t \in Tasks : task[t].attempt \in Nat
      /\ \A t \in Tasks : Bound(t) => task[t].attempt <= job.attempt
      /\ \A t, u \in Tasks :
           Bound(t) /\ Bound(u) /\ task[t].attempt = task[u].attempt => t = u
  BY Types, Numbers DEF SpaceInv, FenceOK, States, Jobs
<1>1. ASSUME NEW t \in Tasks, Lease(t)
      PROVE  /\ task'[t].attempt = job.attempt + 1 /\ job'.attempt = job.attempt + 1
             /\ \A u \in Tasks \ {t} : task'[u] = task[u]
  BY <1>0, <1>1 DEF Lease, LeasedJob, Jobs, Idle
<1>2. ASSUME NewRow, NEW t \in Tasks PROVE ~Bound(t)'
  BY <1>2 DEF NewRow, Bound, Idle
<1>3. ASSUME NEW t \in Tasks, Bound(t)' PROVE task'[t].attempt <= job'.attempt
  <2>1. CASE Lease(t)
    BY <1>0, <1>1, <2>1
  <2>2. CASE Bound(t) /\ task'[t].attempt = task[t].attempt
    <3>1. job'.attempt = job.attempt \/ job'.attempt = job.attempt + 1
      BY <1>2, <1>3, AttemptMoves
    <3> QED
      BY <1>0, <2>2, <3>1
  <2> QED
    BY <1>3, <2>1, <2>2, BoundMoves
<1>4. ASSUME NEW t \in Tasks, NEW u \in Tasks, Bound(t)', Bound(u)',
             task'[t].attempt = task'[u].attempt, t # u
      PROVE  FALSE
  <2>1. ASSUME NEW x \in Tasks, NEW y \in Tasks, x # y, Lease(x), Bound(y)',
               task'[x].attempt = task'[y].attempt
        PROVE  FALSE
    <3>1. task'[y] = task[y] /\ task'[x].attempt = job.attempt + 1
      BY <1>1, <2>1
    <3>2. Bound(y)
      BY <2>1, <3>1 DEF Bound
    <3> QED
      BY <1>0, <2>1, <3>1, <3>2
  <2>2. CASE ~Lease(t) /\ ~Lease(u)
    BY <1>0, <1>4, <2>2, BoundMoves
  <2> QED
    BY <1>4, <2>1, <2>2
<1> QED
  BY <1>3, <1>4, RunningStays DEF FenceOK

-----------------------------------------------------------------------------
(* The windows of executions.                                              *)

LEMMA LeasedTask ==
    ASSUME SpaceInv, NEW t \in Tasks, Lease(t)
    PROVE  /\ task'[t].phase = "launched" /\ task'[t].upper = 0 /\ task'[t].version = 0
           /\ task'[t].pick = {}
  BY Types DEF SpaceInv, Lease, Idle

LEMMA UpperStep ==
    ASSUME SpaceInv, [Next]_vars, NEW t \in Tasks
    PROVE  task'[t].upper <= head'
<1>0. /\ head \in Nat /\ job \in Jobs /\ job.trigger \in Nat /\ job.cursor \in Nat
      /\ task \in [Tasks -> States] /\ task[t].upper \in Nat /\ task[t].upper <= head
      /\ job.trigger <= head
      /\ (head' = head \/ head' = head + 1)
  BY Types, Numbers, InputsMove DEF SpaceInv, WindowOK, RowOK, Jobs, States
<1>1. \/ task'[t].upper = task[t].upper \/ task'[t].upper = 0
      \/ task'[t].upper \in {job.trigger, job.cursor} /\ task'[t].upper <= job.trigger
  <2>1. ASSUME Begin(t) \/ Snapshot(t)
        PROVE  \/ task'[t].upper = task[t].upper
               \/ /\ task'[t].upper \in {job.trigger, job.cursor}
                  /\ task'[t].upper <= job.trigger
    BY <1>0, <2>1, ReadTask
  <2>2. ASSUME task'[t] \in {Idle, [Idle EXCEPT !.phase = "orphan"]} PROVE task'[t].upper = 0
    BY <2>2 DEF Idle
  <2>3. ASSUME NEW v \in Viewers, Pick(t, v) \/ Stage(t, v)
        PROVE  task'[t].upper = task[t].upper
    BY <2>3, PickedTask
  <2>4. ASSUME Create(t) \/ Prepare(t) PROVE task'[t].upper = task[t].upper
    BY <2>4, SteppedTask
  <2>5. ASSUME Lease(t) PROVE task'[t].upper = 0
    BY <2>5, LeasedTask
  <2> QED
    BY <2>1, <2>2, <2>3, <2>4, <2>5, EveryTaskMoves DEF TaskMoves, Failed
<1> QED
  BY <1>0, <1>1

LEMMA FloorStep ==
    ASSUME SpaceInv, [Next]_vars, NEW t \in Tasks, Reading(t)', job'.status \in Active
    PROVE  task'[t].floor = done'
<1>0. /\ Reading(t) /\ job.status \in Active => task[t].floor = done
      /\ job \in Jobs
  BY Types DEF SpaceInv, WindowOK
<1>1. task'[t].phase \in {"snapped", "building", "prepared"}
  BY DEF Reading
<1>2. ~NewRow
  BY <1>1 DEF NewRow, Idle
<1>3. job.status \in Active
  <2>1. CASE RaisedRow \/ KeptRow \/ LeaseEnds \/ Reap
    BY <1>0, <2>1 DEF RaisedRow, KeptRow, LeaseEnds, Reap, Overdue, Leased, Active
  <2>2. CASE \E u \in Tasks : \/ Lease(u) \/ Begin(u) \/ RetriedRow(u)
                             \/ EndedRow(u, "failed") \/ EndedRow(u, "succeeded")
    BY <2>2 DEF Lease, Begin, RetriedRow, EndedRow, BindingOk, Leased, Active
  <2> QED
    BY <1>2, <2>1, <2>2, EveryRowMoves DEF RowMoves
<1>4. done' = done
  <2>1. ASSUME NEW u \in Tasks, Publish(u) PROVE FALSE
    <3>1. CASE NeedsSuccessor(u)
      <4>1. task' = Orphaned([task EXCEPT ![u] = Idle])
        BY <2>1, <3>1 DEF Publish, Enqueue
      <4> QED
        BY <1>1, <4>1 DEF Orphaned, Idle
    <3>2. CASE ~NeedsSuccessor(u)
      BY <1>0, <2>1, <3>2 DEF Publish, Active, Jobs
    <3> QED
      BY <3>1, <3>2
  <2> QED
    BY <2>1, OnlyPublish
<1>5. CASE task'[t] = task[t]
  BY <1>0, <1>3, <1>4, <1>5 DEF Reading
<1>6. CASE Begin(t) \/ Snapshot(t)
  BY <1>1, <1>4, <1>6, ReadTask
<1>7. CASE Create(t) \/ Prepare(t)
  BY <1>0, <1>3, <1>4, <1>7, SteppedTask DEF Reading
<1>8. CASE \E v \in Viewers : Pick(t, v) \/ Stage(t, v)
  BY <1>0, <1>3, <1>4, <1>8, PickedTask DEF Reading
<1>9. CASE task'[t] \in {Idle, [Idle EXCEPT !.phase = "orphan"]} \/ Lease(t) \/ Failed(t)
  BY <1>1, <1>9, LeasedTask DEF Idle, Failed
<1> QED
  BY <1>5, <1>6, <1>7, <1>8, <1>9, EveryTaskMoves DEF TaskMoves

LEMMA WindowStep ==
    ASSUME SpaceInv, [Next]_vars
    PROVE  WindowOK'
  BY UpperStep, FloorStep DEF WindowOK

-----------------------------------------------------------------------------
(* What is outstanding.                                                    *)

\* Without a lease nobody touches the generation or the settled cursor.
LEMMA QuietRow ==
    ASSUME [Next]_vars, job.status \notin Leased
    PROVE  /\ UNCHANGED <<gen, done>>
           /\ demand' = demand \/ \E v \in Viewers, retry \in BOOLEAN : Register(v, retry)
<1>1. ASSUME NEW t \in Tasks PROVE ~BindingOk(t)
  BY DEF BindingOk
<1>2. ASSUME NEW t \in Tasks, Advance(t) PROVE UNCHANGED <<gen, done, demand>>
  <2>1. ~GenerationOk(t)
    BY <1>1 DEF GenerationOk
  <2> QED
    BY <1>1, <1>2, <2>1 DEF Advance, Begin, Snapshot, Create, Prepare, Publish, Pick, Stage,
       Complete, InputChanged, Record, GiveUp, results
<1>3. ASSUME NEW t \in Tasks, NEW v \in Viewers, TargetFails(t, v) PROVE FALSE
  BY <1>1, <1>3 DEF TargetFails, GenerationOk
<1>4. ASSUME NEW t \in Tasks,
             Lease(t) \/ RecordFails(t) \/ \E error \in {"transient", "fatal"} : Fail(t, error)
      PROVE  UNCHANGED <<gen, done, demand>>
  BY <1>4 DEF Lease, RecordFails, Fail, results
<1>5. ASSUME NEW v \in Viewers, NEW retry \in BOOLEAN, Register(v, retry)
      PROVE  UNCHANGED <<gen, done>>
  BY <1>5 DEF Register
<1>6. ASSUME Event \/ SilentChange \/ ScanDue \/ LeaseLapses \/ HeartbeatsMissed \/ Reap
             \/ Crash \/ UNCHANGED vars
      PROVE  UNCHANGED <<gen, done, demand>>
  BY <1>6 DEF Event, SilentChange, ScanDue, LeaseLapses, HeartbeatsMissed, LeaseEnds, Reap,
     Overdue, Crash, vars, results
<1> QED
  BY <1>2, <1>3, <1>4, <1>5, <1>6 DEF Next

\* An execution that leaves no successor has consumed every event and has served
\* every request of the members.
LEMMA NothingLeft ==
    ASSUME SpaceInv, NEW t \in Tasks, Publish(t), ~NeedsSuccessor(t)
    PROVE  /\ done' = head' /\ gen'.status = "published"
           /\ \A v \in members' : demand'[v].revision <= demand'[v].fulfilled
<1>0. /\ gen \in Generations /\ demand \in Demands /\ members \subseteq Viewers
      /\ head \in Nat /\ done \in Nat /\ done <= head
      /\ task[t].upper \in Nat /\ task[t].upper <= head /\ job.trigger \in Nat
  BY Types, Numbers DEF SpaceInv, WindowOK, States, Jobs
<1>1. UNCHANGED <<head, members>> /\ done' = Later(done, task[t].upper)
      /\ gen' = [gen EXCEPT !.status = "published"]
      /\ demand' = [v \in Viewers |-> [demand[v] EXCEPT !.fulfilled = Fulfilled(v)]]
  BY DEF Publish, Reached, inputs
<1>2. job.trigger = head
  BY DEF SpaceInv, RowOK, Publish, GenerationOk, BindingOk, Leased, Active
<1>3. ~(job.trigger > task[t].upper)
  BY DEF NeedsSuccessor, NeedsSuccessorForEvents
<1>4. done' = head
  BY <1>0, <1>1, <1>2, <1>3 DEF Later
<1>5. ASSUME NEW v \in members PROVE demand'[v].revision <= demand'[v].fulfilled
  <2>1. /\ gen.asked[v] \in Nat /\ demand[v].revision \in Nat /\ demand[v].fulfilled \in Nat
    BY <1>0, Numbers DEF Generations, Demands, Revisions
  <2>2. demand'[v].revision = demand[v].revision /\ demand'[v].fulfilled = Fulfilled(v)
    BY <1>0, <1>1 DEF Demands
  <2>3. ~(/\ demand[v].revision > Fulfilled(v)
          /\ ~(v \in gen.required /\ gen.asked[v] >= demand[v].revision))
    BY DEF NeedsSuccessor, NeedsSuccessorForDemand
  <2>4. Fulfilled(v) = IF v \in gen.required THEN Later(demand[v].fulfilled, gen.asked[v])
                       ELSE demand[v].fulfilled
    BY DEF Fulfilled
  <2>5. Fulfilled(v) \in Nat
    BY <2>1, <2>4 DEF Later
  <2>6. v \in gen.required => Fulfilled(v) >= gen.asked[v]
    BY <2>1, <2>4 DEF Later
  <2>7. demand[v].revision <= Fulfilled(v)
    BY <2>1, <2>3, <2>5, <2>6
  <2> QED
    BY <2>2, <2>7
<1> QED
  BY <1>0, <1>1, <1>4, <1>5 DEF Generations

Outstanding == job.status \in {"none", "succeeded"} =>
    /\ done = head /\ gen.status # "failed"
    /\ \A v \in members : demand[v].revision <= demand[v].fulfilled

LEMMA OutstandingStep ==
    ASSUME SpaceInv, [Next]_vars
    PROVE  Outstanding'
<1> SUFFICES ASSUME job'.status \in {"none", "succeeded"}
             PROVE  /\ done' = head' /\ gen'.status # "failed"
                    /\ \A v \in members' : demand'[v].revision <= demand'[v].fulfilled
  BY DEF Outstanding
<1>0. job \in Jobs /\ Outstanding
  BY Types DEF SpaceInv, RowOK, Outstanding
<1>1. CASE NewRow
  BY <1>1 DEF NewRow, Queued, NoJob
<1>2. CASE RaisedRow
  BY <1>0, <1>2 DEF RaisedRow, Active, Jobs
<1>3. CASE KeptRow
  <2>1. /\ UNCHANGED <<job, head>> /\ job.status \notin Leased /\ members' = members
        /\ job.status \notin Active
    BY <1>3, InputsMove DEF KeptRow, Leased, Active
  <2>2. UNCHANGED <<gen, done>>
    BY <2>1, QuietRow
  <2>3. gen.status # "failed"
    BY <1>0, <2>1 DEF Outstanding
  <2>4. ASSUME NEW v \in Viewers, NEW retry \in BOOLEAN, Register(v, retry) PROVE FALSE
    <3>1. Enqueue(head, slots, task)
      BY <2>1, <2>3, <2>4 DEF Register, FailedSameInput
    <3> QED
      BY <3>1 DEF Enqueue, Queued, NoJob
  <2>5. demand' = demand
    BY <2>1, <2>4, QuietRow
  <2> QED
    BY <1>0, <2>1, <2>2, <2>5 DEF Outstanding
<1>4. CASE LeaseEnds \/ Reap
  BY <1>0, <1>4 DEF LeaseEnds, Reap, Leased, Jobs
<1>5. ASSUME NEW t \in Tasks, Lease(t) \/ Begin(t) \/ RetriedRow(t) \/ EndedRow(t, "failed")
      PROVE  FALSE
  BY <1>0, <1>5 DEF Lease, LeasedJob, Begin, RetriedRow, Requeue, EndedRow, Jobs
<1>6. ASSUME NEW t \in Tasks, EndedRow(t, "succeeded"), Publish(t) PROVE ~NeedsSuccessor(t)
  <2>1. job'.status = "succeeded"
    BY <1>0, <1>6 DEF EndedRow, Jobs
  <2> QED
    BY <1>6, <2>1 DEF Publish, Enqueue, Queued, NoJob
<1> QED
  BY <1>1, <1>2, <1>3, <1>4, <1>5, <1>6, NothingLeft, EveryRowMoves DEF RowMoves

LEMMA RowStep ==
    ASSUME SpaceInv, [Next]_vars
    PROVE  RowOK'
<1> DEFINE Goal == /\ job'.trigger <= head'
                   /\ job'.status \in Active => job'.trigger = head'
                   /\ job'.status = "queued" => job'.attempt < MaxAttempts
<1>0. /\ job \in Jobs /\ head \in Nat /\ job.trigger <= head
      /\ job.status \in Active => job.trigger = head
      /\ job.status = "queued" => job.attempt < MaxAttempts
  BY Types, Numbers DEF SpaceInv, RowOK
<1>1. ASSUME NewRow PROVE Goal
  BY <1>1, InputsMove, Numbers DEF NewRow, Queued, NoJob
<1>2. ASSUME RaisedRow PROVE Goal
  BY <1>0, <1>2, InputsMove, Numbers DEF RaisedRow, Jobs
<1>3. ASSUME KeptRow PROVE Goal
  BY <1>0, <1>3 DEF KeptRow
<1>4. ASSUME LeaseEnds \/ Reap PROVE Goal
  <2>1. job.status \in Leased /\ head' = head
    BY <1>4 DEF LeaseEnds, Reap, Overdue, inputs
  <2>2. \/ job' = [job EXCEPT !.live = FALSE]
        \/ job' = [job EXCEPT !.status = "queued"] /\ MayRetry
        \/ job' = [job EXCEPT !.status = "expired", !.held = FALSE]
    BY <1>4 DEF LeaseEnds, Reap
  <2> QED
    BY <1>0, <2>1, <2>2 DEF MayRetry, Leased, Active, Jobs
<1>5. ASSUME NEW t \in Tasks, Lease(t) \/ Begin(t) PROVE Goal
  BY <1>0, <1>5 DEF Lease, LeasedJob, Begin, BindingOk, Leased, Active, Jobs, inputs
<1>6. ASSUME NEW t \in Tasks, RetriedRow(t) PROVE Goal
  BY <1>0, <1>6 DEF RetriedRow, Requeue, MayRetry, BindingOk, Leased, Active, Jobs
<1>7. ASSUME NEW t \in Tasks, EndedRow(t, "failed") \/ EndedRow(t, "succeeded") PROVE Goal
  BY <1>0, <1>7 DEF EndedRow, Active, Jobs
<1>8. Goal
  BY <1>1, <1>2, <1>3, <1>4, <1>5, <1>6, <1>7, EveryRowMoves DEF RowMoves
<1> QED
  BY <1>8, RowTyped, OutstandingStep DEF RowOK, Outstanding

-----------------------------------------------------------------------------
(* Of which inputs a generation and its views are.                         *)

\* A generation keeps its inputs until it ends.
LEMMA GenKeeps ==
    ASSUME SpaceInv, [Next]_vars
    PROVE  \/ /\ gen'.status = gen.status /\ gen'.attempt = gen.attempt
              /\ gen'.version = gen.version /\ gen'.required = gen.required
           \/ gen'.status # "running" /\ gen'.version = gen.version
           \/ \E t \in Tasks : Create(t)
<1>0. gen \in Generations
  BY Types DEF SpaceInv
<1>1. ASSUME NEW s \in {"published", "superseded", "failed"}, gen' = [gen EXCEPT !.status = s]
      PROVE  gen'.status # "running" /\ gen'.version = gen.version
  BY <1>0, <1>1 DEF Generations
<1>2. ASSUME NEW t \in Tasks, NEW v \in Viewers,
             Stage(t, v) \/ Complete(t, v) \/ TargetFails(t, v)
      PROVE  /\ gen'.status = gen.status /\ gen'.attempt = gen.attempt
             /\ gen'.version = gen.version /\ gen'.required = gen.required
  BY <1>0, <1>2 DEF Stage, Complete, TargetFails, Generations
<1> QED
  BY <1>1, <1>2, EveryGenMoves DEF GenMoves

LEMMA CreatedGen ==
    ASSUME SpaceInv, NEW t \in Tasks, Create(t)
    PROVE  /\ gen'.status = "running" /\ gen'.attempt = task[t].attempt
           /\ gen'.version = version /\ task[t].version = version
           /\ gen'.required = members
           /\ \A v \in Viewers : gen'.view[v] = "none"
           /\ task[t].phase = "snapped" /\ BindingOk(t)
           /\ UNCHANGED <<version, members>>
<1>1. task[t].phase = "snapped" /\ task[t].version = version /\ BindingOk(t)
      /\ UNCHANGED <<version, members>>
  BY DEF Create, Step, inputs
<1>2. task[t].viewers = members
  BY <1>1 DEF SpaceInv, InputsOK
<1> QED
  BY <1>1, <1>2 DEF Create, NoGeneration

ViewsOK == gen.status = "running" =>
    \A v \in Viewers : gen.view[v] \in {"pending", "ready"} => gen.built[v] = gen.version

LEMMA ViewsStep ==
    ASSUME SpaceInv, [Next]_vars
    PROVE  ViewsOK'
<1>0. gen \in Generations /\ ViewsOK
  BY Types DEF SpaceInv, InputsOK, ViewsOK
<1>1. CASE gen' = gen
  BY <1>0, <1>1 DEF ViewsOK
<1>2. ASSUME NEW s \in {"published", "superseded", "failed"}, gen' = [gen EXCEPT !.status = s]
      PROVE  ViewsOK'
  BY <1>0, <1>2 DEF ViewsOK, Generations
<1>3. ASSUME NEW t \in Tasks, Create(t) PROVE ViewsOK'
  BY <1>3, CreatedGen DEF ViewsOK
<1>4. ASSUME NEW t \in Tasks, NEW v \in Viewers, Stage(t, v) PROVE ViewsOK'
  <2>1. /\ task[t].pick # {} /\ OwnGeneration(t) /\ gen.version = version
    BY <1>4 DEF Stage, GenerationOk
  <2>2. task[t].version = gen.version
    BY <2>1 DEF SpaceInv, InputsOK
  <2>3. PICK status \in {"pending", "ready"} :
          gen' = [gen EXCEPT !.view[v] = status, !.asked[v] = Serves(t, v),
                             !.built[v] = IF Reusable(v) THEN cached[v] ELSE task[t].version]
    BY <1>4 DEF Stage
  <2>4. (IF Reusable(v) THEN cached[v] ELSE task[t].version) = gen.version
    BY <2>1, <2>2 DEF Reusable
  <2> QED
    BY <1>0, <2>3, <2>4 DEF ViewsOK, Generations
<1>5. ASSUME NEW t \in Tasks, NEW v \in Viewers, Complete(t, v) \/ TargetFails(t, v)
      PROVE  ViewsOK'
  <2>1. PICK status \in {"ready", "failed"} : gen' = [gen EXCEPT !.view[v] = status]
    BY <1>5 DEF Complete, TargetFails
  <2>2. gen.view[v] = "pending"
    BY <1>5 DEF Complete, TargetFails
  <2> QED
    BY <1>0, <2>1, <2>2 DEF ViewsOK, Generations
<1> QED
  BY <1>1, <1>2, <1>3, <1>4, <1>5, EveryGenMoves DEF GenMoves

LEMMA GenInputs ==
    ASSUME SpaceInv, [Next]_vars
    PROVE  /\ gen'.version <= version'
           /\ gen'.status = "running" /\ gen'.version = version' => gen'.required = members'
<1>0. /\ gen.version \in Nat /\ version \in Nat /\ gen.version <= version
      /\ gen.status = "running" /\ gen.version = version => gen.required = members
      /\ (version' = version \/ version' = version + 1)
      /\ (version' = version => members' = members)
  BY Types, Numbers, InputsMove DEF SpaceInv, InputsOK, Generations, Versions
<1>1. CASE gen'.version = gen.version /\ (gen'.status = "running" =>
             gen.status = "running" /\ gen'.required = gen.required)
  <2>1. gen.version <= version'
    BY <1>0
  <2>2. gen.version = version' => version' = version
    BY <1>0
  <2> QED
    BY <1>0, <1>1, <2>1, <2>2
<1>2. ASSUME NEW t \in Tasks, Create(t)
      PROVE  /\ gen'.version <= version'
             /\ gen'.status = "running" /\ gen'.version = version' => gen'.required = members'
  BY <1>0, <1>2, CreatedGen
<1> QED
  BY <1>1, <1>2, GenKeeps

LEMMA TaskInputs ==
    ASSUME SpaceInv, [Next]_vars, NEW t \in Tasks
    PROVE  /\ task'[t].version <= version'
           /\ task'[t].phase = "snapped" /\ task'[t].version = version'
                => task'[t].viewers = members'
           /\ task'[t].pick # {} => task'[t].phase = "building"
<1> DEFINE Goal == /\ task'[t].version <= version'
                   /\ task'[t].phase = "snapped" /\ task'[t].version = version'
                        => task'[t].viewers = members'
                   /\ task'[t].pick # {} => task'[t].phase = "building"
<1>0. /\ task[t].version \in Nat /\ version \in Nat /\ task[t].version <= version
      /\ task[t].phase = "snapped" /\ task[t].version = version => task[t].viewers = members
      /\ task[t].pick # {} => task[t].phase = "building"
      /\ (version' = version \/ version' = version + 1)
      /\ (version' = version => members' = members)
  BY Types, Numbers, InputsMove DEF SpaceInv, InputsOK, States, Versions
<1>1. task[t].version <= version' /\ 0 <= version'
      /\ (task[t].version = version' => version' = version)
  BY <1>0
<1>2. ASSUME task'[t] = task[t] PROVE Goal
  BY <1>0, <1>1, <1>2
<1>3. ASSUME task'[t] \in {Idle, [Idle EXCEPT !.phase = "orphan"]} \/ Lease(t) PROVE Goal
  BY <1>1, <1>3, LeasedTask DEF Idle
<1>4. ASSUME Begin(t) \/ Snapshot(t) PROVE Goal
  <2>1. task[t].phase # "building"
    BY <1>4 DEF Begin, Snapshot
  <2> QED
    BY <1>0, <1>1, <1>4, <2>1, ReadTask
<1>5. ASSUME Create(t) \/ Prepare(t) PROVE Goal
  <2>1. task[t].pick = {}
    BY <1>0, <1>5 DEF Create, Prepare, Step
  <2> QED
    BY <1>0, <1>1, <1>5, <2>1, SteppedTask
<1>6. ASSUME NEW v \in Viewers, Pick(t, v) \/ Stage(t, v) PROVE Goal
  BY <1>1, <1>6, PickedTask
<1>7. ASSUME Failed(t) PROVE Goal
  BY <1>1, <1>7 DEF Failed
<1> QED
  BY <1>2, <1>3, <1>4, <1>5, <1>6, <1>7, EveryTaskMoves DEF TaskMoves

LEMMA BuilderInputs ==
    ASSUME SpaceInv, [Next]_vars, NEW t \in Tasks,
           task'[t].phase \in {"building", "prepared"}, OwnGeneration(t)'
    PROVE  task'[t].version = gen'.version
<1>0. /\ task[t].phase \in {"building", "prepared"} /\ OwnGeneration(t)
           => task[t].version = gen.version
      /\ gen'.status = "running" /\ gen'.attempt = task'[t].attempt
  BY DEF SpaceInv, InputsOK, OwnGeneration
<1>1. CASE Create(t)
  BY <1>1, CreatedGen, SteppedTask
<1>2. CASE ~Create(t)
  <2>1. /\ task[t].phase \in {"building", "prepared"}
        /\ task'[t].attempt = task[t].attempt /\ task'[t].version = task[t].version
    <3>1. CASE task'[t] = task[t]
      BY <3>1
    <3>2. CASE task'[t] \in {Idle, [Idle EXCEPT !.phase = "orphan"]} \/ Lease(t) \/ Failed(t)
      BY <3>2, LeasedTask DEF Idle, Failed
    <3>3. CASE Begin(t) \/ Snapshot(t)
      BY <3>3, ReadTask
    <3>4. CASE Prepare(t)
      BY <3>4, SteppedTask DEF Prepare, Step
    <3>5. CASE \E v \in Viewers : Pick(t, v) \/ Stage(t, v)
      BY <3>5, PickedTask
    <3> QED
      BY <1>2, <3>1, <3>2, <3>3, <3>4, <3>5, EveryTaskMoves DEF TaskMoves
  <2>2. ASSUME NEW u \in Tasks, Create(u) PROVE FALSE
    <3>1. gen'.attempt = task[u].attempt /\ task[u].phase = "snapped"
      BY <2>2, CreatedGen
    <3>2. Bound(t) /\ Bound(u)
      BY <2>1, <3>1 DEF Bound
    <3>3. t = u
      BY <1>0, <2>1, <3>1, <3>2 DEF SpaceInv, FenceOK
    <3> QED
      BY <1>2, <2>2, <3>3
  <2>3. /\ gen'.status = gen.status /\ gen'.attempt = gen.attempt
        /\ gen'.version = gen.version
    BY <1>0, <2>2, GenKeeps
  <2> QED
    BY <1>0, <2>1, <2>3 DEF OwnGeneration
<1> QED
  BY <1>1, <1>2

LEMMA SpaceInvStep ==
    ASSUME SpaceInv, [Next]_vars
    PROVE  SpaceInv'
<1>1. InputsOK'
  BY GenInputs, ViewsStep, TaskInputs, BuilderInputs DEF InputsOK, ViewsOK
<1> QED
  BY <1>1, TypeStep, RowStep, FenceStep, WindowStep DEF SpaceInv

-----------------------------------------------------------------------------
(* The theorems.                                                           *)

\* The invariant everything below rests on: the active row asks for every event,
\* its tasks are of different attempts, a generation runs only under the lease of
\* its attempt, and what a coordinator holds is of the inputs it names.
THEOREM SpaceInvariant == Spec => []SpaceInv
  BY InvInit, SpaceInvStep, PTL DEF Spec

\* Every reachable state is well typed; among it, no row is leased more often than
\* STEWARD_MAX_ATTEMPTS allows and no cursor is settled beyond the newest event.
THEOREM SpaceTypeCorrect == Spec => []TypeOK
<1>1. SpaceInv => TypeOK
  BY DEF SpaceInv
<1> QED
  BY <1>1, SpaceInvariant, PTL

\* The capacity counter of the space is the number of slots its jobs hold, through
\* retries, expiries, failures and successors (release_job, _enqueue_successor).
THEOREM SpaceCounterMatches == Spec => []CounterMatches
<1>1. SpaceInv => CounterMatches
  BY DEF SpaceInv
<1> QED
  BY <1>1, SpaceInvariant, PTL

\* No event and no request of a member is left without a job that will serve it,
\* unless the last job has failed or expired (publish, _has_successor_demand).
THEOREM SpaceForgetsNothing == Spec => []NothingForgotten
<1>1. SpaceInv => NothingForgotten
  <2> SUFFICES ASSUME SpaceInv PROVE EventNotForgotten /\ DemandNotForgotten
    BY DEF NothingForgotten
  <2>0. /\ job.status \in Statuses /\ head \in Nat /\ done \in Nat /\ members \subseteq Viewers
        /\ \A v \in members : demand[v].revision \in Nat /\ demand[v].fulfilled \in Nat
    BY Types, Numbers DEF SpaceInv, Jobs, Demands, Revisions
  <2>1. CASE job.status \in Active
    <3>1. job.trigger = head
      BY <2>1 DEF SpaceInv, RowOK
    <3> QED
      BY <2>0, <2>1, <3>1 DEF EventNotForgotten, DemandNotForgotten
  <2>2. CASE Unattended
    BY <2>2 DEF EventNotForgotten, DemandNotForgotten
  <2>3. CASE job.status \in {"none", "succeeded"}
    <3>1. done = head /\ \A v \in members : demand[v].revision <= demand[v].fulfilled
      BY <2>3 DEF SpaceInv, RowOK
    <3> QED
      BY <2>0, <3>1 DEF EventNotForgotten, DemandNotForgotten
  <2> QED
    BY <2>0, <2>1, <2>2, <2>3 DEF Statuses, Unattended
<1> QED
  BY <1>1, SpaceInvariant, PTL

\* A publication shows the inputs of its moment, to the members of its moment, from
\* views that were built from these inputs or taken over because they were
\* (require_generation, _reuse_view).
THEOREM SpacePublishesTheCurrent == Spec => PublishesTheCurrent
<1> DEFINE Current == publication' # publication =>
                        /\ publication'.version = version
                        /\ publication'.views = members
                        /\ \A v \in members : publication'.built[v] = version
<1>1. SpaceInv /\ [Next]_vars => [Current]_vars
  <2> SUFFICES ASSUME SpaceInv, [Next]_vars, publication' # publication
               PROVE  /\ publication'.version = version
                      /\ publication'.views = members
                      /\ \A v \in members : publication'.built[v] = version
    OBVIOUS
  <2>1. PICK t \in Tasks : Publish(t)
    BY OnlyPublish
  <2>2. /\ OwnGeneration(t) /\ gen.version = version
        /\ \A v \in gen.required : gen.view[v] = "ready"
        /\ publication' = [version |-> gen.version, views |-> gen.required,
                           asked |-> gen.asked, built |-> gen.built]
    BY <2>1 DEF Publish, GenerationOk, AllReady
  <2>3. gen.required = members /\ members \subseteq Viewers
    BY <2>2, Types DEF SpaceInv, InputsOK, OwnGeneration
  <2>4. \A v \in members : gen.built[v] = version
    BY <2>2, <2>3 DEF SpaceInv, InputsOK, OwnGeneration
  <2> QED
    BY <2>2, <2>3, <2>4
<1> QED
  BY <1>1, SpaceInvariant, PTL DEF Spec, PublishesTheCurrent

\* Executions are settled by their holders, one after the other and each where the
\* one before it ended, though an expired coordinator still works: the binding's
\* attempt is all that tells them apart (require_binding, publish, record_failure).
THEOREM SpaceSettledInOrder == Spec => SettledInOrder
<1> DEFINE Joined == done' # done =>
             \E t \in Tasks : /\ task[t].phase = "prepared"
                              /\ task[t].floor = done /\ task[t].upper = done'
           Held == job.status \in Leased /\ job.live /\ job'.status \notin Leased =>
             \E t \in Tasks : /\ task[t].phase \notin {"idle", "orphan"}
                              /\ task[t].attempt = job.attempt
                              /\ task'[t] = Idle
<1>1. SpaceInv /\ [Next]_vars => [Joined]_vars
  <2> SUFFICES ASSUME SpaceInv, [Next]_vars, done' # done
               PROVE  \E t \in Tasks : /\ task[t].phase = "prepared"
                                       /\ task[t].floor = done /\ task[t].upper = done'
    OBVIOUS
  <2>1. PICK t \in Tasks : Publish(t)
    BY OnlyPublish
  <2>2. task[t].phase = "prepared" /\ BindingOk(t) /\ done' = Later(done, task[t].upper)
    BY <2>1 DEF Publish, GenerationOk, Reached
  <2>3. done' = task[t].upper
    BY <2>2 DEF Later
  <2>4. task[t].floor = done
    BY <2>2 DEF SpaceInv, WindowOK, Reading, BindingOk, Leased, Active
  <2> QED
    BY <2>2, <2>3, <2>4
<1>2. SpaceInv /\ [Next]_vars => [Held]_vars
  <2> SUFFICES ASSUME SpaceInv, [Next]_vars,
                      job.status \in Leased, job.live, job'.status \notin Leased
               PROVE  \E t \in Tasks : /\ task[t].phase \notin {"idle", "orphan"}
                                       /\ task[t].attempt = job.attempt
                                       /\ task'[t] = Idle
    OBVIOUS
  <2>0. job \in Jobs /\ task \in [Tasks -> States]
    BY Types DEF SpaceInv
  <2>1. ASSUME NEW t \in Tasks, Publish(t) \/ Record(t)
        PROVE  /\ task[t].phase \notin {"idle", "orphan"}
               /\ task[t].attempt = job.attempt
               /\ task'[t] = Idle
    <3>1. BindingOk(t)
      BY <2>1 DEF Publish, Record, GenerationOk
    <3>2. \/ task' = [task EXCEPT ![t] = Idle]
          \/ task' = Orphaned([task EXCEPT ![t] = Idle])
      BY <2>1 DEF Publish, Record, Enqueue
    <3>3. task'[t] = Idle
      BY <2>0, <3>2 DEF Orphaned, Idle
    <3> QED
      BY <3>1, <3>3 DEF BindingOk
  <2>2. job.status \in Active
    BY DEF Leased, Active
  <2>3. ASSUME NEW n, Raise(n) PROVE FALSE
    BY <2>0, <2>3 DEF Raise, Jobs
  <2>4. ~Event /\ ~ScanDue
    BY <2>2, <2>3 DEF Event, Schedule, ScanDue, ScanWants
  <2>5. ASSUME NEW v \in Viewers, NEW retry \in BOOLEAN, Register(v, retry) PROVE FALSE
    BY <2>2, <2>3, <2>5 DEF Register
  <2>6. ~LeaseLapses /\ ~HeartbeatsMissed /\ ~Reap
    BY <2>0 DEF LeaseLapses, HeartbeatsMissed, LeaseEnds, Reap, Overdue, Jobs
  <2>7. ~SilentChange /\ ~Crash /\ ~UNCHANGED vars
    BY DEF SilentChange, Crash, vars
  <2>8. ASSUME NEW t \in Tasks, Advance(t) PROVE Publish(t) \/ Record(t)
    BY <2>0, <2>8 DEF Advance, Begin, Snapshot, Create, Prepare, Pick, Stage, Complete,
       InputChanged, GiveUp, Leased, Jobs
  <2>9. ASSUME NEW t \in Tasks,
               \/ Lease(t) \/ RecordFails(t)
               \/ \E error \in {"transient", "fatal"} : Fail(t, error)
               \/ \E v \in Viewers : TargetFails(t, v)
        PROVE  FALSE
    BY <2>9 DEF Lease, RecordFails, Fail, TargetFails, Leased
  <2> QED
    BY <2>1, <2>4, <2>5, <2>6, <2>7, <2>8, <2>9 DEF Next
<1> QED
  BY <1>1, <1>2, SpaceInvariant, PTL DEF Spec, SettledInOrder, WindowsJoin, OnlyTheHolderSettles
=============================================================================
