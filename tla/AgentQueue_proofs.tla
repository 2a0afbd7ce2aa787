------------------------- MODULE AgentQueue_proofs -------------------------
(***************************************************************************)
(* What TLAPS proves about AgentQueue, for every number of sessions,       *)
(* accounts, runs, workers and attempts.                                   *)
(***************************************************************************)
EXTENDS AgentQueue, FiniteSetTheorems, TLAPS

-----------------------------------------------------------------------------
(* Type correctness.                                                       *)

\* The rows and the slots alone, without the streams and the counters.
LEMMA RowTypes ==
    TypeOK => run \in [RunIds -> RunRow] /\ job \in [RunIds -> JobRow]
  BY DEF TypeOK
LEMMA WorkerTypes == TypeOK => worker \in [Workers -> Slot]
  BY DEF TypeOK

\* A row that does not exist is a row.
LEMMA EmptyRowTypes ==
    ASSUME QueueAssumption PROVE NoRun \in RunRow /\ NoJob \in JobRow
  <1>1. "absent" \in Status /\ 0 \in 0..LeaseTtl
    BY DEF Status, QueueAssumption
  <1> QED
    BY <1>1 DEF NoRun, NoJob, RunRow, JobRow

\* A slot that is not idle names a run.
LEMMA HeldRun ==
    ASSUME TypeOK, NEW w \in Workers, Holds(w)
    PROVE  worker[w] \in BusySlot /\ worker[w].run \in RunIds
  BY WorkerTypes DEF Holds, Slot, IdleSlot, BusySlot

\* Counters stay natural numbers through acquire and release.
LEMMA CountersType ==
    ASSUME NEW c \in [Dims -> Nat], NEW dims
    PROVE  /\ Acquired(c, dims) \in [Dims -> Nat]
           /\ Released(c, dims) \in [Dims -> Nat]
  BY DEF Acquired, Released

\* A settlement reports a terminal status, and its event is well formed.
LEMMA SettleType ==
    ASSUME QueueAssumption, TypeOK, NEW r, NEW status \in Terminal,
           Settle(r, status)
    PROVE  /\ run' \in [RunIds -> RunRow]
           /\ job' \in [RunIds -> JobRow]
           /\ events' \in [RunIds -> Seq(Event)]
           /\ active' \in [Dims -> Nat]
  <1> DEFINE effective == Effective(r, status)
  <1>1. effective \in Terminal
    BY DEF Effective, Terminal
  <1>2. ServerEvent(TerminalEventFor[effective]) \in Event
    BY <1>1 DEF ServerEvent, Event, EventTypes, TerminalEvents,
                TerminalEventFor, Terminal
  <1>3. events' \in [RunIds -> Seq(Event)]
    <2> DEFINE closing == ServerEvent(TerminalEventFor[effective])
    <2>1. closing \in Event
      BY <1>2
    <2>2. events' = [events EXCEPT ![r] = Append(@, closing)]
      BY DEF Settle
    <2> HIDE DEF closing
    <2>3. \A q \in RunIds : Append(events[q], closing) \in Seq(Event)
      BY <2>1 DEF TypeOK
    <2> QED
      BY <2>2, <2>3 DEF TypeOK
  <1>4. active' \in [Dims -> Nat]
    BY CountersType DEF TypeOK, Settle
  <1>5. run' \in [RunIds -> RunRow] /\ job' \in [RunIds -> JobRow]
    <2>1. /\ run' = [run EXCEPT ![r].status = effective]
          /\ job' = [job EXCEPT ![r].status = effective]
      BY DEF Settle
    <2>2. effective \in Status
      BY <1>1 DEF Status
    <2> HIDE DEF effective
    <2> QED
      BY <2>1, <2>2, RowTypes DEF RunRow, JobRow
  <1> QED
    BY <1>3, <1>4, <1>5

\* A worker's slot stays a slot when only its phase changes, or all of it.
LEMMA SlotType ==
    ASSUME TypeOK, NEW w \in Workers, Holds(w)
    PROVE  /\ ToPhase(w, "failing") => worker' \in [Workers -> Slot]
           /\ ToIdle(w) => worker' \in [Workers -> Slot]
  BY WorkerTypes, HeldRun DEF ToPhase, ToIdle, Slot, BusySlot

\* The events a batch adds form a sequence of events.
LEMMA BatchType ==
    ASSUME TypeOK, NEW w \in Workers, NEW n \in Nat, StoreBatch(w, n)
    PROVE  events' \in [RunIds -> Seq(Event)]
  <1> DEFINE r == worker[w].run
             m == IF n > Stored(w) THEN n - Stored(w) ELSE 0
             fresh == [j \in 1..m |->
                         WorkerEvent(worker[w].attempt, Stored(w) + j)]
  <1>1. events' = [events EXCEPT ![r] = @ \o fresh]
    BY DEF StoreBatch
  <1>2. worker[w] \in BusySlot /\ r \in RunIds
    BY HeldRun DEF StoreBatch, Holds
  <1>3. Len(events[r]) \in Nat
    BY <1>2 DEF TypeOK
  <1>4. SeqOf(w, worker[w].acked + 1) <= Len(events[r])
    BY DEF StoreBatch, BatchFits
  <1>5. Stored(w) \in Nat
    BY <1>2, <1>3, <1>4 DEF Stored, SeqOf, BusySlot
  <1>6. m \in Nat
    BY <1>5
  <1>7. \A j \in 1..m :
          WorkerEvent(worker[w].attempt, Stored(w) + j) \in Event
    BY <1>2, <1>5, <1>6 DEF WorkerEvent, Event, EventTypes, BusySlot
  <1>8. fresh \in Seq(Event)
    <2> HIDE DEF m
    <2> QED
      BY <1>6, <1>7
  <1> HIDE DEF fresh
  <1>9. events[r] \o fresh \in Seq(Event)
    BY <1>2, <1>8 DEF TypeOK
  <1> QED
    BY <1>1, <1>9 DEF TypeOK

\* A worker's request leaves every row typed.
LEMMA SidecarType ==
    ASSUME QueueAssumption, TypeOK, NEW w \in Workers, Sidecar(w)
    PROVE  TypeOK'
  <1>1. CASE LeaseNext(w)
    <2>1. PICK r \in RunIds :
            /\ job' = [job EXCEPT ![r].status = "leased",
                                  ![r].attempt = job[r].attempt + 1,
                                  ![r].lease = LeaseTtl]
            /\ run' = [run EXCEPT ![r].status = "leased",
                                  ![r].attempt = job[r].attempt + 1,
                                  ![r].lease = LeaseTtl]
            /\ \/ worker' = [worker EXCEPT ![w] =
                    [IdleSlot EXCEPT !.phase = "fetching", !.run = r,
                                     !.attempt = job[r].attempt + 1]]
               \/ UNCHANGED worker
      BY <1>1 DEF LeaseNext
    <2>2. "leased" \in Status /\ LeaseTtl \in 0..LeaseTtl
      BY DEF Status, Active, Executing, QueueAssumption
    <2>3. run' \in [RunIds -> RunRow] /\ job' \in [RunIds -> JobRow]
      BY <2>1, <2>2, RowTypes DEF RunRow, JobRow
    <2>4. job[r].attempt + 1 \in Nat /\ r \in Nat
      BY RowTypes DEF JobRow, RunIds
    <2>5. [IdleSlot EXCEPT !.phase = "fetching", !.run = r,
                           !.attempt = job[r].attempt + 1] \in Slot
      BY <2>4 DEF Slot, IdleSlot, BusySlot
    <2>6. worker' \in [Workers -> Slot]
      BY <2>1, <2>5, WorkerTypes
    <2> QED
      BY <1>1, <2>3, <2>6 DEF LeaseNext, TypeOK
  <1>2. CASE FetchContext(w)
    <2>1. Holds(w)
      BY <1>2 DEF FetchContext, Holds
    <2>2. Len(events[worker[w].run]) \in Nat
      BY <2>1, HeldRun DEF TypeOK
    <2>3. \/ ToPhase(w, "failing") \/ ToIdle(w)
          \/ worker' = [worker EXCEPT ![w].phase = "running",
                                      ![w].base = Len(events[worker[w].run])]
      BY <1>2 DEF FetchContext
    <2>4. worker' \in [Workers -> Slot]
      BY <2>1, <2>2, <2>3, SlotType, HeldRun, WorkerTypes DEF Slot, BusySlot
    <2> QED
      BY <1>2, <2>4 DEF FetchContext, TypeOK
  <1>3. CASE Produce(w)
    <2>1. worker[w] \in BusySlot
      BY <1>3, HeldRun DEF Produce, Holds
    <2>2. worker' \in [Workers -> Slot]
      BY <1>3, <2>1, WorkerTypes DEF Produce, Slot, BusySlot
    <2> QED
      BY <1>3, <2>2 DEF Produce, TypeOK
  <1>4. CASE \E n \in 1..MaxOutput : AppendEvents(w, n)
    <2>1. PICK n \in 1..MaxOutput : AppendEvents(w, n)
      BY <1>4
    <2>2. n \in Nat
      OBVIOUS
    <2>3. StoreBatch(w, n)
      BY <2>1 DEF AppendEvents
    <2>4. events' \in [RunIds -> Seq(Event)]
      BY <2>2, <2>3, BatchType
    <2>5. run' \in [RunIds -> RunRow] /\ job' \in [RunIds -> JobRow]
      <3>1. \/ run' = run /\ job' = job
            \/ /\ run' = [run EXCEPT ![worker[w].run].status = "running"]
               /\ job' = [job EXCEPT ![worker[w].run].status = "running"]
        BY <2>3 DEF StoreBatch
      <3>2. "running" \in Status /\ worker[w].run \in RunIds
        BY <2>3, HeldRun DEF StoreBatch, Holds, Status, Active, Executing
      <3>3. run' \in [RunIds -> RunRow]
        BY <3>1, <3>2, RowTypes DEF RunRow
      <3>4. job' \in [RunIds -> JobRow]
        BY <3>1, <3>2, RowTypes DEF JobRow
      <3> QED
        BY <3>3, <3>4
    <2>6. worker' \in [Workers -> Slot]
      <3>1. worker[w] \in BusySlot
        BY <2>3, HeldRun DEF StoreBatch, Holds
      <3> QED
        BY <2>1, <2>2, <3>1, WorkerTypes DEF AppendEvents, Slot, BusySlot
    <2> QED
      BY <2>3, <2>4, <2>5, <2>6 DEF StoreBatch, TypeOK
  <1>5. CASE AppendRefused(w)
    BY <1>5, SlotType DEF AppendRefused, Holds, TypeOK
  <1>6. CASE Heartbeat(w)
    <2>1. run' \in [RunIds -> RunRow] /\ job' \in [RunIds -> JobRow]
      <3>1. \/ run' = run /\ job' = job
            \/ /\ run' = [run EXCEPT ![worker[w].run].lease = LeaseTtl]
               /\ job' = [job EXCEPT ![worker[w].run].lease = LeaseTtl]
        BY <1>6 DEF Heartbeat, Renewed
      <3>2. LeaseTtl \in 0..LeaseTtl /\ worker[w].run \in RunIds
        BY <1>6, HeldRun DEF Heartbeat, QueueAssumption
      <3>3. \A r \in RunIds : /\ [run[r] EXCEPT !.lease = LeaseTtl] \in RunRow
                             /\ [job[r] EXCEPT !.lease = LeaseTtl] \in JobRow
        BY <3>2, RowTypes DEF RunRow, JobRow
      <3> QED
        BY <3>1, <3>2, <3>3, RowTypes
    <2> QED
      BY <1>6, <2>1, SlotType DEF Heartbeat, TypeOK
  <1>7. CASE GiveUp(w)
    BY <1>7, SlotType DEF GiveUp, Holds, TypeOK
  <1>8. CASE SettleSucceeded(w)
    <2>1. "succeeded" \in Terminal
      BY DEF Terminal
    <2>2. worker' \in [Workers -> Slot]
      BY <1>8, SlotType DEF SettleSucceeded, ClaimsSuccess, Holds
    <2> QED
      BY <1>8, <2>1, <2>2, SettleType DEF SettleSucceeded, TypeOK
  <1>9. CASE SettleFailed(w)
    <2>1. "failed" \in Terminal
      BY DEF Terminal
    <2>2. worker' \in [Workers -> Slot]
      BY <1>9, SlotType DEF SettleFailed, Holds
    <2> QED
      BY <1>9, <2>1, <2>2, SettleType DEF SettleFailed, TypeOK
  <1>10. CASE Crash(w)
    BY <1>10, SlotType DEF Crash, Holds, TypeOK
  <1> QED
    BY <1>1, <1>2, <1>3, <1>4, <1>5, <1>6, <1>7, <1>8, <1>9, <1>10 DEF Sidecar

\* The maintenance pass leaves every row typed.
LEMMA ReaperType ==
    ASSUME QueueAssumption, TypeOK, ReaperPass
    PROVE  TypeOK'
  <1>1. \A r \in RunIds : ReapOutcome(r) \in Terminal \cup {"queued"}
    BY DEF ReapOutcome, Terminal
  <1>2. \A r \in RunIds : ReapOutcome(r) \in Terminal =>
          Append(events[r], ServerEvent(TerminalEventFor[ReapOutcome(r)]))
             \in Seq(Event)
    <2> TAKE r \in RunIds
    <2> HAVE ReapOutcome(r) \in Terminal
    <2> DEFINE closing == ServerEvent(TerminalEventFor[ReapOutcome(r)])
    <2>1. closing \in Event
      BY DEF ServerEvent, Event, EventTypes, TerminalEvents, TerminalEventFor,
             Terminal
    <2> HIDE DEF closing
    <2>2. Append(events[r], closing) \in Seq(Event)
      BY <2>1 DEF TypeOK
    <2> QED
      BY <2>2 DEF closing
  <1>3. events' \in [RunIds -> Seq(Event)]
    BY <1>2 DEF ReaperPass, TypeOK
  <1>4. run' \in [RunIds -> RunRow] /\ job' \in [RunIds -> JobRow]
    <2>1. \A r \in RunIds : ReapOutcome(r) \in Status
      BY <1>1 DEF Status, Active
    <2>2. 0 \in 0..LeaseTtl
      BY DEF QueueAssumption
    <2>3. /\ run' = [r \in RunIds |->
                       IF Stale(r) THEN [run[r] EXCEPT !.status = ReapOutcome(r),
                                                       !.lease = 0] ELSE run[r]]
          /\ job' = [r \in RunIds |->
                       IF Stale(r) THEN [job[r] EXCEPT !.status = ReapOutcome(r),
                                                       !.lease = 0] ELSE job[r]]
      BY DEF ReaperPass
    <2> QED
      BY <2>1, <2>2, <2>3, RowTypes DEF RunRow, JobRow
  <1> QED
    BY <1>3, <1>4 DEF ReaperPass, TypeOK

\* What a browser does leaves every row typed.
LEMMA BrowserType ==
    ASSUME QueueAssumption, TypeOK, Browser
    PROVE  TypeOK'
  <1>1. ASSUME NEW s \in Sessions, NEW k \in Keys, SubmitUserMessage(s, k)
        PROVE  TypeOK'
    <2>1. run' \in [RunIds -> RunRow] /\ job' \in [RunIds -> JobRow]
      <3> DEFINE newRun == [NoRun EXCEPT !.session = s, !.status = "queued"]
                 newJob == [NoJob EXCEPT !.status = "queued"]
      <3>1. "queued" \in Status /\ 0 \in 0..LeaseTtl
        BY DEF Status, Active, QueueAssumption
      <3>2. NoRun \in RunRow /\ NoJob \in JobRow
        BY EmptyRowTypes
      <3>3. newRun \in RunRow /\ newJob \in JobRow
        BY <3>1, <3>2 DEF RunRow, JobRow
      <3>4. /\ run' = [run EXCEPT ![created + 1] = newRun]
            /\ job' = [job EXCEPT ![created + 1] = newJob]
        BY <1>1 DEF SubmitUserMessage
      <3> HIDE DEF newRun, newJob
      <3> QED
        BY <3>3, <3>4, RowTypes
    <2>2. active' \in [Dims -> Nat]
      BY <1>1, CountersType DEF SubmitUserMessage, TypeOK
    <2>3. <<ServerEvent("message.user_added")>> \in Seq(Event)
      BY DEF ServerEvent, Event, EventTypes
    <2>4. events' \in [RunIds -> Seq(Event)]
      BY <1>1, <2>3 DEF SubmitUserMessage, TypeOK
    <2>5. created' \in 0..MaxRuns /\ messages' \subseteq Sessions \X Keys
      BY <1>1 DEF SubmitUserMessage, TypeOK, QueueAssumption
    <2> QED
      BY <1>1, <2>1, <2>2, <2>4, <2>5 DEF SubmitUserMessage, TypeOK
  <1>2. ASSUME NEW r \in RunIds, ReadForCancel(r) PROVE TypeOK'
    BY <1>2 DEF ReadForCancel, TypeOK
  <1>3. ASSUME NEW r \in RunIds, CancelQueued(r) PROVE TypeOK'
    <2>1. "cancelled" \in Terminal
      BY DEF Terminal
    <2> QED
      BY <1>3, <2>1, SettleType DEF CancelQueued, TypeOK
  <1>4. ASSUME NEW r \in RunIds, CancelExecuting(r) PROVE TypeOK'
    <2>1. run' \in [RunIds -> RunRow] /\ job' \in [RunIds -> JobRow]
      BY <1>4, RowTypes DEF CancelExecuting, RunRow, JobRow
    <2> QED
      BY <1>4, <2>1 DEF CancelExecuting, TypeOK
  <1>5. ASSUME NEW r \in RunIds, CancelRefused(r) PROVE TypeOK'
    BY <1>5 DEF CancelRefused, TypeOK
  <1> QED
    BY <1>1, <1>2, <1>3, <1>4, <1>5 DEF Browser

LEMMA TypeInit == ASSUME QueueAssumption PROVE Init => TypeOK
  <1> SUFFICES ASSUME Init PROVE TypeOK
    OBVIOUS
  <1>1. run \in [RunIds -> RunRow] /\ job \in [RunIds -> JobRow]
    BY DEF Init, QueueAssumption, RunRow, JobRow, NoRun, NoJob, Status
  <1>2. worker \in [Workers -> Slot]
    BY DEF Init, Slot
  <1> QED
    BY <1>1, <1>2 DEF Init, TypeOK, QueueAssumption

LEMMA TypeStep == ASSUME QueueAssumption PROVE TypeOK /\ [Next]_vars => TypeOK'
  <1> SUFFICES ASSUME TypeOK, [Next]_vars PROVE TypeOK'
    OBVIOUS
  <1>1. CASE Browser
    BY <1>1, BrowserType
  <1>2. ASSUME NEW a \in Accounts, Revoke(a) \/ Readmit(a) PROVE TypeOK'
    BY <1>2 DEF Revoke, Readmit, TypeOK
  <1>3. ASSUME NEW w \in Workers, Sidecar(w) PROVE TypeOK'
    BY <1>3, SidecarType
  <1>4. CASE Tick
    <2>1. run' \in [RunIds -> RunRow] /\ job' \in [RunIds -> JobRow]
      <3>1. /\ run' = [r \in RunIds |->
                 IF run[r].status \in Executing /\ run[r].lease > 0
                 THEN [run[r] EXCEPT !.lease = @ - 1] ELSE run[r]]
            /\ job' = [r \in RunIds |->
                 IF job[r].status \in Executing /\ job[r].lease > 0
                 THEN [job[r] EXCEPT !.lease = @ - 1] ELSE job[r]]
        BY <1>4 DEF Tick
      <3>2. \A l \in 0..LeaseTtl : l > 0 => l - 1 \in 0..LeaseTtl
        BY DEF QueueAssumption
      <3> QED
        BY <3>1, <3>2, RowTypes DEF RunRow, JobRow
    <2> QED
      BY <1>4, <2>1 DEF Tick, TypeOK
  <1>5. CASE ReaperPass
    BY <1>5, ReaperType
  <1>6. ASSUME NEW r \in RunIds, PruneFinished(r) PROVE TypeOK'
    <2>1. run' \in [RunIds -> RunRow] /\ job' \in [RunIds -> JobRow]
      BY <1>6 DEF PruneFinished, TypeOK, QueueAssumption, RunRow, JobRow,
                  NoRun, NoJob, Status
    <2> QED
      BY <1>6, <2>1 DEF PruneFinished, TypeOK
  <1>7. CASE UNCHANGED vars
    BY <1>7 DEF vars, TypeOK
  <1> QED
    BY <1>1, <1>2, <1>3, <1>4, <1>5, <1>6, <1>7 DEF Next

\* Every row, slot and counter has its type in every reachable state.
THEOREM TypeCorrect == Spec => []TypeOK
  BY QueueAssumption, TypeInit, TypeStep, PTL DEF Spec

-----------------------------------------------------------------------------
(* The run row and its job row.                                            *)

\* A settlement writes the same status to both rows of a run.
LEMMA SettleAgrees ==
    ASSUME TypeOK, RowsAgree, NEW r, NEW status, Settle(r, status)
    PROVE  RowsAgree'
  <1> DEFINE effective == Effective(r, status)
  <1>1. /\ run' = [run EXCEPT ![r].status = effective]
        /\ job' = [job EXCEPT ![r].status = effective]
    BY DEF Settle
  <1> HIDE DEF effective
  <1> QED
    BY <1>1, RowTypes DEF RowsAgree, RunRow, JobRow

LEMMA RowsAgreeInit == Init => RowsAgree
  <1>1. /\ NoRun.status = NoJob.status /\ NoRun.attempt = NoJob.attempt
        /\ NoRun.cancel = NoJob.cancel /\ NoRun.lease = NoJob.lease
    BY DEF NoRun, NoJob
  <1> QED
    BY <1>1 DEF Init, RowsAgree

LEMMA RowsAgreeStep ==
    ASSUME TypeOK, RowsAgree, [Next]_vars
    PROVE  RowsAgree'
  <1> USE RowTypes DEF RowsAgree, RunRow, JobRow
  <1>1. ASSUME NEW s \in Sessions, NEW k \in Keys, SubmitUserMessage(s, k)
        PROVE  RowsAgree'
    BY <1>1 DEF SubmitUserMessage, NoRun, NoJob
  <1>2. ASSUME NEW r \in RunIds,
               ReadForCancel(r) \/ CancelQueued(r) \/ CancelExecuting(r)
                 \/ CancelRefused(r)
        PROVE  RowsAgree'
    <2>1. CASE ReadForCancel(r) \/ CancelRefused(r)
      BY <2>1 DEF ReadForCancel, CancelRefused
    <2>2. CASE CancelQueued(r)
      BY <2>2, SettleAgrees DEF CancelQueued
    <2>3. CASE CancelExecuting(r)
      <3>1. /\ run' = [run EXCEPT ![r].cancel = TRUE]
            /\ job' = [job EXCEPT ![r].cancel = TRUE]
        BY <2>3 DEF CancelExecuting
      <3>2. \A q \in RunIds :
              /\ run'[q].status = run[q].status /\ job'[q].status = job[q].status
              /\ run'[q].attempt = run[q].attempt
              /\ job'[q].attempt = job[q].attempt
              /\ run'[q].lease = run[q].lease /\ job'[q].lease = job[q].lease
        BY <3>1
      <3>3. \A q \in RunIds : run'[q].cancel = job'[q].cancel
        <4>1. run'[r].cancel = TRUE /\ job'[r].cancel = TRUE
          BY <3>1
        <4>2. \A q \in RunIds \ {r} : run'[q] = run[q] /\ job'[q] = job[q]
          BY <3>1
        <4>3. \A q \in RunIds : run[q].cancel = job[q].cancel
          OBVIOUS
        <4> QED
          BY <4>1, <4>2, <4>3
      <3> QED
        BY <3>2, <3>3
    <2> QED
      BY <1>2, <2>1, <2>2, <2>3
  <1>3. ASSUME NEW a \in Accounts, Revoke(a) \/ Readmit(a)
        PROVE  RowsAgree'
    BY <1>3 DEF Revoke, Readmit
  <1>4. ASSUME NEW w \in Workers, Sidecar(w)
        PROVE  RowsAgree'
    <2>1. CASE LeaseNext(w)
      BY <2>1 DEF LeaseNext
    <2>2. CASE \E n \in 1..MaxOutput : AppendEvents(w, n)
      <3>1. \/ run' = run /\ job' = job
            \/ /\ run' = [run EXCEPT ![worker[w].run].status = "running"]
               /\ job' = [job EXCEPT ![worker[w].run].status = "running"]
        BY <2>2 DEF AppendEvents, StoreBatch
      <3> QED
        BY <3>1
    <2>3. CASE Heartbeat(w)
      <3>1. \/ run' = run /\ job' = job
            \/ /\ run' = [run EXCEPT ![worker[w].run].lease = LeaseTtl]
               /\ job' = [job EXCEPT ![worker[w].run].lease = LeaseTtl]
        BY <2>3 DEF Heartbeat, Renewed
      <3> QED
        BY <3>1
    <2>4. CASE SettleSucceeded(w) \/ SettleFailed(w)
      <3>1. \/ run' = run /\ job' = job
            \/ \E status \in Terminal : Settle(worker[w].run, status)
        BY <2>4 DEF SettleSucceeded, SettleFailed, Terminal
      <3> QED
        BY <3>1, SettleAgrees
    <2>5. CASE \/ FetchContext(w) \/ Produce(w) \/ AppendRefused(w)
               \/ GiveUp(w) \/ Crash(w)
      BY <2>5 DEF FetchContext, Produce, AppendRefused, GiveUp, Crash
    <2> QED
      BY <1>4, <2>1, <2>2, <2>3, <2>4, <2>5 DEF Sidecar
  <1>5. CASE Tick
    BY <1>5 DEF Tick
  <1>6. CASE ReaperPass
    <2>1. ASSUME NEW r \in RunIds
          PROVE  /\ run'[r].status = job'[r].status
                 /\ run'[r].attempt = job'[r].attempt
                 /\ run'[r].cancel = job'[r].cancel
                 /\ run'[r].lease = job'[r].lease
      <3>1. CASE Stale(r)
        <4>1. /\ run'[r] = [run[r] EXCEPT !.status = ReapOutcome(r), !.lease = 0]
              /\ job'[r] = [job[r] EXCEPT !.status = ReapOutcome(r), !.lease = 0]
          BY <1>6, <3>1 DEF ReaperPass
        <4> QED
          BY <4>1
      <3>2. CASE ~Stale(r)
        BY <1>6, <3>2 DEF ReaperPass
      <3> QED
        BY <3>1, <3>2
    <2> QED
      BY <2>1
  <1>7. ASSUME NEW r \in RunIds, PruneFinished(r)
        PROVE  RowsAgree'
    BY <1>7 DEF PruneFinished, NoRun, NoJob
  <1>8. CASE UNCHANGED vars
    BY <1>8 DEF vars
  <1> QED
    BY <1>1, <1>2, <1>3, <1>4, <1>5, <1>6, <1>7, <1>8 DEF Next, Browser

\* The run row and the job row of a run agree in every reachable state,
\* whatever the order of leases, batches, settlements and reaper passes.
THEOREM RowsAlwaysAgree == Spec => []RowsAgree
  BY QueueAssumption, TypeCorrect, RowsAgreeInit, RowsAgreeStep, PTL DEF Spec

-----------------------------------------------------------------------------
(* The moves of a run row.  Every step of the queue makes each row stay or *)
(* make one of these; what holds of a row follows from them.               *)

Still(r) == /\ run'[r] = run[r]
            /\ run[r].status \in Terminal => events'[r] = events[r]

Admitted(r) == /\ run[r].status = "absent" /\ r = created + 1 /\ created' = r
               /\ \A q \in RunIds : run[q].status \in Active
                                      => run[q].session # run'[r].session
               /\ AccountAdmits(AccountOf[run'[r].session])
               /\ run'[r].status = "queued"
               /\ run'[r].attempt = 0 /\ run'[r].cancel = FALSE

Keeps(r) == run'[r].session = run[r].session /\ run'[r].cancel = run[r].cancel

Leased(r) == /\ run[r].status = "queued" /\ run'[r].status \in Executing
             /\ run'[r].attempt = run[r].attempt + 1 /\ Keeps(r)

Worked(r) == /\ run[r].status \in Executing /\ run'[r].status \in Executing
             /\ run'[r].attempt = run[r].attempt /\ Keeps(r)

Marked(r) == /\ run[r].status \in Active /\ run'[r].status = run[r].status
             /\ run'[r].attempt = run[r].attempt
             /\ run'[r].session = run[r].session /\ run'[r].cancel = TRUE

Requeued(r) == /\ run[r].status \in Executing /\ run'[r].status = "queued"
               /\ run[r].attempt < MaxAttempts /\ run[r].cancel = FALSE
               /\ run'[r].attempt = run[r].attempt /\ Keeps(r)

Ended(r) == /\ run[r].status \in Active /\ run'[r].status \in Terminal
            /\ run[r].status = "queued" => run'[r].status = "cancelled"
            /\ run[r].cancel => run'[r].status \in {"cancelled", "failed"}
            /\ run'[r].status = "expired" => run[r].attempt >= MaxAttempts
            /\ run'[r].attempt = run[r].attempt /\ Keeps(r)

Pruned(r) == run[r].status \in Terminal /\ run'[r] = NoRun

Moves == /\ created' = created \/ Admitted(created + 1)
         /\ \A r \in RunIds : \/ Still(r) \/ Admitted(r) \/ Leased(r)
                              \/ Worked(r) \/ Marked(r) \/ Requeued(r)
                              \/ Ended(r) \/ Pruned(r)

\* Rows are created in the order of their ids, and a row that does not exist
\* (yet, or no longer) is empty.
RowsInOrder ==
    \A r \in RunIds :
        /\ r > created => run[r] = NoRun
        /\ run[r].status = "absent" => run[r] = NoRun

\* A step that writes one row leaves every other row where it is.
LEMMA OneRowMoves ==
    ASSUME TypeOK, created' = created, NEW r \in RunIds, NEW row, NEW stream,
           run' = [run EXCEPT ![r] = row],
           events' = events \/ events' = [events EXCEPT ![r] = stream],
           \/ Still(r) \/ Leased(r) \/ Worked(r) \/ Marked(r) \/ Requeued(r)
           \/ Ended(r) \/ Pruned(r)
    PROVE  Moves
  <1>2. \A q \in RunIds \ {r} : Still(q)
    <2>1. \A q \in RunIds \ {r} : run'[q] = run[q] /\ events'[q] = events[q]
      BY DEF TypeOK
    <2> QED
      BY <2>1 DEF Still
  <1> QED
    BY <1>2 DEF Moves

\* A step that writes no row at all.
LEMMA NoRowMoves ==
    ASSUME TypeOK, UNCHANGED <<created, run>>,
           \A r \in RunIds : run[r].status \in Terminal => events'[r] = events[r]
    PROVE  Moves
  BY DEF Moves, Still

\* A settlement ends a run that is active.
LEMMA SettleMoves ==
    ASSUME TypeOK, created' = created, NEW r \in RunIds,
           NEW status \in {"succeeded", "failed", "cancelled"},
           Settle(r, status), run[r].status \in Active,
           run[r].status = "queued" => status = "cancelled"
    PROVE  Moves
  <1> DEFINE effective == Effective(r, status)
             row == [run[r] EXCEPT !.status = effective]
             stream == Append(events[r], ServerEvent(TerminalEventFor[effective]))
  <1>1. /\ effective \in {"succeeded", "failed", "cancelled"}
        /\ run[r].cancel => effective \in {"failed", "cancelled"}
        /\ status = "cancelled" => effective = "cancelled"
    BY DEF Effective
  <1>2. /\ run' = [run EXCEPT ![r] = row]
        /\ events' = [events EXCEPT ![r] = stream]
    BY DEF Settle
  <1>3. run'[r] = row
    BY <1>2, RowTypes
  <1> HIDE DEF effective, stream
  <1>4. run[r] \in RunRow
    BY RowTypes
  <1>5. /\ run'[r].status = effective /\ run'[r].attempt = run[r].attempt
        /\ run'[r].session = run[r].session /\ run'[r].cancel = run[r].cancel
    BY <1>3, <1>4 DEF RunRow
  <1>6. Ended(r)
    BY <1>1, <1>5 DEF Ended, Keeps, Terminal
  <1> HIDE DEF row
  <1> QED
    BY <1>2, <1>6, OneRowMoves

LEMMA FenceExecuting ==
    ASSUME NEW r, NEW attempt, NEW allowCancel, Fence(r, attempt, allowCancel)
    PROVE  run[r].status \in Executing
  BY DEF Fence

LEMMA SubmitMoves ==
    ASSUME QueueAssumption, TypeOK, RowsInOrder, NEW s \in Sessions,
           NEW k \in Keys, SubmitUserMessage(s, k)
    PROVE  Moves
  <1> DEFINE n == created + 1
             row == [NoRun EXCEPT !.session = s, !.status = "queued"]
  <1>1. /\ run' = [run EXCEPT ![n] = row] /\ created' = n
        /\ events' = [events EXCEPT ![n] = <<ServerEvent("message.user_added")>>]
        /\ created < MaxRuns /\ AccountAdmits(AccountOf[s])
        /\ \A q \in RunIds : run[q].status \in Active => run[q].session # s
    BY DEF SubmitUserMessage, SessionBusy
  <1>2. n \in RunIds /\ n > created
    BY <1>1 DEF TypeOK, RunIds, QueueAssumption
  <1>3. run[n].status = "absent"
    BY <1>2 DEF RowsInOrder, NoRun
  <1>4. run'[n] = row
    BY <1>1, <1>2, RowTypes
  <1>5. row.session = s /\ row.status = "queued" /\ row.attempt = 0
        /\ row.cancel = FALSE
    BY DEF NoRun
  <1>6. Admitted(n)
    BY <1>1, <1>3, <1>4, <1>5 DEF Admitted
  <1>7. \A q \in RunIds \ {n} : Still(q)
    <2>1. \A q \in RunIds \ {n} : run'[q] = run[q] /\ events'[q] = events[q]
      BY <1>1 DEF TypeOK
    <2> QED
      BY <2>1 DEF Still
  <1> QED
    BY <1>6, <1>7 DEF Moves

LEMMA LeaseMoves ==
    ASSUME TypeOK, RowsAgree, NEW w \in Workers, LeaseNext(w)
    PROVE  Moves
  <1>1. PICK r \in RunIds :
          /\ OldestQueued(r)
          /\ run' = [run EXCEPT ![r].status = "leased",
                                ![r].attempt = job[r].attempt + 1,
                                ![r].lease = LeaseTtl]
    BY DEF LeaseNext
  <1> DEFINE row == [run[r] EXCEPT !.status = "leased",
                                   !.attempt = job[r].attempt + 1,
                                   !.lease = LeaseTtl]
  <1>2. run[r].status = "queued" /\ job[r].attempt = run[r].attempt
    BY <1>1 DEF OldestQueued, RowsAgree
  <1>3. run' = [run EXCEPT ![r] = row]
    BY <1>1
  <1>4. run'[r] = row /\ run[r] \in RunRow
    BY <1>3, RowTypes
  <1>5. /\ run'[r].status = "leased" /\ run'[r].attempt = run[r].attempt + 1
        /\ run'[r].session = run[r].session /\ run'[r].cancel = run[r].cancel
    BY <1>2, <1>4 DEF RunRow
  <1>6. Leased(r)
    BY <1>2, <1>5 DEF Leased, Keeps, Executing
  <1>7. created' = created /\ events' = events
    BY DEF LeaseNext
  <1> HIDE DEF row
  <1> QED
    BY <1>3, <1>6, <1>7, OneRowMoves

LEMMA AppendMoves ==
    ASSUME TypeOK, NEW w \in Workers, NEW n \in 1..MaxOutput,
           AppendEvents(w, n)
    PROVE  Moves
  <1> DEFINE r == worker[w].run
             row == [run[r] EXCEPT !.status = "running"]
  <1>1. r \in RunIds
    BY HeldRun DEF AppendEvents, StoreBatch, Holds
  <1>2. run[r].status \in Executing /\ created' = created
    BY FenceExecuting DEF AppendEvents, StoreBatch, HeldFence
  <1>3. PICK stream : events' = [events EXCEPT ![r] = stream]
    BY DEF AppendEvents, StoreBatch
  <1>4. CASE run' = run
    <2>1. \A q \in RunIds : q # r => events'[q] = events[q]
      BY <1>3 DEF TypeOK
    <2>2. run[r].status \notin Terminal
      BY <1>2 DEF Executing, Terminal
    <2> QED
      BY <1>2, <1>4, <2>1, <2>2, NoRowMoves
  <1>5. CASE run' = [run EXCEPT ![r] = row]
    <2>1. run'[r] = row /\ run[r] \in RunRow
      BY <1>1, <1>5, RowTypes
    <2>2. /\ run'[r].status = "running" /\ run'[r].attempt = run[r].attempt
          /\ run'[r].session = run[r].session /\ run'[r].cancel = run[r].cancel
      BY <2>1 DEF RunRow
    <2>3. Worked(r)
      BY <1>2, <2>2 DEF Worked, Keeps, Executing
    <2> HIDE DEF row
    <2> QED
      BY <1>1, <1>2, <1>3, <1>5, <2>3, OneRowMoves
  <1>6. run' = run \/ run' = [run EXCEPT ![r] = row]
    BY DEF AppendEvents, StoreBatch
  <1> QED
    BY <1>4, <1>5, <1>6

LEMMA HeartbeatMoves ==
    ASSUME TypeOK, NEW w \in Workers, Heartbeat(w)
    PROVE  Moves
  <1> DEFINE r == worker[w].run
             row == [run[r] EXCEPT !.lease = LeaseTtl]
  <1>1. r \in RunIds /\ created' = created /\ events' = events
    BY HeldRun DEF Heartbeat
  <1>2. CASE run' = run
    BY <1>1, <1>2, NoRowMoves
  <1>3. CASE HeldFence(w, TRUE) /\ run' = [run EXCEPT ![r] = row]
    <2>1. run'[r] = row /\ run[r] \in RunRow
      BY <1>1, <1>3, RowTypes
    <2>2. /\ run'[r].status = run[r].status /\ run'[r].attempt = run[r].attempt
          /\ run'[r].session = run[r].session /\ run'[r].cancel = run[r].cancel
      BY <2>1 DEF RunRow
    <2>3. run[r].status \in Executing
      BY <1>3, FenceExecuting DEF HeldFence
    <2>4. Worked(r)
      BY <2>2, <2>3 DEF Worked, Keeps
    <2> HIDE DEF row
    <2> QED
      BY <1>1, <1>3, <2>4, OneRowMoves
  <1>4. \/ run' = run
        \/ HeldFence(w, TRUE) /\ run' = [run EXCEPT ![r] = row]
    BY DEF Heartbeat, Renewed
  <1> QED
    BY <1>2, <1>3, <1>4

LEMMA SidecarMoves ==
    ASSUME TypeOK, RowsAgree, NEW w \in Workers, Sidecar(w)
    PROVE  Moves
  <1>1. CASE LeaseNext(w)
    BY <1>1, LeaseMoves
  <1>2. CASE \E n \in 1..MaxOutput : AppendEvents(w, n)
    BY <1>2, AppendMoves
  <1>3. CASE Heartbeat(w)
    BY <1>3, HeartbeatMoves
  <1>4. CASE SettleSucceeded(w) \/ SettleFailed(w)
    <2>1. Holds(w) /\ created' = created
      BY <1>4 DEF SettleSucceeded, SettleFailed, ClaimsSuccess, Holds
    <2>2. CASE UNCHANGED <<run, events>>
      BY <2>1, <2>2, NoRowMoves
    <2>3. ASSUME NEW status \in {"succeeded", "failed"}, HeldFence(w, TRUE),
                 Settle(worker[w].run, status)
          PROVE  Moves
      <3>1. worker[w].run \in RunIds
        BY <2>1, HeldRun
      <3>2. run[worker[w].run].status \in Executing
        BY <2>3, FenceExecuting DEF HeldFence
      <3>3. /\ run[worker[w].run].status \in Active
            /\ run[worker[w].run].status # "queued"
        BY <3>2 DEF Executing, Active
      <3>4. status \in {"succeeded", "failed", "cancelled"}
        OBVIOUS
      <3> QED
        BY <2>1, <2>3, <3>1, <3>3, <3>4, SettleMoves
    <2>4. \/ UNCHANGED <<run, events>>
          \/ /\ HeldFence(w, TRUE)
             /\ \/ Settle(worker[w].run, "succeeded")
                \/ Settle(worker[w].run, "failed")
      BY <1>4 DEF SettleSucceeded, SettleFailed
    <2> QED
      BY <2>2, <2>3, <2>4
  <1>5. CASE \/ FetchContext(w) \/ Produce(w) \/ AppendRefused(w)
             \/ GiveUp(w) \/ Crash(w)
    <2>1. UNCHANGED <<run, events, created>>
      BY <1>5 DEF FetchContext, Produce, AppendRefused, GiveUp, Crash
    <2> QED
      BY <2>1, NoRowMoves
  <1> QED
    BY <1>1, <1>2, <1>3, <1>4, <1>5 DEF Sidecar

LEMMA ReaperMoves ==
    ASSUME TypeOK, RowsAgree, ReaperPass
    PROVE  Moves
  <1>1. ASSUME NEW r \in RunIds, Stale(r)
        PROVE  Requeued(r) \/ Ended(r)
    <2>1. run'[r] = [run[r] EXCEPT !.status = ReapOutcome(r), !.lease = 0]
      BY <1>1 DEF ReaperPass
    <2>2. run[r] \in RunRow
      BY RowTypes
    <2>3. /\ run'[r].status = ReapOutcome(r)
          /\ run'[r].attempt = run[r].attempt /\ Keeps(r)
      BY <2>1, <2>2 DEF RunRow, Keeps
    <2>4. run[r].status \in Executing /\ run[r].attempt = job[r].attempt
      BY <1>1 DEF Stale, RowsAgree
    <2>5. run[r].cancel = job[r].cancel /\ run[r].cancel \in BOOLEAN
      BY <2>2 DEF RowsAgree, RunRow
    <2>6. CASE ReapOutcome(r) = "queued"
      <3>1. ~job[r].cancel /\ ~(job[r].attempt >= MaxAttempts)
        BY <2>6 DEF ReapOutcome
      <3>2. run[r].attempt < MaxAttempts
        BY <2>2, <2>4, <3>1, QueueAssumption DEF QueueAssumption, RunRow
      <3>3. run[r].cancel = FALSE
        BY <2>5, <3>1
      <3> QED
        BY <2>3, <2>4, <2>6, <3>2, <3>3 DEF Requeued
    <2>7. CASE ReapOutcome(r) # "queued"
      <3>1. /\ ReapOutcome(r) \in Terminal
            /\ run[r].cancel => ReapOutcome(r) = "cancelled"
            /\ ReapOutcome(r) = "expired" => job[r].attempt >= MaxAttempts
        BY <2>5, <2>7 DEF ReapOutcome, Terminal
      <3> QED
        BY <2>3, <2>4, <3>1 DEF Ended, Executing, Active
    <2> QED
      BY <2>6, <2>7
  <1>2. ASSUME NEW r \in RunIds, ~Stale(r)
        PROVE  Still(r)
    BY <1>2 DEF ReaperPass, Still
  <1>3. created' = created
    BY DEF ReaperPass
  <1> QED
    BY <1>1, <1>2, <1>3 DEF Moves

LEMMA MovesStep ==
    ASSUME QueueAssumption, TypeOK, RowsAgree, RowsInOrder, [Next]_vars
    PROVE  Moves
  <1>1. ASSUME NEW s \in Sessions, NEW k \in Keys, SubmitUserMessage(s, k)
        PROVE  Moves
    BY <1>1, SubmitMoves
  <1>2. ASSUME NEW r \in RunIds, ReadForCancel(r) \/ CancelRefused(r)
        PROVE  Moves
    <2>1. UNCHANGED <<run, events, created>>
      BY <1>2 DEF ReadForCancel, CancelRefused
    <2> QED
      BY <2>1, NoRowMoves
  <1>3. ASSUME NEW r \in RunIds, CancelQueued(r)
        PROVE  Moves
    <2>1. /\ Settle(r, "cancelled") /\ run[r].status \in Active
          /\ created' = created
      BY <1>3 DEF CancelQueued
    <2> QED
      BY <2>1, SettleMoves
  <1>4. ASSUME NEW r \in RunIds, CancelExecuting(r)
        PROVE  Moves
    <2> DEFINE row == [run[r] EXCEPT !.cancel = TRUE]
    <2>1. /\ run' = [run EXCEPT ![r] = row] /\ run[r].status \in Active
          /\ created' = created /\ events' = events
      BY <1>4 DEF CancelExecuting
    <2>2. run'[r] = row /\ run[r] \in RunRow
      BY <2>1, RowTypes
    <2>3. /\ run'[r].status = run[r].status /\ run'[r].attempt = run[r].attempt
          /\ run'[r].session = run[r].session
      BY <2>2 DEF RunRow
    <2>4. run'[r].cancel = TRUE
      BY <2>2 DEF RunRow
    <2>5. Marked(r)
      BY <2>1, <2>3, <2>4 DEF Marked
    <2> HIDE DEF row
    <2> QED
      BY <2>1, <2>5, OneRowMoves
  <1>5. ASSUME NEW a \in Accounts, Revoke(a) \/ Readmit(a)
        PROVE  Moves
    <2>1. UNCHANGED <<run, events, created>>
      BY <1>5 DEF Revoke, Readmit
    <2> QED
      BY <2>1, NoRowMoves
  <1>6. ASSUME NEW w \in Workers, Sidecar(w)
        PROVE  Moves
    BY <1>6, SidecarMoves
  <1>7. CASE Tick
    <2>1. created' = created /\ events' = events
      BY <1>7 DEF Tick
    <2>2. ASSUME NEW r \in RunIds
          PROVE  Still(r) \/ Worked(r)
      <3>1. CASE run[r].status \in Executing /\ run[r].lease > 0
        <4>1. run'[r] = [run[r] EXCEPT !.lease = run[r].lease - 1]
          BY <1>7, <3>1 DEF Tick
        <4>2. run[r] \in RunRow
          BY RowTypes
        <4>3. /\ run'[r].status = run[r].status
              /\ run'[r].attempt = run[r].attempt
              /\ run'[r].session = run[r].session
              /\ run'[r].cancel = run[r].cancel
          BY <4>1, <4>2 DEF RunRow
        <4> QED
          BY <3>1, <4>3 DEF Worked, Keeps
      <3>2. CASE ~(run[r].status \in Executing /\ run[r].lease > 0)
        BY <1>7, <2>1, <3>2 DEF Tick, Still
      <3> QED
        BY <3>1, <3>2
    <2> QED
      BY <2>1, <2>2 DEF Moves
  <1>8. CASE ReaperPass
    BY <1>8, ReaperMoves
  <1>9. ASSUME NEW r \in RunIds, PruneFinished(r)
        PROVE  Moves
    <2>1. /\ run[r].status \in Terminal /\ created' = created
          /\ run' = [run EXCEPT ![r] = NoRun]
          /\ events' = [events EXCEPT ![r] = <<>>]
      BY <1>9 DEF PruneFinished
    <2>2. run'[r] = NoRun
      BY <2>1, RowTypes
    <2>3. Pruned(r)
      BY <2>1, <2>2 DEF Pruned
    <2> QED
      BY <2>1, <2>3, OneRowMoves
  <1>10. CASE UNCHANGED vars
    <2>1. UNCHANGED <<run, events, created>>
      BY <1>10 DEF vars
    <2> QED
      BY <2>1, NoRowMoves
  <1> QED
    BY <1>1, <1>2, <1>3, <1>4, <1>5, <1>6, <1>7, <1>8, <1>9, <1>10
       DEF Next, Browser

-----------------------------------------------------------------------------
(* What holds of the rows, from their moves.                               *)

LEMMA RowsInOrderStep ==
    ASSUME TypeOK, TypeOK', RowsInOrder, Moves
    PROVE  RowsInOrder'
  <1> SUFFICES ASSUME NEW r \in RunIds
               PROVE  /\ r > created' => run'[r] = NoRun
                      /\ run'[r].status = "absent" => run'[r] = NoRun
    BY DEF RowsInOrder
  <1>1. /\ created <= created' /\ created \in Nat /\ created' \in Nat
        /\ r \in Nat
    <2>1. created' = created \/ created' = created + 1
      BY DEF Moves, Admitted
    <2> QED
      BY <2>1 DEF TypeOK, RunIds
  <1>2. NoRun.status = "absent"
    BY DEF NoRun
  <1>3. run[r].status # "absent" => r <= created
    BY <1>1, <1>2 DEF RowsInOrder
  <1>4. CASE Still(r)
    BY <1>1, <1>4 DEF Still, RowsInOrder
  <1>5. CASE Admitted(r)
    <2>1. created' = r /\ run'[r].status = "queued"
      BY <1>5 DEF Admitted
    <2> QED
      BY <1>1, <2>1
  <1>6. CASE Pruned(r)
    BY <1>6 DEF Pruned
  <1>7. CASE \/ Leased(r) \/ Worked(r) \/ Marked(r) \/ Requeued(r) \/ Ended(r)
    <2>1. run[r].status # "absent" /\ run'[r].status # "absent"
      BY <1>7 DEF Leased, Worked, Marked, Requeued, Ended, Active, Executing,
                  Terminal
    <2> QED
      BY <1>1, <1>3, <2>1
  <1> QED
    BY <1>4, <1>5, <1>6, <1>7 DEF Moves

\* The queue as seen row by row: the inductive invariant.
QueueInv ==
    /\ TypeOK
    /\ RowsAgree
    /\ RowsInOrder
    /\ OneActiveRunPerSession
    /\ AttemptsBounded
    /\ CancelIntentHonoured

\* Only an admission makes an inactive row active, and a row never changes
\* its session while it is active.
LEMMA ActiveOrigin ==
    ASSUME Moves, NEW r \in RunIds, run'[r].status \in Active
    PROVE  \/ Admitted(r)
           \/ /\ run[r].status \in Active
              /\ run'[r].session = run[r].session
  BY DEF Moves, Still, Admitted, Leased, Worked, Marked, Requeued, Ended,
         Pruned, Keeps, NoRun, Active, Executing, Terminal

LEMMA OneActiveStep ==
    ASSUME TypeOK, OneActiveRunPerSession, Moves
    PROVE  OneActiveRunPerSession'
  <1>1. ASSUME NEW r \in RunIds, run'[r].status \in Active
        PROVE  \/ Admitted(r)
               \/ /\ run[r].status \in Active
                  /\ run'[r].session = run[r].session
    BY <1>1, ActiveOrigin
  <1>2. ASSUME NEW r \in RunIds, NEW q \in RunIds, Admitted(r), Admitted(q)
        PROVE  r = q
    BY <1>2 DEF Admitted
  <1> SUFFICES ASSUME NEW r \in RunIds, NEW q \in RunIds,
                      run'[r].status \in Active, run'[q].status \in Active,
                      run'[r].session = run'[q].session
               PROVE  r = q
    BY DEF OneActiveRunPerSession
  <1>3. CASE Admitted(r)
    BY <1>1, <1>2, <1>3 DEF Admitted
  <1>4. CASE Admitted(q)
    BY <1>1, <1>2, <1>4 DEF Admitted
  <1>5. CASE ~Admitted(r) /\ ~Admitted(q)
    BY <1>1, <1>5 DEF OneActiveRunPerSession
  <1> QED
    BY <1>3, <1>4, <1>5

LEMMA AttemptsStep ==
    ASSUME QueueAssumption, TypeOK, AttemptsBounded, Moves
    PROVE  AttemptsBounded'
  <1> SUFFICES ASSUME NEW r \in RunIds
               PROVE  /\ run'[r].attempt <= MaxAttempts
                      /\ run'[r].status = "queued" => run'[r].attempt < MaxAttempts
    BY DEF AttemptsBounded
  <1>1. /\ run[r].attempt <= MaxAttempts /\ run[r].attempt \in Nat
        /\ run[r].status = "queued" => run[r].attempt < MaxAttempts
    BY RowTypes DEF AttemptsBounded, RunRow
  <1>2. MaxAttempts \in Nat \ {0}
    BY DEF QueueAssumption
  <1>3. \/ Still(r) \/ Admitted(r) \/ Leased(r) \/ Worked(r) \/ Marked(r)
        \/ Requeued(r) \/ Ended(r) \/ Pruned(r)
    BY DEF Moves
  <1> QED
    BY <1>1, <1>2, <1>3 DEF Still, Admitted, Leased, Worked, Marked, Requeued,
       Ended, Pruned, NoRun, Executing, Terminal

LEMMA CancelIntentStep ==
    ASSUME CancelIntentHonoured, Moves
    PROVE  CancelIntentHonoured'
  <1> SUFFICES ASSUME NEW r \in RunIds, run'[r].cancel
               PROVE  run'[r].status \notin {"succeeded", "expired"}
    BY DEF CancelIntentHonoured
  <1>1. CASE Still(r)
    BY <1>1 DEF Still, CancelIntentHonoured
  <1>2. CASE Ended(r)
    BY <1>2 DEF Ended, Keeps
  <1>3. CASE Admitted(r) \/ Leased(r) \/ Worked(r) \/ Marked(r) \/ Requeued(r)
    BY <1>3 DEF Admitted, Leased, Worked, Marked, Requeued, Active, Executing
  <1>4. CASE Pruned(r)
    BY <1>4 DEF Pruned, NoRun
  <1> QED
    BY <1>1, <1>2, <1>3, <1>4 DEF Moves

LEMMA QueueInvInit == ASSUME QueueAssumption PROVE Init => QueueInv
  <1> SUFFICES ASSUME Init PROVE QueueInv
    OBVIOUS
  <1>1. \A r \in RunIds : run[r] = NoRun
    BY DEF Init
  <1>2. NoRun.status = "absent" /\ NoRun.attempt = 0
    BY DEF NoRun
  <1>3. OneActiveRunPerSession /\ CancelIntentHonoured
    BY <1>1, <1>2 DEF OneActiveRunPerSession, CancelIntentHonoured, Active,
                      Executing
  <1>4. AttemptsBounded /\ RowsInOrder
    BY <1>1, <1>2 DEF AttemptsBounded, RowsInOrder, QueueAssumption
  <1> QED
    BY <1>3, <1>4, TypeInit, RowsAgreeInit DEF QueueInv

LEMMA QueueInvStep ==
    ASSUME QueueAssumption PROVE QueueInv /\ [Next]_vars => QueueInv'
  <1> SUFFICES ASSUME QueueInv, [Next]_vars PROVE QueueInv'
    OBVIOUS
  <1>1. TypeOK' /\ RowsAgree'
    BY TypeStep, RowsAgreeStep DEF QueueInv
  <1>2. Moves
    BY MovesStep DEF QueueInv
  <1> QED
    BY <1>1, <1>2, RowsInOrderStep, OneActiveStep, AttemptsStep,
       CancelIntentStep DEF QueueInv

LEMMA QueueInvariant == Spec => []QueueInv
  BY QueueAssumption, QueueInvInit, QueueInvStep, PTL DEF Spec

\* A session never has two runs that are queued, leased or running.
THEOREM OneActiveRun == Spec => []OneActiveRunPerSession
  <1>1. QueueInv => OneActiveRunPerSession
    BY DEF QueueInv
  <1> QED
    BY <1>1, QueueInvariant, PTL

\* No run is handed out more than MaxAttempts times, and one that waits has an
\* attempt left.
THEOREM BoundedAttempts == Spec => []AttemptsBounded
  <1>1. QueueInv => AttemptsBounded
    BY DEF QueueInv
  <1> QED
    BY <1>1, QueueInvariant, PTL

\* A run somebody asked to cancel never ends as a success or a timeout.
THEOREM CancelWins == Spec => []CancelIntentHonoured
  <1>1. QueueInv => CancelIntentHonoured
    BY DEF QueueInv
  <1> QED
    BY <1>1, QueueInvariant, PTL

\* A run that ended keeps its row and its stream until retention removes it:
\* no late batch, settlement, cancellation or reaper pass revives it.
THEOREM EndedStaysEnded == Spec => TerminalIsFinal
  <1> DEFINE Final(r) == run[r].status \in Terminal =>
                \/ run'[r] = run[r] /\ events'[r] = events[r]
                \/ run'[r] = NoRun
  <1>1. ASSUME Moves, NEW r \in RunIds
        PROVE  Final(r)
    BY <1>1 DEF Moves, Still, Admitted, Leased, Worked, Marked, Requeued, Ended,
                Pruned, Active, Executing, Terminal
  <1>2. ASSUME QueueInv, [Next]_vars
        PROVE  [\A r \in RunIds : Final(r)]_vars
    <2>1. Moves
      BY <1>2, QueueAssumption, MovesStep DEF QueueInv
    <2> QED
      BY <1>1, <2>1
  <1> QED
    BY <1>2, QueueInvariant, PTL DEF Spec, TerminalIsFinal

-----------------------------------------------------------------------------
(* The queue implements the lifecycle of a run.                            *)

\* Every move of a row is a step of the lifecycle, or none.
LEMMA MovesRefine ==
    ASSUME QueueInv, QueueInv', Moves, NEW r \in RunIds
    PROVE  Lifecycle!Step(r) \/ Lifecycle!Same(r)
  <1>1. run[r] \in RunRow /\ run'[r] \in RunRow
    BY DEF QueueInv, TypeOK
  <1>2. /\ run[r].status = "queued" => LifecyclePhase(r) = "waiting"
        /\ run[r].status \in Executing => LifecyclePhase(r) = "trying"
        /\ run[r].status \in Terminal => LifecyclePhase(r) = run[r].status
        /\ run[r].status = "absent" =>
             LifecyclePhase(r) = IF r <= created THEN "gone" ELSE "new"
    BY DEF LifecyclePhase, Executing, Terminal
  <1>3. /\ run'[r].status = "queued" => LifecyclePhase(r)' = "waiting"
        /\ run'[r].status \in Executing => LifecyclePhase(r)' = "trying"
        /\ run'[r].status \in Terminal => LifecyclePhase(r)' = run'[r].status
        /\ run'[r].status = "absent" =>
             LifecyclePhase(r)' = IF r <= created' THEN "gone" ELSE "new"
    BY DEF LifecyclePhase, Executing, Terminal
  <1>4. r \in Nat /\ created \in Nat /\ created' \in Nat /\ created <= created'
    BY DEF QueueInv, TypeOK, RunIds, Moves, Admitted
  <1>5. /\ run[r].attempt \in Nat /\ run[r].attempt <= MaxAttempts
        /\ run[r].status = "queued" => run[r].attempt < MaxAttempts
    BY <1>1 DEF QueueInv, AttemptsBounded, RunRow
  <1>6. /\ run[r].status # "absent" => r <= created
        /\ run[r].status \in Status
    BY <1>1, <1>4 DEF QueueInv, RowsInOrder, NoRun, RunRow
  <1> USE DEF Lifecycle!Step, Lifecycle!Same
  <1>7. CASE Still(r)
    <2>1. LifecyclePhase(r)' = LifecyclePhase(r)
      <3>1. CASE run[r].status = "absent"
        <4>1. r <= created' => r <= created
          BY <1>4, <1>7, <3>1 DEF Moves, Still, Admitted
        <4> QED
          BY <1>2, <1>3, <1>4, <1>7, <3>1, <4>1 DEF Still
      <3>2. CASE run[r].status # "absent"
        BY <1>2, <1>3, <1>6, <1>7, <3>2 DEF Still, Status, Active
      <3> QED
        BY <3>1, <3>2
    <2> QED
      BY <1>7, <2>1 DEF Still
  <1>8. CASE Admitted(r)
    <2>1. LifecyclePhase(r) = "new" /\ LifecyclePhase(r)' = "waiting"
      BY <1>2, <1>3, <1>4, <1>8 DEF Admitted
    <2> QED
      BY <1>8, <2>1 DEF Admitted, Lifecycle!Admit
  <1>9. CASE Leased(r)
    <2>1. LifecyclePhase(r) = "waiting" /\ LifecyclePhase(r)' = "trying"
      BY <1>2, <1>3, <1>9 DEF Leased
    <2> QED
      BY <1>5, <1>9, <2>1 DEF Leased, Keeps, Lifecycle!Try
  <1>10. CASE Worked(r)
    <2>1. LifecyclePhase(r) = "trying" /\ LifecyclePhase(r)' = "trying"
      BY <1>2, <1>3, <1>10 DEF Worked
    <2> QED
      BY <1>10, <2>1 DEF Worked, Keeps
  <1>11. CASE Marked(r)
    <2>1. /\ LifecyclePhase(r) \in {"waiting", "trying"}
          /\ LifecyclePhase(r)' = LifecyclePhase(r)
      BY <1>2, <1>3, <1>11 DEF Marked, Active
    <2> QED
      BY <1>11, <2>1 DEF Marked, Lifecycle!Want
  <1>12. CASE Requeued(r)
    <2>1. LifecyclePhase(r) = "trying" /\ LifecyclePhase(r)' = "waiting"
      BY <1>2, <1>3, <1>12 DEF Requeued
    <2> QED
      BY <1>12, <2>1 DEF Requeued, Keeps, Lifecycle!Retry
  <1>13. CASE Ended(r)
    <2>1. /\ LifecyclePhase(r) \in {"waiting", "trying"}
          /\ LifecyclePhase(r)' = run'[r].status
          /\ LifecyclePhase(r) = "waiting" => run[r].status = "queued"
      BY <1>2, <1>3, <1>13 DEF Ended, Active
    <2>2. run'[r].status = "expired" => run[r].attempt = MaxAttempts
      BY <1>5, <1>13, QueueAssumption DEF Ended, QueueAssumption
    <2> QED
      BY <1>13, <2>1, <2>2 DEF Ended, Keeps, Terminal, Lifecycle!End,
                               Lifecycle!Ends
  <1>14. CASE Pruned(r)
    <2>1. /\ LifecyclePhase(r) \in Terminal /\ LifecyclePhase(r)' = "gone"
          /\ run'[r].attempt = 0 /\ run'[r].cancel = FALSE
      BY <1>2, <1>3, <1>4, <1>6, <1>14 DEF Pruned, NoRun, Terminal
    <2> QED
      BY <2>1 DEF Terminal, Lifecycle!Forget, Lifecycle!Ends
  <1> QED
    BY <1>7, <1>8, <1>9, <1>10, <1>11, <1>12, <1>13, <1>14 DEF Moves

\* Whatever workers, network, browser and reaper do, the queue is a lifecycle
\* of runs: each admitted once, tried a bounded number of times, ended once.
THEOREM QueueImplementsLifecycle == Spec => ImplementsLifecycle
  <1>1. Init => Lifecycle!Init
    <2> SUFFICES ASSUME Init PROVE Lifecycle!Init
      OBVIOUS
    <2>1. \A r \in RunIds : run[r] = NoRun /\ ~(r <= created)
      BY DEF Init, RunIds
    <2>2. \A r \in RunIds : LifecyclePhase(r) = "new"
      BY <2>1 DEF LifecyclePhase, NoRun, Executing, Terminal
    <2>3. \A r \in RunIds : run[r].attempt = 0 /\ run[r].cancel = FALSE
      BY <2>1 DEF NoRun
    <2> QED
      BY <2>2, <2>3 DEF Lifecycle!Init
  <1>2. QueueInv /\ QueueInv' /\ [Next]_vars => [Lifecycle!Next]_(Lifecycle!vars)
    <2> SUFFICES ASSUME QueueInv, QueueInv', [Next]_vars PROVE Lifecycle!Next
      OBVIOUS
    <2>1. Moves
      BY QueueAssumption, MovesStep DEF QueueInv
    <2> QED
      BY <2>1, MovesRefine DEF Lifecycle!Next
  <1> QED
    BY <1>1, <1>2, QueueInvariant, PTL DEF Spec, ImplementsLifecycle,
       Lifecycle!Spec

-----------------------------------------------------------------------------
(* The account limit.                                                      *)

\* While the counters are not bootstrapped, an admission counts the rows of
\* the account inside its transaction; every other move only shrinks the set.
LEMMA AccountLimitStep ==
    ASSUME QueueAssumption, ~Bootstrapped, QueueInv, AccountWithinLimit, Moves,
           NEW a \in Accounts
    PROVE  Cardinality(ActiveRunsOf(a)') <= AccountLimit
  <1> DEFINE before == ActiveRunsOf(a)
             after == ActiveRunsOf(a)'
  <1>1. IsFiniteSet(before) /\ IsFiniteSet(after)
    <2>1. IsFiniteSet(RunIds)
      BY FS_Interval DEF RunIds, QueueAssumption
    <2>2. before \subseteq RunIds /\ after \subseteq RunIds
      BY DEF ActiveRunsOf
    <2> QED
      BY <2>1, <2>2, FS_Subset
  <1>2. /\ Cardinality(before) \in Nat /\ Cardinality(before) <= AccountLimit
        /\ Cardinality(after) \in Nat /\ AccountLimit \in Nat
    BY <1>1, FS_CardinalityType DEF AccountWithinLimit, QueueAssumption
  <1>3. \A r \in after : Admitted(r) \/ r \in before
    BY ActiveOrigin DEF ActiveRunsOf, OwnerOf
  <1>4. CASE \E r \in after : Admitted(r)
    <2>1. PICK r \in after : Admitted(r)
      BY <1>4
    <2>2. Cardinality(before) < AccountLimit
      BY <2>1 DEF Admitted, AccountAdmits, ActiveRunsOf, OwnerOf
    <2>3. after \subseteq before \cup {r}
      BY <1>3, <2>1 DEF Admitted
    <2>4. /\ IsFiniteSet(before \cup {r})
          /\ Cardinality(before \cup {r}) \in Nat
          /\ Cardinality(before \cup {r}) <= Cardinality(before) + 1
      <3> HIDE DEF before
      <3>1. /\ IsFiniteSet(before \cup {r})
            /\ Cardinality(before \cup {r}) =
                 IF r \in before THEN Cardinality(before)
                                 ELSE Cardinality(before) + 1
        BY <1>1, FS_AddElement
      <3> QED
        BY <1>2, <3>1
    <2>5. Cardinality(after) <= Cardinality(before \cup {r})
      BY <2>3, <2>4, FS_Subset
    <2> QED
      BY <1>2, <2>2, <2>4, <2>5
  <1>5. CASE ~ \E r \in after : Admitted(r)
    <2>1. after \subseteq before
      BY <1>3, <1>5
    <2>2. Cardinality(after) <= Cardinality(before)
      BY <1>1, <2>1, FS_Subset
    <2> QED
      BY <1>2, <2>2
  <1> QED
    BY <1>4, <1>5

\* Without the capacity counters an account never has more active runs than
\* its limit.
THEOREM AccountLimitHolds == ~Bootstrapped /\ Spec => []AccountWithinLimit
  <1> SUFFICES ASSUME ~Bootstrapped PROVE Spec => []AccountWithinLimit
    OBVIOUS
  <1>1. QueueInv /\ Init => AccountWithinLimit
    <2> SUFFICES ASSUME Init, NEW a \in Accounts
                 PROVE  Cardinality(ActiveRunsOf(a)) <= AccountLimit
      BY DEF AccountWithinLimit
    <2>1. ActiveRunsOf(a) = {}
      BY DEF Init, ActiveRunsOf, NoRun, Active, Executing
    <2> QED
      BY <2>1, FS_EmptySet, QueueAssumption DEF QueueAssumption
  <1>2. QueueInv /\ AccountWithinLimit /\ [Next]_vars => AccountWithinLimit'
    <2> SUFFICES ASSUME QueueInv, AccountWithinLimit, [Next]_vars
                 PROVE  AccountWithinLimit'
      OBVIOUS
    <2>1. Moves
      BY QueueAssumption, MovesStep DEF QueueInv
    <2> QED
      BY <2>1, QueueAssumption, AccountLimitStep DEF AccountWithinLimit
  <1> QED
    BY <1>1, <1>2, QueueInvariant, PTL DEF Spec

-----------------------------------------------------------------------------
(* Tokens and streams.  Every step makes each slot and each stream stay or *)
(* make one of these moves; who may still write a stream, and what a       *)
(* reader of it sees, follows from them.                                   *)

\* The store of a batch, confirmed to the worker or not.
Wrote(w) == \E n \in 1..MaxOutput :
               /\ StoreBatch(w, n)
               /\ \/ worker'[w] = worker[w]
                  \/ worker'[w] = [worker[w] EXCEPT !.acked = n]

Rests(w) == worker'[w] = worker[w]

Leaves(w) == \/ worker'[w] = IdleSlot
             \/ Holds(w) /\ worker'[w] = [worker[w] EXCEPT !.phase = "failing"]

Takes(w) == /\ \A v \in Workers \ {w} : worker'[v] = worker[v]
            /\ events' = events
            /\ \E r \in RunIds :
                 /\ run[r].status = "queued" /\ run'[r].status = "leased"
                 /\ run'[r].attempt = run[r].attempt + 1
                 /\ worker'[w] = [IdleSlot EXCEPT !.phase = "fetching",
                                     !.run = r, !.attempt = run[r].attempt + 1]

Begins(w) == /\ worker[w].phase = "fetching"
             /\ worker'[w] = [worker[w] EXCEPT !.phase = "running",
                                !.base = Len(events[worker[w].run])]
             /\ events' = events

Makes(w) == /\ worker[w].phase = "running"
            /\ worker'[w] = [worker[w] EXCEPT !.produced = worker[w].produced + 1]
            /\ events' = events

SlotMoves == \A w \in Workers : \/ Rests(w) \/ Leaves(w) \/ Takes(w)
                                \/ Begins(w) \/ Makes(w) \/ Wrote(w)

Kept(r) == /\ events'[r] = events[r]
           /\ \/ run'[r].status = run[r].status
              \/ run[r].status \in Active /\ run'[r].status \in Active

Opened(r) == /\ run[r].status = "absent" /\ run'[r].status = "queued"
             /\ r = created + 1
             /\ events'[r] = <<ServerEvent("message.user_added")>>

Answered(r) == \E w \in Workers :
                  ClaimsSuccess(w) /\ HeldFence(w, TRUE) /\ worker[w].run = r

Closed(r) == /\ run[r].status \in Active /\ run'[r].status \in Terminal
             /\ run'[r].status = "succeeded" => Answered(r)
             /\ events'[r] = Append(events[r],
                               ServerEvent(TerminalEventFor[run'[r].status]))

Emptied(r) == run'[r] = NoRun /\ events'[r] = <<>>

Written(r) == /\ run[r].status \in Executing /\ run'[r].status \in Executing
              /\ \E w \in Workers : Wrote(w) /\ worker[w].run = r

StreamMoves == \A r \in RunIds : \/ Kept(r) \/ Opened(r) \/ Closed(r)
                                 \/ Emptied(r) \/ Written(r)

\* A step that writes one slot leaves every other slot where it is.
LEMMA OneSlotMoves ==
    ASSUME TypeOK, NEW w \in Workers, NEW slot,
           worker' = [worker EXCEPT ![w] = slot],
           Rests(w) \/ Leaves(w) \/ Takes(w) \/ Begins(w) \/ Makes(w) \/ Wrote(w)
    PROVE  SlotMoves
  <1>1. \A v \in Workers \ {w} : Rests(v)
    BY WorkerTypes DEF Rests
  <1> QED
    BY <1>1 DEF SlotMoves

\* A step that writes one run and its stream leaves every other where it is.
LEMMA OneStreamMoves ==
    ASSUME TypeOK, NEW r \in RunIds, NEW row, NEW stream,
           run' = run \/ run' = [run EXCEPT ![r] = row],
           events' = events \/ events' = [events EXCEPT ![r] = stream],
           Kept(r) \/ Opened(r) \/ Closed(r) \/ Emptied(r) \/ Written(r)
    PROVE  StreamMoves
  <1>1. \A q \in RunIds \ {r} : Kept(q)
    <2>1. \A q \in RunIds \ {r} : run'[q] = run[q] /\ events'[q] = events[q]
      BY DEF TypeOK
    <2> QED
      BY <2>1 DEF Kept
  <1> QED
    BY <1>1 DEF StreamMoves

LEMMA NoStreamMoves ==
    ASSUME TypeOK, UNCHANGED <<run, events>>
    PROVE  StreamMoves
  BY DEF StreamMoves, Kept

LEMMA NoSlotMoves ==
    ASSUME UNCHANGED worker PROVE SlotMoves
  BY DEF SlotMoves, Rests

\* A slot that is freed, or that falls into the catch block.
LEMMA LeavesMoves ==
    ASSUME TypeOK, NEW w \in Workers, Holds(w)
    PROVE  /\ ToPhase(w, "failing") => SlotMoves
           /\ ToIdle(w) => SlotMoves
  <1>1. ASSUME ToPhase(w, "failing") PROVE SlotMoves
    <2> DEFINE slot == [worker[w] EXCEPT !.phase = "failing"]
    <2>1. worker' = [worker EXCEPT ![w] = slot]
      BY <1>1 DEF ToPhase
    <2>2. worker'[w] = slot
      BY <2>1, WorkerTypes
    <2>3. Leaves(w)
      BY <2>2 DEF Leaves
    <2> HIDE DEF slot
    <2> QED
      BY <2>1, <2>3, OneSlotMoves
  <1>2. ASSUME ToIdle(w) PROVE SlotMoves
    <2>1. worker' = [worker EXCEPT ![w] = IdleSlot]
      BY <1>2 DEF ToIdle
    <2>2. worker'[w] = IdleSlot
      BY <2>1, WorkerTypes
    <2> QED
      BY <2>1, <2>2, OneSlotMoves DEF Leaves
  <1> QED
    BY <1>1, <1>2

\* A settlement closes the stream it settles, and no other.
LEMMA SettleStream ==
    ASSUME TypeOK, NEW r \in RunIds,
           NEW status \in {"succeeded", "failed", "cancelled"},
           Settle(r, status), run[r].status \in Active,
           status = "succeeded" => Answered(r)
    PROVE  StreamMoves
  <1> DEFINE effective == Effective(r, status)
             row == [run[r] EXCEPT !.status = effective]
             stream == Append(events[r], ServerEvent(TerminalEventFor[effective]))
  <1>1. /\ effective \in Terminal
        /\ effective = "succeeded" => status = "succeeded"
    BY DEF Effective, Terminal
  <1>2. /\ run' = [run EXCEPT ![r] = row]
        /\ events' = [events EXCEPT ![r] = stream]
    BY DEF Settle
  <1>3. run'[r] = row /\ events'[r] = stream
    BY <1>2, RowTypes DEF TypeOK
  <1> HIDE DEF effective
  <1>4. run'[r].status = effective
    BY <1>3, RowTypes DEF RunRow
  <1>5. Closed(r)
    BY <1>1, <1>3, <1>4 DEF Closed
  <1> HIDE DEF row, stream
  <1> QED
    BY <1>2, <1>5, OneStreamMoves

LEMMA LeaseFlow ==
    ASSUME TypeOK, RowsAgree, NEW w \in Workers, LeaseNext(w)
    PROVE  SlotMoves /\ StreamMoves
  <1>1. PICK r \in RunIds :
          /\ OldestQueued(r)
          /\ run' = [run EXCEPT ![r].status = "leased",
                                ![r].attempt = job[r].attempt + 1,
                                ![r].lease = LeaseTtl]
          /\ \/ worker' = [worker EXCEPT ![w] =
                  [IdleSlot EXCEPT !.phase = "fetching", !.run = r,
                                   !.attempt = job[r].attempt + 1]]
             \/ UNCHANGED worker
    BY DEF LeaseNext
  <1> DEFINE row == [run[r] EXCEPT !.status = "leased",
                                   !.attempt = job[r].attempt + 1,
                                   !.lease = LeaseTtl]
             slot == [IdleSlot EXCEPT !.phase = "fetching", !.run = r,
                                      !.attempt = job[r].attempt + 1]
  <1>2. run[r].status = "queued" /\ job[r].attempt = run[r].attempt
    BY <1>1 DEF OldestQueued, RowsAgree
  <1>3. run' = [run EXCEPT ![r] = row] /\ events' = events
    BY <1>1 DEF LeaseNext
  <1>4. run'[r] = row
    BY <1>3, RowTypes
  <1>5. run'[r].status = "leased" /\ run'[r].attempt = run[r].attempt + 1
    BY <1>2, <1>4, RowTypes DEF RunRow
  <1>6. Kept(r)
    BY <1>2, <1>3, <1>5 DEF Kept, Active, Executing
  <1>7. StreamMoves
    <2> HIDE DEF row
    <2> QED
      BY <1>3, <1>6, OneStreamMoves
  <1>8. ASSUME worker' = [worker EXCEPT ![w] = slot] PROVE SlotMoves
    <2>1. /\ worker'[w] = slot
          /\ \A v \in Workers \ {w} : worker'[v] = worker[v]
      BY <1>8, WorkerTypes
    <2>2. Takes(w)
      BY <1>2, <1>3, <1>5, <2>1 DEF Takes
    <2> HIDE DEF slot
    <2> QED
      BY <1>8, <2>2, OneSlotMoves
  <1> QED
    BY <1>1, <1>7, <1>8, NoSlotMoves

LEMMA FetchFlow ==
    ASSUME TypeOK, NEW w \in Workers, FetchContext(w)
    PROVE  SlotMoves /\ StreamMoves
  <1>1. StreamMoves
    BY NoStreamMoves DEF FetchContext
  <1> DEFINE slot == [worker[w] EXCEPT !.phase = "running",
                                       !.base = Len(events[worker[w].run])]
  <1>2. /\ Holds(w) /\ worker[w].phase = "fetching" /\ events' = events
        /\ ToPhase(w, "failing") \/ ToIdle(w)
             \/ worker' = [worker EXCEPT ![w] = slot]
    BY DEF FetchContext, Holds
  <1>3. ASSUME worker' = [worker EXCEPT ![w] = slot] PROVE SlotMoves
    <2>1. worker'[w] = slot
      BY <1>3, WorkerTypes
    <2>2. Begins(w)
      BY <1>2, <2>1 DEF Begins
    <2> HIDE DEF slot
    <2> QED
      BY <1>3, <2>2, OneSlotMoves
  <1> QED
    BY <1>1, <1>2, <1>3, LeavesMoves

LEMMA ProduceFlow ==
    ASSUME TypeOK, NEW w \in Workers, Produce(w)
    PROVE  SlotMoves /\ StreamMoves
  <1>1. StreamMoves
    BY NoStreamMoves DEF Produce
  <1> DEFINE slot == [worker[w] EXCEPT !.produced = worker[w].produced + 1]
  <1>2. /\ worker[w].phase = "running" /\ events' = events
        /\ worker' = [worker EXCEPT ![w] = slot]
    BY DEF Produce
  <1>3. worker'[w] = slot
    BY <1>2, WorkerTypes
  <1>4. Makes(w)
    BY <1>2, <1>3 DEF Makes
  <1> HIDE DEF slot
  <1> QED
    BY <1>1, <1>2, <1>4, OneSlotMoves

LEMMA AppendFlow ==
    ASSUME TypeOK, NEW w \in Workers, NEW n \in 1..MaxOutput,
           AppendEvents(w, n)
    PROVE  SlotMoves /\ StreamMoves
  <1> DEFINE r == worker[w].run
             slot == [worker[w] EXCEPT !.acked = n]
             row == [run[r] EXCEPT !.status = "running"]
  <1>1. StoreBatch(w, n)
    BY DEF AppendEvents
  <1>2. r \in RunIds /\ run[r].status \in Executing
    BY <1>1, HeldRun, FenceExecuting DEF StoreBatch, Holds, HeldFence
  <1>3. worker' = [worker EXCEPT ![w] = slot] \/ worker' = worker
    BY DEF AppendEvents
  <1>4. worker'[w] = slot \/ worker'[w] = worker[w]
    BY <1>3, WorkerTypes
  <1>5. Wrote(w)
    BY <1>1, <1>4 DEF Wrote
  <1>6. SlotMoves
    <2> HIDE DEF slot
    <2> QED
      BY <1>3, <1>5, OneSlotMoves, NoSlotMoves
  <1>7. PICK stream : events' = [events EXCEPT ![r] = stream]
    BY <1>1 DEF StoreBatch
  <1>8. run' = [run EXCEPT ![r] = row] \/ run' = run
    BY <1>1 DEF StoreBatch
  <1>9. run'[r].status \in Executing
    BY <1>2, <1>8, RowTypes DEF RunRow, Executing
  <1>10. Written(r)
    BY <1>2, <1>5, <1>9 DEF Written
  <1> HIDE DEF row
  <1> QED
    BY <1>2, <1>6, <1>7, <1>8, <1>10, OneStreamMoves

LEMMA HeartbeatFlow ==
    ASSUME TypeOK, NEW w \in Workers, Heartbeat(w)
    PROVE  SlotMoves /\ StreamMoves
  <1> DEFINE r == worker[w].run
             row == [run[r] EXCEPT !.lease = LeaseTtl]
  <1>1. r \in RunIds /\ events' = events /\ Holds(w)
    BY HeldRun DEF Heartbeat
  <1>2. run' = run \/ run' = [run EXCEPT ![r] = row]
    BY DEF Heartbeat, Renewed
  <1>3. run'[r].status = run[r].status
    BY <1>1, <1>2, RowTypes DEF RunRow
  <1>4. Kept(r)
    BY <1>1, <1>3 DEF Kept
  <1>5. StreamMoves
    <2> HIDE DEF row
    <2> QED
      BY <1>1, <1>2, <1>4, OneStreamMoves
  <1>6. SlotMoves
    BY <1>1, LeavesMoves, NoSlotMoves DEF Heartbeat
  <1> QED
    BY <1>5, <1>6

LEMMA SettleFlow ==
    ASSUME TypeOK, NEW w \in Workers, SettleSucceeded(w) \/ SettleFailed(w)
    PROVE  SlotMoves /\ StreamMoves
  <1>1. Holds(w)
    BY DEF SettleSucceeded, SettleFailed, ClaimsSuccess, Holds
  <1>2. SlotMoves
    BY <1>1, LeavesMoves DEF SettleSucceeded, SettleFailed
  <1>3. worker[w].run \in RunIds
    BY <1>1, HeldRun
  <1>4. ASSUME HeldFence(w, TRUE)
        PROVE  run[worker[w].run].status \in Active
    BY <1>4, FenceExecuting DEF HeldFence, Executing, Active
  <1>5. CASE UNCHANGED <<run, events>>
    BY <1>2, <1>5, NoStreamMoves
  <1>6. CASE HeldFence(w, TRUE) /\ Settle(worker[w].run, "failed")
    <2>1. "failed" \in {"succeeded", "failed", "cancelled"}
      OBVIOUS
    <2> QED
      BY <1>2, <1>3, <1>4, <1>6, <2>1, SettleStream
  <1>7. CASE /\ HeldFence(w, TRUE) /\ Settle(worker[w].run, "succeeded")
             /\ ClaimsSuccess(w)
    <2>1. Answered(worker[w].run)
      BY <1>7 DEF Answered
    <2>2. "succeeded" \in {"succeeded", "failed", "cancelled"}
      OBVIOUS
    <2> QED
      BY <1>2, <1>3, <1>4, <1>7, <2>1, <2>2, SettleStream
  <1> QED
    BY <1>5, <1>6, <1>7 DEF SettleSucceeded, SettleFailed

LEMMA SidecarFlow ==
    ASSUME TypeOK, RowsAgree, NEW w \in Workers, Sidecar(w)
    PROVE  SlotMoves /\ StreamMoves
  <1>1. CASE AppendRefused(w) \/ GiveUp(w) \/ Crash(w)
    <2>1. Holds(w)
      BY <1>1 DEF AppendRefused, GiveUp, Crash, Holds
    <2>2. SlotMoves
      BY <1>1, <2>1, LeavesMoves DEF AppendRefused, GiveUp, Crash
    <2>3. StreamMoves
      BY <1>1, NoStreamMoves DEF AppendRefused, GiveUp, Crash
    <2> QED
      BY <2>2, <2>3
  <1> QED
    BY <1>1, LeaseFlow, FetchFlow, ProduceFlow, AppendFlow, HeartbeatFlow,
       SettleFlow DEF Sidecar

LEMMA FlowStep ==
    ASSUME QueueAssumption, TypeOK, RowsAgree, RowsInOrder, [Next]_vars
    PROVE  SlotMoves /\ StreamMoves
  <1>1. ASSUME NEW s \in Sessions, NEW k \in Keys, SubmitUserMessage(s, k)
        PROVE  SlotMoves /\ StreamMoves
    <2> DEFINE n == created + 1
               row == [NoRun EXCEPT !.session = s, !.status = "queued"]
               stream == <<ServerEvent("message.user_added")>>
    <2>1. /\ run' = [run EXCEPT ![n] = row] /\ created < MaxRuns
          /\ events' = [events EXCEPT ![n] = stream] /\ worker' = worker
      BY <1>1 DEF SubmitUserMessage
    <2>2. n \in RunIds /\ n > created
      BY <2>1 DEF TypeOK, RunIds, QueueAssumption
    <2>3. run[n].status = "absent"
      BY <2>2 DEF RowsInOrder, NoRun
    <2>4. run'[n] = row /\ events'[n] = stream
      BY <2>1, <2>2, RowTypes DEF TypeOK
    <2>5. Opened(n)
      BY <2>3, <2>4 DEF Opened, NoRun
    <2> HIDE DEF row, stream, n
    <2> QED
      BY <2>1, <2>2, <2>5, OneStreamMoves, NoSlotMoves
  <1>2. ASSUME NEW r \in RunIds, ReadForCancel(r) \/ CancelRefused(r)
        PROVE  SlotMoves /\ StreamMoves
    BY <1>2, NoStreamMoves, NoSlotMoves DEF ReadForCancel, CancelRefused
  <1>3. ASSUME NEW r \in RunIds, CancelQueued(r)
        PROVE  SlotMoves /\ StreamMoves
    <2>1. /\ Settle(r, "cancelled") /\ run[r].status \in Active
          /\ worker' = worker
      BY <1>3 DEF CancelQueued
    <2>2. "cancelled" \in {"succeeded", "failed", "cancelled"}
      OBVIOUS
    <2> QED
      BY <2>1, <2>2, SettleStream, NoSlotMoves
  <1>4. ASSUME NEW r \in RunIds, CancelExecuting(r)
        PROVE  SlotMoves /\ StreamMoves
    <2> DEFINE row == [run[r] EXCEPT !.cancel = TRUE]
    <2>1. /\ run' = [run EXCEPT ![r] = row] /\ events' = events
          /\ worker' = worker
      BY <1>4 DEF CancelExecuting
    <2>2. run'[r].status = run[r].status
      BY <2>1, RowTypes DEF RunRow
    <2>3. Kept(r)
      BY <2>1, <2>2 DEF Kept
    <2> HIDE DEF row
    <2> QED
      BY <2>1, <2>3, OneStreamMoves, NoSlotMoves
  <1>5. ASSUME NEW a \in Accounts, Revoke(a) \/ Readmit(a)
        PROVE  SlotMoves /\ StreamMoves
    BY <1>5, NoStreamMoves, NoSlotMoves DEF Revoke, Readmit
  <1>6. ASSUME NEW w \in Workers, Sidecar(w)
        PROVE  SlotMoves /\ StreamMoves
    BY <1>6, SidecarFlow
  <1>7. CASE Tick
    <2>1. \A r \in RunIds : run'[r].status = run[r].status
      BY <1>7, RowTypes DEF Tick, RunRow
    <2>2. events' = events /\ worker' = worker
      BY <1>7 DEF Tick
    <2> QED
      BY <2>1, <2>2, NoSlotMoves DEF StreamMoves, Kept
  <1>8. CASE ReaperPass
    <2>1. ASSUME NEW r \in RunIds, Stale(r)
          PROVE  Kept(r) \/ Closed(r)
      <3>1. run'[r].status = ReapOutcome(r)
        BY <1>8, <2>1, RowTypes DEF ReaperPass, RunRow
      <3>2. run[r].status \in Active
        BY <2>1 DEF Stale, RowsAgree, Active
      <3>3. CASE ReapOutcome(r) = "queued"
        <4>1. events'[r] = events[r]
          BY <1>8, <3>3 DEF ReaperPass, Terminal
        <4> QED
          BY <3>1, <3>2, <3>3, <4>1 DEF Kept, Active
      <3>4. CASE ReapOutcome(r) # "queued"
        <4>1. ReapOutcome(r) \in {"cancelled", "failed", "expired"}
          BY <3>4 DEF ReapOutcome
        <4>2. ReapOutcome(r) \in Terminal /\ ReapOutcome(r) # "succeeded"
          BY <4>1 DEF Terminal
        <4>3. events'[r] = Append(events[r],
                             ServerEvent(TerminalEventFor[ReapOutcome(r)]))
          BY <1>8, <2>1, <4>2 DEF ReaperPass
        <4> QED
          BY <3>1, <3>2, <4>2, <4>3 DEF Closed
      <3> QED
        BY <3>3, <3>4
    <2>2. ASSUME NEW r \in RunIds, ~Stale(r)
          PROVE  Kept(r)
      BY <1>8, <2>2 DEF ReaperPass, Kept
    <2>3. worker' = worker
      BY <1>8 DEF ReaperPass
    <2> QED
      BY <2>1, <2>2, <2>3, NoSlotMoves DEF StreamMoves
  <1>9. ASSUME NEW r \in RunIds, PruneFinished(r)
        PROVE  SlotMoves /\ StreamMoves
    <2>1. /\ run' = [run EXCEPT ![r] = NoRun] /\ worker' = worker
          /\ events' = [events EXCEPT ![r] = <<>>]
      BY <1>9 DEF PruneFinished
    <2>2. Emptied(r)
      BY <2>1, RowTypes DEF Emptied, TypeOK
    <2> QED
      BY <2>1, <2>2, OneStreamMoves, NoSlotMoves
  <1>10. CASE UNCHANGED vars
    BY <1>10, NoStreamMoves, NoSlotMoves DEF vars
  <1> QED
    BY <1>1, <1>2, <1>3, <1>4, <1>5, <1>6, <1>7, <1>8, <1>9, <1>10
       DEF Next, Browser

-----------------------------------------------------------------------------
(* The invariant of tokens and streams.                                    *)

\* What a slot holds is an attempt that was handed out, of a run that was
\* admitted; a context not yet fetched has confirmed nothing.
TokensKnown ==
    \A w \in Workers : Holds(w) =>
        /\ worker[w].run <= created
        /\ run[worker[w].run].status # "absent" =>
             worker[w].attempt <= run[worker[w].run].attempt
        /\ worker[w].phase = "fetching" => worker[w].acked = 0

\* No two slots hold the same attempt of a run.
TokensDiffer ==
    \A v, w \in Workers :
        /\ Holds(v) /\ Holds(w) /\ worker[v].run = worker[w].run
        /\ worker[v].attempt = worker[w].attempt
        => v = w

\* A row that does not exist has no stream, one that does has a first event,
\* and no event is of an attempt not yet handed out.
StreamsKnown ==
    \A r \in RunIds :
        /\ run[r].status = "absent" => events[r] = <<>>
        /\ run[r].status # "absent" => Len(events[r]) > 0
        /\ \A i \in 1..Len(events[r]) :
             events[r][i].index > 0 => events[r][i].attempt <= run[r].attempt

\* The slot holds the newest attempt of a run that is still active: nobody
\* else may write the stream.
Newest(w) == /\ worker[w].phase \in {"fetching", "running"}
             /\ run[worker[w].run].status \in Active
             /\ run[worker[w].run].attempt = worker[w].attempt

\* Where the part of the stream that is this attempt's own begins.
Mark(w) == IF worker[w].phase = "fetching" THEN Len(events[worker[w].run])
           ELSE worker[w].base

\* Before its mark the stream holds earlier attempts; from there on exactly
\* the worker's own events, in order, all it saw confirmed among them.
OwnPart ==
    \A w \in Workers : Newest(w) =>
        LET stream == events[worker[w].run] IN
        /\ Mark(w) + worker[w].acked <= Len(stream)
        /\ \A i \in 1..Mark(w) :
             stream[i].index > 0 => stream[i].attempt < worker[w].attempt
        /\ \A i \in Mark(w) + 1 .. Len(stream) :
             stream[i] = WorkerEvent(worker[w].attempt, i - Mark(w))

StreamInv == /\ QueueInv /\ TokensKnown /\ TokensDiffer /\ StreamsKnown
             /\ OwnPart /\ ExactlyOnceStream /\ StreamClosedOnce
             /\ SucceededHasAnswer

-----------------------------------------------------------------------------
(* Each part is kept by the moves.                                         *)

\* A slot in use after a step was just given a lease, or it holds the token it
\* held before.
LEMMA TokenOrigin ==
    ASSUME TypeOK, SlotMoves, NEW w \in Workers, Holds(w)'
    PROVE  \/ Takes(w)
           \/ /\ Holds(w)
              /\ worker'[w].run = worker[w].run
              /\ worker'[w].attempt = worker[w].attempt
  <1>1. worker'[w].phase # "idle"
    BY DEF Holds
  <1>2. CASE Rests(w)
    BY <1>1, <1>2 DEF Rests, Holds
  <1>3. CASE Leaves(w)
    <2>1. IdleSlot.phase = "idle"
      BY DEF IdleSlot
    <2>2. Holds(w) /\ worker'[w] = [worker[w] EXCEPT !.phase = "failing"]
      BY <1>1, <1>3, <2>1 DEF Leaves
    <2> QED
      BY <2>2, HeldRun DEF BusySlot
  <1>4. CASE Begins(w) \/ Makes(w) \/ Wrote(w)
    <2>1. Holds(w)
      BY <1>4 DEF Begins, Makes, Wrote, StoreBatch, Holds
    <2>2. worker[w] \in BusySlot
      BY <2>1, HeldRun
    <2> QED
      BY <1>4, <2>1, <2>2 DEF Begins, Makes, Wrote, BusySlot
  <1> QED
    BY <1>2, <1>3, <1>4 DEF SlotMoves

\* What the slot of a new lease looks like.
LEMMA TakenSlot ==
    ASSUME TypeOK, NEW w \in Workers, Takes(w)
    PROVE  /\ worker'[w].run \in RunIds
           /\ run[worker'[w].run].status = "queued"
           /\ run'[worker'[w].run].status = "leased"
           /\ run[worker'[w].run].attempt \in Nat
           /\ worker'[w].attempt = run[worker'[w].run].attempt + 1
           /\ run'[worker'[w].run].attempt = worker'[w].attempt
           /\ worker'[w].phase = "fetching" /\ worker'[w].acked = 0
           /\ \A v \in Workers \ {w} : worker'[v] = worker[v]
           /\ events' = events
  <1>1. PICK r \in RunIds :
          /\ run[r].status = "queued" /\ run'[r].status = "leased"
          /\ run'[r].attempt = run[r].attempt + 1
          /\ worker'[w] = [IdleSlot EXCEPT !.phase = "fetching",
                              !.run = r, !.attempt = run[r].attempt + 1]
    BY DEF Takes
  <1>2. /\ worker'[w].run = r /\ worker'[w].attempt = run[r].attempt + 1
        /\ worker'[w].phase = "fetching" /\ worker'[w].acked = 0
    BY <1>1 DEF IdleSlot
  <1>3. run[r].attempt \in Nat
    BY RowTypes DEF RunRow
  <1> QED
    BY <1>1, <1>2, <1>3 DEF Takes

\* While a row exists its attempt number stays, or one more is handed out.
LEMMA AttemptGrows ==
    ASSUME TypeOK, Moves, NEW r \in RunIds, run[r].status # "absent",
           run'[r].status # "absent"
    PROVE  \/ run'[r].attempt = run[r].attempt
           \/ run[r].status = "queued" /\ run'[r].attempt = run[r].attempt + 1
  BY DEF Moves, Still, Admitted, Leased, Worked, Marked, Requeued, Ended,
         Pruned, NoRun

LEMMA TokensKnownStep ==
    ASSUME QueueInv, TokensKnown, Moves, SlotMoves
    PROVE  TokensKnown'
  <1> SUFFICES ASSUME NEW w \in Workers, Holds(w)'
               PROVE  /\ worker'[w].run <= created'
                      /\ run'[worker'[w].run].status # "absent" =>
                           worker'[w].attempt <= run'[worker'[w].run].attempt
                      /\ worker'[w].phase = "fetching" => worker'[w].acked = 0
    BY DEF TokensKnown
  <1> USE DEF QueueInv
  <1>1. /\ created \in Nat
        /\ created' = created \/ created' = created + 1
    BY DEF Moves, Admitted, TypeOK
  <1>2. CASE Takes(w)
    <2>1. run[worker'[w].run].status # "absent" /\ worker'[w].run \in RunIds
      BY <1>2, TakenSlot
    <2>2. worker'[w].run <= created
      BY <1>1, <2>1 DEF RowsInOrder, NoRun, RunIds
    <2>3. worker'[w].run <= created'
      BY <1>1, <2>1, <2>2 DEF RunIds
    <2>4. worker'[w].attempt \in Nat
      BY <1>2, TakenSlot
    <2> QED
      BY <1>2, <2>3, <2>4, TakenSlot
  <1>3. CASE /\ Holds(w) /\ worker'[w].run = worker[w].run
             /\ worker'[w].attempt = worker[w].attempt /\ ~Takes(w)
    <2> DEFINE r == worker[w].run
    <2>1. worker[w] \in BusySlot /\ r \in RunIds /\ worker[w].attempt \in Nat
      BY <1>3, HeldRun DEF BusySlot
    <2>2. /\ r <= created
          /\ run[r].status # "absent" => worker[w].attempt <= run[r].attempt
          /\ worker[w].phase = "fetching" => worker[w].acked = 0
      BY <1>3 DEF TokensKnown
    <2>3. r <= created'
      BY <1>1, <2>1, <2>2 DEF RunIds
    <2>4. ASSUME run'[r].status # "absent"
          PROVE  worker[w].attempt <= run'[r].attempt
      <3>1. CASE run[r].status = "absent"
        <4>1. Admitted(r)
          BY <2>1, <2>4, <3>1 DEF Moves, Still, Leased, Worked, Marked,
             Requeued, Ended, Pruned, Active, Executing, Terminal
        <4>2. r = created + 1
          BY <4>1 DEF Admitted
        <4> QED
          BY <1>1, <2>2, <4>2
      <3>2. CASE run[r].status # "absent"
        <4>1. run[r].attempt \in Nat
          BY <2>1, RowTypes DEF RunRow
        <4>2. \/ run'[r].attempt = run[r].attempt
              \/ run'[r].attempt = run[r].attempt + 1
          BY <2>1, <2>4, <3>2, AttemptGrows
        <4> QED
          BY <2>1, <2>2, <3>2, <4>1, <4>2
      <3> QED
        BY <3>1, <3>2
    <2>5. worker'[w].phase = "fetching" => worker'[w].acked = 0
      <3>1. CASE Rests(w)
        BY <2>2, <3>1 DEF Rests
      <3>2. CASE Leaves(w)
        BY <2>1, <3>2 DEF Leaves, IdleSlot, BusySlot
      <3>3. CASE Begins(w) \/ Makes(w) \/ Wrote(w)
        <4>1. worker'[w].phase = "running"
          BY <2>1, <3>3 DEF Begins, Makes, Wrote, StoreBatch, BusySlot
        <4> QED
          BY <4>1
      <3> QED
        BY <1>3, <3>1, <3>2, <3>3 DEF SlotMoves
    <2> QED
      BY <1>3, <2>3, <2>4, <2>5
  <1> QED
    BY <1>2, <1>3, TokenOrigin

\* A new lease counts one attempt more than any token of the run.
LEMMA TokensDifferStep ==
    ASSUME QueueInv, TokensKnown, TokensDiffer, SlotMoves
    PROVE  TokensDiffer'
  <1> USE DEF QueueInv
  <1>1. ASSUME NEW v \in Workers, NEW w \in Workers, v # w, Takes(w),
               Holds(v)', worker'[v].run = worker'[w].run
        PROVE  worker'[v].attempt # worker'[w].attempt
    <2>1. worker'[v] = worker[v]
      BY <1>1, TakenSlot
    <2>2. Holds(v)
      BY <1>1, <2>1 DEF Holds
    <2>3. worker[v].attempt \in Nat
      BY <2>2, HeldRun DEF BusySlot
    <2>4. worker[v].attempt <= run[worker[v].run].attempt
      BY <1>1, <2>1, <2>2, TakenSlot DEF TokensKnown
    <2> QED
      BY <1>1, <2>1, <2>3, <2>4, TakenSlot
  <1> SUFFICES ASSUME NEW v \in Workers, NEW w \in Workers,
                      Holds(v)', Holds(w)', worker'[v].run = worker'[w].run,
                      worker'[v].attempt = worker'[w].attempt
               PROVE  v = w
    BY DEF TokensDiffer
  <1>2. CASE Takes(v) \/ Takes(w)
    BY <1>1, <1>2
  <1>3. CASE ~Takes(v) /\ ~Takes(w)
    BY <1>3, TokenOrigin DEF TokensDiffer
  <1> QED
    BY <1>2, <1>3

\* What a batch adds: the events of the attempt that were missing, numbered on
\* from those the stream held, up to the last of the batch.
LEMMA BatchWrites ==
    ASSUME TypeOK, NEW w \in Workers, NEW n \in Nat, StoreBatch(w, n)
    PROVE  LET old == events[worker[w].run]
               new == events'[worker[w].run] IN
           /\ worker[w] \in BusySlot /\ worker[w].run \in RunIds
           /\ worker[w].phase = "running"
           /\ old \in Seq(Event) /\ new \in Seq(Event)
           /\ Len(old) <= Len(new)
           /\ worker[w].base + worker[w].acked <= Len(old)
           /\ worker[w].base + n <= Len(new)
           /\ \A i \in 1..Len(old) : new[i] = old[i]
           /\ \A i \in Len(old) + 1 .. Len(new) :
                new[i] = WorkerEvent(worker[w].attempt, i - worker[w].base)
  <1> DEFINE r == worker[w].run
             old == events[r]
             new == events'[r]
             m == IF n > Stored(w) THEN n - Stored(w) ELSE 0
             fresh == [j \in 1..m |->
                         WorkerEvent(worker[w].attempt, Stored(w) + j)]
  <1>1. events' = [events EXCEPT ![r] = @ \o fresh]
    BY DEF StoreBatch
  <1>2. worker[w] \in BusySlot /\ r \in RunIds /\ worker[w].phase = "running"
    BY HeldRun DEF StoreBatch, Holds
  <1>3. old \in Seq(Event) /\ Len(old) \in Nat
    BY <1>2 DEF TypeOK
  <1>4. worker[w].base \in Nat /\ worker[w].acked \in Nat
    BY <1>2 DEF BusySlot
  <1>5. worker[w].base + worker[w].acked <= Len(old)
    <2>1. SeqOf(w, worker[w].acked + 1) <= Len(old)
      BY DEF StoreBatch, BatchFits
    <2> QED
      BY <1>3, <1>4, <2>1 DEF SeqOf
  <1>6. Stored(w) = Len(old) - worker[w].base /\ Stored(w) \in Nat
    BY <1>3, <1>4, <1>5 DEF Stored
  <1>7. /\ m \in Nat
        /\ worker[w].base + n <= Len(old) + m
    <2>1. CASE n > Stored(w)
      <3>1. m = n - Stored(w)
        BY <2>1
      <3> HIDE DEF m, old
      <3>2. m \in Nat
        BY <1>6, <2>1, <3>1
      <3>3. worker[w].base + n = Len(old) + m
        BY <1>3, <1>4, <1>6, <3>1
      <3> QED
        BY <1>3, <1>4, <3>2, <3>3
    <2>2. CASE ~(n > Stored(w))
      <3>1. m = 0
        BY <2>2
      <3> HIDE DEF m
      <3> QED
        BY <1>3, <1>4, <1>6, <2>2, <3>1
    <2> QED
      BY <2>1, <2>2
  <1>8. new = old \o fresh
    BY <1>1, <1>2 DEF TypeOK
  <1>9. fresh \in Seq(Event) /\ Len(fresh) = m
    <2>1. \A j \in 1..m :
            WorkerEvent(worker[w].attempt, Stored(w) + j) \in Event
      BY <1>2, <1>6, <1>7 DEF WorkerEvent, Event, EventTypes, BusySlot
    <2> HIDE DEF m
    <2> QED
      BY <1>7, <2>1
  <1>10. \A j \in 1..m :
           fresh[j] = WorkerEvent(worker[w].attempt, Stored(w) + j)
    OBVIOUS
  <1> HIDE DEF fresh, m
  <1>11. new \in Seq(Event) /\ Len(new) = Len(old) + m
    <2> HIDE DEF old, new
    <2>1. /\ old \o fresh \in Seq(Event)
          /\ Len(old \o fresh) = Len(old) + Len(fresh)
      BY <1>3, <1>9
    <2> QED
      BY <1>8, <1>9, <2>1
  <1>12. \A i \in 1..Len(old) : new[i] = old[i]
    BY <1>3, <1>8, <1>9
  <1>13. ASSUME NEW i \in Len(old) + 1 .. Len(new)
         PROVE  new[i] = WorkerEvent(worker[w].attempt, i - worker[w].base)
    <2>1. i - Len(old) \in 1..m
      <3> HIDE DEF old, new
      <3> QED
        BY <1>3, <1>7, <1>11
    <2>2. new[i] = fresh[i - Len(old)]
      BY <1>3, <1>7, <1>8, <1>9, <2>1
    <2>3. Stored(w) + (i - Len(old)) = i - worker[w].base
      BY <1>3, <1>4, <1>6
    <2> QED
      BY <1>10, <2>1, <2>2, <2>3
  <1> HIDE DEF new
  <1>14. Len(old) <= Len(new) /\ worker[w].base + n <= Len(new)
    BY <1>3, <1>7, <1>11
  <1> QED
    BY <1>2, <1>3, <1>5, <1>11, <1>12, <1>13, <1>14 DEF new

\* The worker of a batch holds the newest attempt of its run.
LEMMA WriterIsNewest ==
    ASSUME TypeOK, NEW w \in Workers, NEW n, StoreBatch(w, n)
    PROVE  /\ Newest(w) /\ Holds(w) /\ Mark(w) = worker[w].base
           /\ LET r == worker[w].run IN
              /\ run[r].attempt = worker[w].attempt
              /\ run[r].status \in Executing
              /\ run[r].lease > 0 /\ ~run[r].cancel /\ OwnerOf(r) \in member
  BY DEF StoreBatch, HeldFence, Fence, Newest, Holds, Mark, Executing, Active

\* A server's event has index zero and its own type.
LEMMA ServerEventFacts ==
    ASSUME NEW type
    PROVE  ServerEvent(type).index = 0 /\ ServerEvent(type).type = type
  BY DEF ServerEvent

\* The events of a closed stream: the old ones and one of the server's.
LEMMA ClosedEvents ==
    ASSUME TypeOK, NEW r \in RunIds, Closed(r)
    PROVE  LET old == events[r]
               new == events'[r] IN
           /\ Len(old) \in Nat /\ Len(new) = Len(old) + 1
           /\ \A i \in 1..Len(old) : new[i] = old[i]
           /\ new[Len(old) + 1].index = 0
           /\ new[Len(old) + 1].type = TerminalEventFor[run'[r].status]
  <1> DEFINE e == ServerEvent(TerminalEventFor[run'[r].status])
             old == events[r]
  <1>1. e.index = 0 /\ e.type = TerminalEventFor[run'[r].status]
    BY ServerEventFacts
  <1>2. events'[r] = Append(old, e) /\ old \in Seq(Event)
    BY DEF Closed, TypeOK
  <1> HIDE DEF e, old
  <1>3. /\ Len(old) \in Nat /\ Len(Append(old, e)) = Len(old) + 1
        /\ \A i \in 1..Len(old) : Append(old, e)[i] = old[i]
        /\ Append(old, e)[Len(old) + 1] = e
    BY <1>2
  <1> QED
    BY <1>1, <1>2, <1>3 DEF old

\* The stream of a new run is the user's message.
LEMMA OpenedEvents ==
    ASSUME NEW r \in RunIds, Opened(r)
    PROVE  /\ Len(events'[r]) = 1 /\ events'[r][1].index = 0
           /\ events'[r][1].type = "message.user_added"
  <1> DEFINE e == ServerEvent("message.user_added")
  <1>1. events'[r] = <<e>> /\ e.index = 0 /\ e.type = "message.user_added"
    BY ServerEventFacts DEF Opened
  <1> HIDE DEF e
  <1> QED
    BY <1>1

\* What an event of a worker carries.
LEMMA WorkerEventFacts ==
    ASSUME NEW attempt, NEW i \in Nat \ {0}
    PROVE  /\ WorkerEvent(attempt, i).index = i
           /\ WorkerEvent(attempt, i).attempt = attempt
           /\ WorkerEvent(attempt, i).type \notin TerminalEvents
           /\ i > 1 => WorkerEvent(attempt, i).type = "message.assistant_added"
  BY DEF WorkerEvent, TerminalEvents

\* A written stream: the old one, whole, and events of the newest attempt, one
\* after the other.
LEMMA WrittenEvents ==
    ASSUME TypeOK, NEW r \in RunIds, Written(r)
    PROVE  LET old == events[r]
               new == events'[r] IN
           \E w \in Workers :
           /\ Newest(w) /\ Holds(w) /\ worker[w].run = r
           /\ Mark(w) = worker[w].base
           /\ run[r].attempt = worker[w].attempt /\ worker[w].base \in Nat
           /\ run[r].lease > 0 /\ ~run[r].cancel /\ OwnerOf(r) \in member
           /\ Len(old) \in Nat /\ Len(new) \in Nat /\ Len(old) <= Len(new)
           /\ worker[w].base <= Len(old)
           /\ \A i \in 1..Len(old) : new[i] = old[i]
           /\ \A i \in Len(old) + 1 .. Len(new) :
                /\ new[i] = WorkerEvent(worker[w].attempt, i - worker[w].base)
                /\ new[i].index = i - worker[w].base /\ new[i].index > 0
                /\ new[i].attempt = run[r].attempt
                /\ new[i].type \notin TerminalEvents
  <1>1. PICK w \in Workers, n \in 1..MaxOutput :
               StoreBatch(w, n) /\ worker[w].run = r
    BY DEF Written, Wrote
  <1>2. n \in Nat
    OBVIOUS
  <1> DEFINE old == events[r]
             new == events'[r]
  <1>3. /\ worker[w] \in BusySlot
        /\ old \in Seq(Event) /\ new \in Seq(Event) /\ Len(old) <= Len(new)
        /\ worker[w].base + worker[w].acked <= Len(old)
        /\ \A i \in 1..Len(old) : new[i] = old[i]
        /\ \A i \in Len(old) + 1 .. Len(new) :
             new[i] = WorkerEvent(worker[w].attempt, i - worker[w].base)
    BY <1>1, <1>2, BatchWrites
  <1>4. /\ Newest(w) /\ Holds(w) /\ Mark(w) = worker[w].base
        /\ run[r].attempt = worker[w].attempt
        /\ run[r].lease > 0 /\ ~run[r].cancel /\ OwnerOf(r) \in member
    BY <1>1, WriterIsNewest
  <1> HIDE DEF old, new
  <1>5. worker[w].base \in Nat /\ worker[w].acked \in Nat
    BY <1>3 DEF BusySlot
  <1>6. Len(old) \in Nat /\ Len(new) \in Nat
    BY <1>3
  <1>7. worker[w].base <= Len(old)
    BY <1>3, <1>5, <1>6
  <1>8. ASSUME NEW i \in Len(old) + 1 .. Len(new)
        PROVE  /\ new[i] = WorkerEvent(worker[w].attempt, i - worker[w].base)
               /\ new[i].index = i - worker[w].base /\ new[i].index > 0
               /\ new[i].attempt = run[r].attempt
               /\ new[i].type \notin TerminalEvents
    <2>1. i - worker[w].base \in Nat \ {0}
      BY <1>5, <1>6, <1>7
    <2>2. i - worker[w].base > 0
      BY <2>1
    <2> QED
      BY <1>3, <1>4, <2>1, <2>2, WorkerEventFacts
  <1> QED
    BY <1>1, <1>3, <1>4, <1>5, <1>6, <1>7, <1>8 DEF old, new

LEMMA StreamsKnownStep ==
    ASSUME TypeOK, Moves, StreamMoves, StreamsKnown
    PROVE  StreamsKnown'
  <1> SUFFICES ASSUME NEW r \in RunIds
               PROVE  /\ run'[r].status = "absent" => events'[r] = <<>>
                      /\ run'[r].status # "absent" => Len(events'[r]) > 0
                      /\ \A i \in 1..Len(events'[r]) :
                           events'[r][i].index > 0 =>
                             events'[r][i].attempt <= run'[r].attempt
    BY DEF StreamsKnown
  <1>1. /\ run[r].status = "absent" => events[r] = <<>>
        /\ run[r].status # "absent" => Len(events[r]) > 0
        /\ \A i \in 1..Len(events[r]) :
             events[r][i].index > 0 => events[r][i].attempt <= run[r].attempt
    BY DEF StreamsKnown
  <1>2. /\ run[r].attempt \in Nat /\ Len(events[r]) \in Nat
        /\ \A i \in 1..Len(events[r]) : events[r][i] \in Event
    BY DEF TypeOK, RunRow
  <1>3. CASE Kept(r)
    <2>1. CASE run[r].status = "absent"
      BY <1>1, <1>3, <2>1 DEF Kept, Active, Executing
    <2>2. CASE run[r].status # "absent"
      <3>1. run'[r].status # "absent"
        BY <1>3, <2>2 DEF Kept, Active, Executing
      <3>2. \/ run'[r].attempt = run[r].attempt
            \/ run'[r].attempt = run[r].attempt + 1
        BY <2>2, <3>1, AttemptGrows
      <3>3. \A i \in 1..Len(events[r]) : events[r][i].index > 0 =>
              events[r][i].attempt <= run'[r].attempt
        <4> TAKE i \in 1..Len(events[r])
        <4> HAVE events[r][i].index > 0
        <4>1. /\ events[r][i].attempt <= run[r].attempt
              /\ events[r][i].attempt \in Nat
          BY <1>1, <1>2 DEF Event
        <4> QED
          BY <1>2, <3>2, <4>1
      <3> QED
        BY <1>1, <1>3, <2>2, <3>1, <3>3 DEF Kept
    <2> QED
      BY <2>1, <2>2
  <1>4. CASE Opened(r)
    <2>1. run'[r].status # "absent"
      BY <1>4 DEF Opened
    <2> QED
      BY <1>4, <2>1, OpenedEvents
  <1>5. CASE Closed(r)
    <2>1. run[r].status # "absent" /\ run'[r].status # "absent"
          /\ run'[r].attempt = run[r].attempt
      BY <1>5, AttemptGrows DEF Closed, Active, Executing, Terminal, Moves,
         Still, Admitted, Leased, Worked, Marked, Requeued, Ended, Pruned, NoRun
    <2>2. /\ Len(events'[r]) = Len(events[r]) + 1
          /\ \A i \in 1..Len(events[r]) : events'[r][i] = events[r][i]
          /\ events'[r][Len(events[r]) + 1].index = 0
      BY <1>5, ClosedEvents
    <2>3. \A i \in 1..Len(events'[r]) :
            i \in 1..Len(events[r]) \/ i = Len(events[r]) + 1
      BY <1>2, <2>2
    <2> QED
      BY <1>1, <1>2, <2>1, <2>2, <2>3
  <1>6. CASE Emptied(r)
    <2>1. run'[r].status = "absent" /\ events'[r] = <<>>
      BY <1>6 DEF Emptied, NoRun
    <2> QED
      BY <2>1
  <1>7. CASE Written(r)
    <2>1. /\ run[r].status # "absent" /\ run'[r].status # "absent"
          /\ run[r].status # "queued"
      BY <1>7 DEF Written, Executing
    <2>2. run'[r].attempt = run[r].attempt
      BY <2>1, AttemptGrows
    <2>3. /\ Len(events'[r]) \in Nat /\ Len(events[r]) <= Len(events'[r])
          /\ \A i \in 1..Len(events[r]) : events'[r][i] = events[r][i]
          /\ \A i \in Len(events[r]) + 1 .. Len(events'[r]) :
               events'[r][i].attempt = run[r].attempt
      BY <1>7, WrittenEvents
    <2>4. ASSUME NEW i \in 1..Len(events'[r]), events'[r][i].index > 0
          PROVE  events'[r][i].attempt <= run[r].attempt
      <3>1. CASE i \in 1..Len(events[r])
        BY <1>1, <2>3, <2>4, <3>1
      <3>2. CASE i \in Len(events[r]) + 1 .. Len(events'[r])
        BY <1>2, <2>3, <3>2
      <3> QED
        BY <1>2, <2>3, <3>1, <3>2
    <2>5. Len(events'[r]) > 0
      BY <1>1, <1>2, <2>1, <2>3
    <2> QED
      BY <2>1, <2>2, <2>4, <2>5
  <1> QED
    BY <1>3, <1>4, <1>5, <1>6, <1>7 DEF StreamMoves

\* The worker whose attempt is the newest after a step and was not just leased
\* held it before, and nobody else wrote its stream.
LEMMA NewestOrigin ==
    ASSUME QueueInv, TokensKnown, TokensDiffer, Moves, SlotMoves, StreamMoves,
           NEW w \in Workers, Newest(w)', ~Takes(w)
    PROVE  /\ Newest(w) /\ worker'[w].run = worker[w].run
           /\ worker'[w].attempt = worker[w].attempt
           /\ Wrote(w) \/ events'[worker[w].run] = events[worker[w].run]
  <1> USE DEF QueueInv
  <1>1. Holds(w)'
    BY DEF Newest, Holds
  <1>2. /\ Holds(w) /\ worker'[w].run = worker[w].run
        /\ worker'[w].attempt = worker[w].attempt
    BY <1>1, TokenOrigin
  <1> DEFINE r == worker[w].run
  <1>3. /\ r \in RunIds /\ worker[w].attempt \in Nat /\ worker[w] \in BusySlot
        /\ r <= created
    BY <1>2, HeldRun DEF BusySlot, TokensKnown
  <1>4. run'[r].status \in Active /\ run'[r].attempt = worker[w].attempt
    BY <1>2 DEF Newest
  <1>5. worker[w].phase \in {"fetching", "running"}
    <2>1. worker'[w].phase \in {"fetching", "running"}
      BY DEF Newest
    <2>2. ~Leaves(w)
      <3>1. ASSUME worker'[w] = IdleSlot PROVE FALSE
        BY <2>1, <3>1 DEF IdleSlot
      <3>2. ASSUME worker'[w] = [worker[w] EXCEPT !.phase = "failing"]
            PROVE  FALSE
        BY <1>3, <2>1, <3>2 DEF BusySlot
      <3> QED
        BY <3>1, <3>2 DEF Leaves
    <2>3. CASE Rests(w)
      BY <2>1, <2>3 DEF Rests
    <2>4. CASE Begins(w) \/ Makes(w) \/ Wrote(w)
      BY <2>4 DEF Begins, Makes, Wrote, StoreBatch
    <2> QED
      BY <2>2, <2>3, <2>4 DEF SlotMoves
  <1>6. ~Opened(r)
    <2>1. created \in Nat
      BY DEF TypeOK
    <2> QED
      BY <1>3, <2>1 DEF Opened
  <1>7. ~Closed(r) /\ ~Emptied(r)
    BY <1>4 DEF Closed, Emptied, NoRun, Active, Executing, Terminal
  <1>8. run[r].status \in Active
    BY <1>3, <1>4, <1>6, <1>7 DEF StreamMoves, Kept, Written, Active
  <1>9. run[r].attempt = worker[w].attempt
    <2>1. worker[w].attempt <= run[r].attempt
      BY <1>2, <1>8 DEF TokensKnown, Active, Executing
    <2>2. \/ run'[r].attempt = run[r].attempt
          \/ run'[r].attempt = run[r].attempt + 1
      BY <1>3, <1>4, <1>8, AttemptGrows DEF Active, Executing
    <2>3. run[r].attempt \in Nat
      BY <1>3, RowTypes DEF RunRow
    <2> QED
      BY <1>3, <1>4, <2>1, <2>2, <2>3
  <1>10. Written(r) => Wrote(w)
    <2> HAVE Written(r)
    <2>1. PICK v \in Workers, n \in 1..MaxOutput :
            Wrote(v) /\ StoreBatch(v, n) /\ worker[v].run = r
      BY DEF Written, Wrote
    <2>2. Holds(v) /\ run[r].attempt = worker[v].attempt
      BY <2>1, WriterIsNewest
    <2>3. v = w
      BY <1>2, <1>9, <2>1, <2>2 DEF TokensDiffer
    <2> QED
      BY <2>1, <2>3
  <1> QED
    BY <1>2, <1>3, <1>5, <1>6, <1>7, <1>8, <1>9, <1>10 DEF StreamMoves, Kept,
       Newest

\* What OwnPart says of one slot.
Own(w) ==
    LET stream == events[worker[w].run] IN
    /\ Mark(w) + worker[w].acked <= Len(stream)
    /\ \A i \in 1..Mark(w) :
         stream[i].index > 0 => stream[i].attempt < worker[w].attempt
    /\ \A i \in Mark(w) + 1 .. Len(stream) :
         stream[i] = WorkerEvent(worker[w].attempt, i - Mark(w))

LEMMA OwnPartStep ==
    ASSUME QueueInv, TokensKnown, TokensDiffer, StreamsKnown, OwnPart, Moves,
           SlotMoves, StreamMoves
    PROVE  OwnPart'
  <1> SUFFICES ASSUME NEW w \in Workers, Newest(w)'
               PROVE  Own(w)'
    BY DEF OwnPart, Own
  <1> DEFINE new == events'[worker'[w].run]
  <1>1. CASE Takes(w)
    <2> DEFINE r == worker'[w].run
    <2>1. /\ r \in RunIds /\ run[r].attempt \in Nat /\ new = events[r]
          /\ worker'[w].attempt = run[r].attempt + 1
          /\ worker'[w].phase = "fetching" /\ worker'[w].acked = 0
      BY <1>1, TakenSlot DEF QueueInv
    <2>2. Mark(w)' = Len(new)
      BY <2>1 DEF Mark
    <2>3. Len(new) \in Nat /\ \A i \in 1..Len(new) : new[i] \in Event
      BY <2>1 DEF QueueInv, TypeOK
    <2>4. \A i \in 1..Len(new) :
            new[i].index > 0 => new[i].attempt < worker'[w].attempt
      <3> TAKE i \in 1..Len(new)
      <3> HAVE new[i].index > 0
      <3>1. new[i].attempt <= run[r].attempt
        BY <2>1 DEF StreamsKnown
      <3>2. new[i].attempt \in Nat
        BY <2>3 DEF Event
      <3> QED
        BY <2>1, <3>1, <3>2
    <2> HIDE DEF new
    <2>5. Len(new) + 1 .. Len(new) = {}
      BY <2>3
    <2>6. Mark(w)' + worker'[w].acked <= Len(new)
      BY <2>1, <2>2, <2>3
    <2> QED
      BY <2>2, <2>4, <2>5, <2>6 DEF Own, new
  <1>2. CASE ~Takes(w)
    <2> DEFINE r == worker[w].run
    <2>1. /\ Newest(w) /\ worker'[w].run = r
          /\ worker'[w].attempt = worker[w].attempt
          /\ Wrote(w) \/ events'[r] = events[r]
      BY <1>2, NewestOrigin
    <2>2. Own(w)
      BY <2>1 DEF OwnPart, Own
    <2>3. worker[w] \in BusySlot /\ r \in RunIds
      BY <2>1, HeldRun DEF QueueInv, Newest, Holds
    <2>4. CASE Wrote(w)
      <3>1. PICK n \in 1..MaxOutput :
              /\ StoreBatch(w, n)
              /\ \/ worker'[w] = worker[w]
                 \/ worker'[w] = [worker[w] EXCEPT !.acked = n]
        BY <2>4 DEF Wrote
      <3> DEFINE old == events[r]
                 later == events'[r]
      <3>2. n \in Nat /\ TypeOK
        BY DEF QueueInv
      <3>3. /\ worker[w].phase = "running"
            /\ old \in Seq(Event) /\ later \in Seq(Event)
            /\ Len(old) <= Len(later)
            /\ worker[w].base + worker[w].acked <= Len(old)
            /\ worker[w].base + n <= Len(later)
            /\ \A i \in 1..Len(old) : later[i] = old[i]
            /\ \A i \in Len(old) + 1 .. Len(later) :
                 later[i] = WorkerEvent(worker[w].attempt, i - worker[w].base)
        BY <3>1, <3>2, BatchWrites
      <3>4. /\ worker'[w].base = worker[w].base
            /\ worker'[w].phase = "running"
            /\ worker'[w].acked = worker[w].acked \/ worker'[w].acked = n
        BY <2>3, <3>1, <3>3 DEF BusySlot
      <3>5. Mark(w) = worker[w].base /\ Mark(w)' = worker[w].base
        BY <3>3, <3>4 DEF Mark
      <3>6. worker[w].base \in Nat /\ worker[w].acked \in Nat
        BY <2>3 DEF BusySlot
      <3>7. Len(old) \in Nat /\ Len(later) \in Nat
        BY <3>3
      <3>8. /\ \A i \in 1..worker[w].base :
                 old[i].index > 0 => old[i].attempt < worker[w].attempt
            /\ \A i \in worker[w].base + 1 .. Len(old) :
                 old[i] = WorkerEvent(worker[w].attempt, i - worker[w].base)
        BY <2>2, <3>5 DEF Own
      <3> HIDE DEF old, later
      <3>9. worker[w].base + worker'[w].acked <= Len(later)
        BY <3>2, <3>3, <3>4, <3>6, <3>7
      <3>10. \A i \in 1..worker[w].base :
               later[i].index > 0 => later[i].attempt < worker[w].attempt
        <4>1. \A i \in 1..worker[w].base : i \in 1..Len(old)
          BY <3>3, <3>6, <3>7
        <4> QED
          BY <3>3, <3>8, <4>1
      <3>11. \A i \in worker[w].base + 1 .. Len(later) :
               later[i] = WorkerEvent(worker[w].attempt, i - worker[w].base)
        <4>1. \A i \in worker[w].base + 1 .. Len(later) :
                \/ i \in worker[w].base + 1 .. Len(old) /\ i \in 1..Len(old)
                \/ i \in Len(old) + 1 .. Len(later)
          BY <3>6, <3>7
        <4> QED
          BY <3>3, <3>8, <4>1
      <3> QED
        BY <2>1, <3>5, <3>9, <3>10, <3>11 DEF Own, later
    <2>5. CASE ~Wrote(w)
      <3>1. events'[r] = events[r]
        BY <2>1, <2>5
      <3>2. worker'[w].phase \in {"fetching", "running"}
        BY DEF Newest
      <3>3. ~Leaves(w)
        <4>1. ASSUME worker'[w] = IdleSlot PROVE FALSE
          BY <3>2, <4>1 DEF IdleSlot
        <4>2. ASSUME worker'[w] = [worker[w] EXCEPT !.phase = "failing"]
              PROVE  FALSE
          BY <2>3, <3>2, <4>2 DEF BusySlot
        <4> QED
          BY <4>1, <4>2 DEF Leaves
      <3>4. Mark(w)' = Mark(w) /\ worker'[w].acked = worker[w].acked
        <4>1. CASE Rests(w)
          BY <2>1, <3>1, <4>1 DEF Rests, Mark
        <4>2. CASE Begins(w) \/ Makes(w)
          <5>1. worker'[w].acked = worker[w].acked
            BY <2>3, <4>2 DEF Begins, Makes, BusySlot
          <5>2. CASE Begins(w)
            <6>1. /\ worker'[w].phase = "running"
                  /\ worker'[w].base = Len(events[r])
              BY <2>3, <5>2 DEF Begins, BusySlot
            <6> QED
              BY <5>1, <5>2, <6>1 DEF Mark, Begins
          <5>3. CASE Makes(w)
            <6>1. /\ worker'[w].phase = "running"
                  /\ worker'[w].base = worker[w].base
              BY <2>3, <5>3 DEF Makes, BusySlot
            <6> QED
              BY <5>1, <5>3, <6>1 DEF Mark, Makes
          <5> QED
            BY <4>2, <5>2, <5>3
        <4> QED
          BY <1>2, <2>5, <3>3, <4>1, <4>2 DEF SlotMoves
      <3> QED
        BY <2>1, <2>2, <3>1, <3>4 DEF Own
    <2> QED
      BY <2>4, <2>5
  <1> QED
    BY <1>1, <1>2

\* The order of a stream: what is added comes from the newest attempt, and
\* continues it.
LEMMA ExactlyOnceStep ==
    ASSUME TypeOK, TypeOK', StreamsKnown, OwnPart, ExactlyOnceStream,
           StreamMoves
    PROVE  ExactlyOnceStream'
  <1> DEFINE InOrder(stream, i, j) ==
                 \/ stream[i].attempt < stream[j].attempt
                 \/ /\ stream[i].attempt = stream[j].attempt
                    /\ stream[j].index - stream[i].index = j - i
  <1>1. ASSUME NEW r \in RunIds, NEW i \in 1..Len(events'[r]),
               NEW j \in 1..Len(events'[r]), i < j,
               events'[r][i].index > 0, events'[r][j].index > 0
        PROVE  InOrder(events'[r], i, j)
    <2> DEFINE old == events[r]
               new == events'[r]
    <2>1. /\ old \in Seq(Event) /\ Len(old) \in Nat
          /\ \A k \in 1..Len(old) : old[k] \in Event
      BY DEF TypeOK
    <2>2. \A k, m \in 1..Len(old) :
            /\ k < m /\ old[k].index > 0 /\ old[m].index > 0
            => InOrder(old, k, m)
      <3>1. DOMAIN old = 1..Len(old)
        BY <2>1
      <3> QED
        BY <3>1 DEF ExactlyOnceStream
    <2>3. CASE Kept(r)
      BY <1>1, <2>2, <2>3 DEF Kept
    <2>4. CASE Opened(r)
      <3>1. Len(new) = 1
        BY <2>4, OpenedEvents
      <3> QED
        BY <1>1, <3>1
    <2>5. CASE Closed(r)
      <3>1. /\ Len(new) = Len(old) + 1 /\ new[Len(old) + 1].index = 0
            /\ \A k \in 1..Len(old) : new[k] = old[k]
        BY <2>5, ClosedEvents
      <3> HIDE DEF old, new
      <3>2. i \in 1..Len(old) /\ j \in 1..Len(old)
        BY <1>1, <2>1, <3>1 DEF new
      <3> QED
        BY <1>1, <2>2, <3>1, <3>2 DEF new
    <2>6. CASE Emptied(r)
      <3>1. Len(new) = 0
        BY <2>6 DEF Emptied
      <3> QED
        BY <1>1, <3>1
    <2>7. CASE Written(r)
      <3>1. PICK w \in Workers :
              /\ Newest(w) /\ worker[w].run = r /\ Mark(w) = worker[w].base
              /\ run[r].attempt = worker[w].attempt /\ worker[w].base \in Nat
              /\ Len(new) \in Nat /\ Len(old) <= Len(new)
              /\ worker[w].base <= Len(old)
              /\ \A k \in 1..Len(old) : new[k] = old[k]
              /\ \A k \in Len(old) + 1 .. Len(new) :
                   /\ new[k].index = k - worker[w].base
                   /\ new[k].attempt = run[r].attempt
        BY <2>7, WrittenEvents
      <3>2. Own(w)
        BY <3>1 DEF OwnPart, Own
      <3> DEFINE base == worker[w].base
      <3>3. /\ \A k \in 1..base :
                 old[k].index > 0 => old[k].attempt < run[r].attempt
            /\ \A k \in base + 1 .. Len(old) :
                 old[k] = WorkerEvent(run[r].attempt, k - base)
        BY <3>1, <3>2 DEF Own
      <3> HIDE DEF old, new, base
      <3>4. \A k \in base + 1 .. Len(new) :
              new[k].index = k - base /\ new[k].attempt = run[r].attempt
        <4> TAKE k \in base + 1 .. Len(new)
        <4>1. CASE k \in base + 1 .. Len(old)
          <5>1. k \in 1..Len(old) /\ k - base \in Nat \ {0}
            BY <2>1, <3>1, <4>1 DEF base
          <5> QED
            BY <3>1, <3>3, <4>1, <5>1, WorkerEventFacts
        <4>2. CASE k \in Len(old) + 1 .. Len(new)
          BY <3>1, <4>2 DEF base
        <4> QED
          BY <2>1, <3>1, <4>1, <4>2 DEF base
      <3>5. CASE j \in 1..Len(old)
        <4>1. i \in 1..Len(old)
          BY <1>1, <2>1, <3>1, <3>5 DEF new
        <4> QED
          BY <1>1, <2>2, <3>1, <3>5, <4>1 DEF new
      <3>6. CASE j \in Len(old) + 1 .. Len(new)
        <4>1. /\ j \in base + 1 .. Len(new)
              /\ i \in 1..base \/ i \in base + 1 .. Len(new)
          BY <1>1, <2>1, <3>1, <3>6 DEF base, new
        <4>2. CASE i \in 1..base
          <5>1. i \in 1..Len(old)
            BY <2>1, <3>1, <4>2 DEF base
          <5>2. new[i].attempt < run[r].attempt
            BY <1>1, <3>1, <3>3, <4>2, <5>1 DEF new
          <5> QED
            BY <3>4, <4>1, <5>2 DEF new
        <4>3. CASE i \in base + 1 .. Len(new)
          <5>1. /\ new[i].attempt = new[j].attempt
                /\ new[i].index = i - base /\ new[j].index = j - base
            BY <3>4, <4>1, <4>3
          <5>2. base \in Nat /\ i \in Int /\ j \in Int
            BY <3>1, <4>1, <4>3 DEF base
          <5>3. new[j].index - new[i].index = j - i
            BY <5>1, <5>2
          <5> QED
            BY <5>1, <5>3 DEF new
        <4> QED
          BY <4>1, <4>2, <4>3
      <3> QED
        BY <1>1, <2>1, <3>1, <3>5, <3>6 DEF new
    <2> QED
      BY <2>3, <2>4, <2>5, <2>6, <2>7 DEF StreamMoves
  <1>2. \A r \in RunIds : DOMAIN events'[r] = 1..Len(events'[r])
    BY DEF TypeOK
  <1> QED
    BY <1>1, <1>2 DEF ExactlyOnceStream

\* What StreamClosedOnce says of one run.
ClosedRight(r) ==
    LET stream == events[r] IN
    /\ run[r].status # "absent" => stream[1].type = "message.user_added"
    /\ \A i \in 1..Len(stream) :
         stream[i].type \in TerminalEvents
             => /\ i = Len(stream)
                /\ run[r].status \in Terminal
                /\ stream[i].type = TerminalEventFor[run[r].status]
    /\ run[r].status \in Terminal => stream[Len(stream)].type \in TerminalEvents

LEMMA ClosedRightStep ==
    ASSUME TypeOK, StreamsKnown, NEW r \in RunIds, ClosedRight(r), StreamMoves
    PROVE  ClosedRight(r)'
  <1> DEFINE old == events[r]
             new == events'[r]
  <1>1. Len(old) \in Nat
    BY DEF TypeOK
  <1>2. ASSUME run[r].status \in Active
        PROVE  /\ \A i \in 1..Len(old) : old[i].type \notin TerminalEvents
               /\ old[1].type = "message.user_added" /\ 1 \in 1..Len(old)
    <2>1. run[r].status # "absent" /\ run[r].status \notin Terminal
      BY <1>2 DEF Active, Executing, Terminal
    <2>2. Len(old) > 0
      BY <2>1 DEF StreamsKnown
    <2>3. 1 \in 1..Len(old)
      BY <1>1, <2>2
    <2> QED
      BY <2>1, <2>3 DEF ClosedRight
  <1>3. CASE Kept(r)
    <2>1. CASE run'[r].status = run[r].status
      BY <1>3, <2>1 DEF Kept, ClosedRight
    <2>2. CASE run[r].status \in Active /\ run'[r].status \in Active
      <3>1. run'[r].status \notin Terminal
        BY <2>2 DEF Active, Executing, Terminal
      <3> QED
        BY <1>2, <1>3, <2>2, <3>1 DEF Kept, ClosedRight
    <2> QED
      BY <1>3, <2>1, <2>2 DEF Kept
  <1>4. CASE Opened(r)
    <2>1. Len(new) = 1 /\ new[1].type = "message.user_added"
      BY <1>4, OpenedEvents
    <2>2. run'[r].status = "queued"
      BY <1>4 DEF Opened
    <2> HIDE DEF new
    <2>3. \A i \in 1..Len(new) : i = 1
      BY <2>1
    <2>4. "message.user_added" \notin TerminalEvents /\ "queued" \notin Terminal
      BY DEF TerminalEvents, Terminal
    <2> QED
      BY <2>1, <2>2, <2>3, <2>4 DEF ClosedRight, new
  <1>5. CASE Closed(r)
    <2>1. /\ Len(new) = Len(old) + 1
          /\ \A i \in 1..Len(old) : new[i] = old[i]
          /\ new[Len(new)].type = TerminalEventFor[run'[r].status]
      BY <1>5, ClosedEvents
    <2>2. run'[r].status \in Terminal /\ run[r].status \in Active
      BY <1>5 DEF Closed
    <2>3. TerminalEventFor[run'[r].status] \in TerminalEvents
      BY <2>2 DEF Terminal, TerminalEventFor, TerminalEvents
    <2>4. \A i \in 1..Len(new) : i \in 1..Len(old) \/ i = Len(new)
      <3> HIDE DEF old, new
      <3> QED
        BY <1>1, <2>1
    <2>5. \A i \in 1..Len(new) : new[i].type \in TerminalEvents => i = Len(new)
      BY <1>2, <2>1, <2>2, <2>4
    <2>6. new[1].type = "message.user_added"
      BY <1>2, <2>1, <2>2
    <2> QED
      BY <2>1, <2>2, <2>3, <2>5, <2>6 DEF ClosedRight
  <1>6. CASE Emptied(r)
    <2>1. run'[r].status = "absent" /\ Len(new) = 0
      BY <1>6 DEF Emptied, NoRun
    <2>2. "absent" \notin Terminal /\ 1..0 = {}
      BY DEF Terminal
    <2> QED
      BY <2>1, <2>2 DEF ClosedRight
  <1>7. CASE Written(r)
    <2>1. /\ run[r].status \in Active /\ run'[r].status \notin Terminal
      BY <1>7 DEF Written, Active, Executing, Terminal
    <2>2. /\ Len(new) \in Nat /\ Len(old) <= Len(new)
          /\ \A i \in 1..Len(old) : new[i] = old[i]
          /\ \A i \in Len(old) + 1 .. Len(new) :
               new[i].type \notin TerminalEvents
      BY <1>7, WrittenEvents
    <2>3. \A i \in 1..Len(new) :
            i \in 1..Len(old) \/ i \in Len(old) + 1 .. Len(new)
      <3> HIDE DEF old, new
      <3> QED
        BY <1>1, <2>2
    <2>4. \A i \in 1..Len(new) : new[i].type \notin TerminalEvents
      BY <1>2, <2>1, <2>2, <2>3
    <2>5. new[1].type = "message.user_added"
      BY <1>2, <2>1, <2>2
    <2> QED
      BY <2>1, <2>4, <2>5 DEF ClosedRight
  <1> QED
    BY <1>3, <1>4, <1>5, <1>6, <1>7 DEF StreamMoves

LEMMA ClosedOnceStep ==
    ASSUME TypeOK, TypeOK', StreamsKnown, StreamClosedOnce, StreamMoves
    PROVE  StreamClosedOnce'
  <1>1. \A r \in RunIds : /\ DOMAIN events[r] = 1..Len(events[r])
                         /\ DOMAIN events'[r] = 1..Len(events'[r])
    BY DEF TypeOK
  <1>2. \A r \in RunIds : ClosedRight(r)
    BY <1>1 DEF StreamClosedOnce, ClosedRight
  <1>3. \A r \in RunIds : ClosedRight(r)'
    BY <1>2, ClosedRightStep
  <1> QED
    BY <1>1, <1>3 DEF StreamClosedOnce, ClosedRight

\* A success is claimed when everything the attempt produced is confirmed, so
\* its stream is complete, and its last event an answer.
LEMMA AnswerStep ==
    ASSUME TypeOK, OwnPart, SucceededHasAnswer, Moves, StreamMoves
    PROVE  SucceededHasAnswer'
  <1> SUFFICES ASSUME NEW r \in RunIds, run'[r].status = "succeeded"
               PROVE  LET last == Len(events'[r]) - 1 IN
                      /\ events'[r][last].type = "message.assistant_added"
                      /\ events'[r][last].attempt = run'[r].attempt
                      /\ events'[r][last - events'[r][last].index + 1]
                            = WorkerEvent(run'[r].attempt, 1)
    BY DEF SucceededHasAnswer
  <1> DEFINE old == events[r]
             new == events'[r]
  <1>1. ASSUME run[r].status # "absent", run[r].status # "queued"
        PROVE  run'[r].attempt = run[r].attempt
    BY <1>1, AttemptGrows
  <1>2. CASE Kept(r)
    <2>1. run[r].status = "succeeded" /\ new = old
      BY <1>2 DEF Kept, Active, Executing
    <2>2. run'[r].attempt = run[r].attempt
      BY <1>1, <2>1
    <2> QED
      BY <2>1, <2>2 DEF SucceededHasAnswer
  <1>3. CASE Closed(r)
    <2>1. PICK w \in Workers :
            ClaimsSuccess(w) /\ HeldFence(w, TRUE) /\ worker[w].run = r
      BY <1>3 DEF Closed, Answered
    <2>2. /\ worker[w].phase = "running" /\ worker[w].acked = worker[w].produced
          /\ worker[w].produced >= 2
          /\ run[r].status \in Executing /\ run[r].attempt = worker[w].attempt
      BY <2>1 DEF ClaimsSuccess, HeldFence, Fence
    <2>3. worker[w].base \in Nat /\ worker[w].produced \in Nat
      BY <2>2, HeldRun DEF Holds, BusySlot
    <2>4. Mark(w) = worker[w].base /\ Newest(w)
      BY <2>1, <2>2 DEF Mark, Newest, Executing, Active
    <2>5. Own(w)
      BY <2>4 DEF OwnPart, Own
    <2>6. run'[r].attempt = worker[w].attempt
      BY <1>1, <2>2 DEF Executing
    <2>7. /\ Len(old) \in Nat /\ Len(new) = Len(old) + 1
          /\ \A i \in 1..Len(old) : new[i] = old[i]
      BY <1>3, ClosedEvents
    <2> DEFINE base == worker[w].base
    <2>8. /\ base + worker[w].produced <= Len(old)
          /\ \A i \in base + 1 .. Len(old) :
               old[i] = WorkerEvent(worker[w].attempt, i - base)
      BY <2>1, <2>2, <2>4, <2>5 DEF Own
    <2> HIDE DEF old, new, base
    <2>9. /\ Len(old) \in base + 1 .. Len(old) /\ base + 1 \in base + 1 .. Len(old)
          /\ Len(old) \in 1..Len(old) /\ base + 1 \in 1..Len(old)
          /\ Len(old) - base \in Nat \ {0} /\ Len(old) - base > 1
          /\ (base + 1) - base = 1 /\ Len(new) - 1 = Len(old)
          /\ Len(old) - (Len(old) - base) + 1 = base + 1
      BY <2>2, <2>3, <2>7, <2>8 DEF base
    <2>10. /\ new[Len(old)] = WorkerEvent(worker[w].attempt, Len(old) - base)
           /\ new[base + 1] = WorkerEvent(worker[w].attempt, 1)
      BY <2>7, <2>8, <2>9
    <2>11. /\ new[Len(old)].type = "message.assistant_added"
           /\ new[Len(old)].attempt = worker[w].attempt
           /\ new[Len(old)].index = Len(old) - base
      BY <2>9, <2>10, WorkerEventFacts
    <2> QED
      BY <2>6, <2>9, <2>10, <2>11 DEF new
  <1>4. ~Opened(r) /\ ~Emptied(r) /\ ~Written(r)
    BY DEF Opened, Emptied, Written, NoRun, Executing
  <1> QED
    BY <1>2, <1>3, <1>4 DEF StreamMoves

LEMMA StreamInvInit == ASSUME QueueAssumption PROVE Init => StreamInv
  <1> SUFFICES ASSUME Init PROVE StreamInv
    OBVIOUS
  <1>1. QueueInv
    BY QueueInvInit
  <1>2. \A w \in Workers : ~Holds(w) /\ ~Newest(w)
    BY DEF Init, Holds, Newest, IdleSlot
  <1>3. TokensKnown /\ TokensDiffer /\ OwnPart
    BY <1>2 DEF TokensKnown, TokensDiffer, OwnPart
  <1>4. \A r \in RunIds : run[r].status = "absent" /\ events[r] = <<>>
    BY DEF Init, NoRun
  <1>5. StreamsKnown
    BY <1>4 DEF StreamsKnown
  <1>6. ExactlyOnceStream
    BY <1>4 DEF ExactlyOnceStream
  <1>7. StreamClosedOnce /\ SucceededHasAnswer
    BY <1>4 DEF StreamClosedOnce, SucceededHasAnswer, Terminal
  <1> QED
    BY <1>1, <1>3, <1>5, <1>6, <1>7 DEF StreamInv

LEMMA StreamInvStep ==
    ASSUME QueueAssumption PROVE StreamInv /\ [Next]_vars => StreamInv'
  <1> SUFFICES ASSUME StreamInv, [Next]_vars PROVE StreamInv'
    OBVIOUS
  <1>1. QueueInv /\ QueueInv' /\ TypeOK /\ TypeOK'
    BY QueueInvStep DEF StreamInv, QueueInv
  <1>2. Moves
    BY <1>1, MovesStep DEF QueueInv
  <1>3. SlotMoves /\ StreamMoves
    BY <1>1, FlowStep DEF QueueInv
  <1> QED
    BY <1>1, <1>2, <1>3, TokensKnownStep, TokensDifferStep, StreamsKnownStep,
       OwnPartStep, ExactlyOnceStep, ClosedOnceStep, AnswerStep DEF StreamInv

\* The invariant of slots and streams holds in every reachable state.
THEOREM StreamInvariant == Spec => []StreamInv
  BY QueueAssumption, StreamInvInit, StreamInvStep, PTL DEF Spec

\* However leases expire, are requeued and given out again, two workers never
\* both pass the fence of a run.
THEOREM NoSecondExecutor == Spec => []OneLiveExecutor
  <1>1. StreamInv => OneLiveExecutor
    <2> SUFFICES ASSUME StreamInv, NEW v \in Workers, NEW w \in Workers,
                        Holds(v), Holds(w), worker[v].run = worker[w].run,
                        HeldFence(v, TRUE), HeldFence(w, TRUE)
                 PROVE  v = w
      BY DEF OneLiveExecutor
    <2>1. worker[v].attempt = worker[w].attempt
      BY DEF HeldFence, Fence
    <2> QED
      BY <2>1 DEF StreamInv, TokensDiffer
  <1> QED
    BY <1>1, StreamInvariant, PTL

\* Batches sent twice, confirmations lost and workers replaced leave the reader
\* of a stream every event once, in order, the end last, an answer before it.
THEOREM StreamsAreWhole == Spec => []StreamIsWhole
  <1>1. StreamInv => StreamIsWhole
    BY DEF StreamInv, StreamIsWhole
  <1> QED
    BY <1>1, StreamInvariant, PTL

\* Only the current attempt, under a live lease and without a cancellation,
\* adds events of its own to a stream.
THEOREM FenceGuardsTheStream == Spec => OnlyTheLiveAttemptWrites
  <1> DEFINE Live(r, i) ==
               events'[r][i].index > 0 =>
                 /\ events'[r][i].attempt = run[r].attempt
                 /\ run[r].lease > 0 /\ ~run[r].cancel /\ OwnerOf(r) \in member
  <1>1. ASSUME TypeOK, TypeOK', StreamMoves, NEW r \in RunIds,
               NEW i \in DOMAIN events'[r] \ DOMAIN events[r]
        PROVE  Live(r, i)
    <2> DEFINE old == events[r]
               new == events'[r]
    <2>1. /\ Len(old) \in Nat /\ Len(new) \in Nat
          /\ i \in 1..Len(new) /\ i \notin 1..Len(old)
      BY <1>1 DEF TypeOK
    <2>2. CASE Kept(r)
      BY <2>1, <2>2 DEF Kept
    <2>3. CASE Opened(r)
      <3>1. Len(new) = 1 /\ new[1].index = 0
        BY <2>3, OpenedEvents
      <3> HIDE DEF new
      <3>2. i = 1
        BY <2>1, <3>1
      <3> QED
        BY <3>1, <3>2 DEF new
    <2>4. CASE Closed(r)
      <3>1. Len(new) = Len(old) + 1 /\ new[Len(old) + 1].index = 0
        BY <2>4, <1>1, ClosedEvents
      <3> HIDE DEF old, new
      <3>2. i = Len(old) + 1
        BY <2>1, <3>1
      <3> QED
        BY <3>1, <3>2 DEF new
    <2>5. CASE Emptied(r)
      <3>1. Len(new) = 0
        BY <2>5 DEF Emptied
      <3> QED
        BY <2>1, <3>1
    <2>6. CASE Written(r)
      <3>1. /\ run[r].lease > 0 /\ ~run[r].cancel /\ OwnerOf(r) \in member
            /\ \A k \in Len(old) + 1 .. Len(new) :
                 new[k].attempt = run[r].attempt
        BY <2>6, <1>1, WrittenEvents
      <3>2. i \in Len(old) + 1 .. Len(new)
        <4> HIDE DEF old, new
        <4> QED
          BY <2>1
      <3> QED
        BY <3>1, <3>2
    <2> QED
      BY <1>1, <2>2, <2>3, <2>4, <2>5, <2>6 DEF StreamMoves
  <1>2. ASSUME StreamInv, StreamInv', [Next]_vars
        PROVE  \A r \in RunIds : \A i \in DOMAIN events'[r] \ DOMAIN events[r] :
                 Live(r, i)
    <2>1. TypeOK /\ TypeOK' /\ StreamMoves
      BY <1>2, QueueAssumption, FlowStep DEF StreamInv, QueueInv
    <2> QED
      BY <1>1, <2>1
  <1> HIDE DEF Live
  <1>3. StreamInv /\ StreamInv' /\ [Next]_vars =>
          [\A r \in RunIds : \A i \in DOMAIN events'[r] \ DOMAIN events[r] :
             Live(r, i)]_vars
    BY <1>2
  <1> QED
    BY <1>3, StreamInvariant, PTL DEF Spec, OnlyTheLiveAttemptWrites, Live
=============================================================================
