----------------------------- MODULE AgentQueue -----------------------------
(***************************************************************************)
(* The durable queue of assistant runs (services/agent_queue.py), the      *)
(* execution fence in front of every write of a worker                     *)
(* (services/agent_execution.py), the event stream of a run                *)
(* (services/agent_events.py) and the sidecar that executes a leased run   *)
(* (agent/src/worker.ts), over a network that loses requests and answers.  *)
(*                                                                         *)
(* Every queue operation is one immediate transaction, so one action.  The *)
(* one exception is the cancellation request, which decides on a status it *)
(* read before it took the write lock: it is two actions.                  *)
(*                                                                         *)
(* Time is the number of ticks a lease still has; zero is an expired (or   *)
(* cleared) lease.  An account belongs to one space, so its membership is  *)
(* one bit.                                                                *)
(***************************************************************************)
EXTENDS Naturals, Sequences, FiniteSets, CapacityCounters

CONSTANTS
    Sessions,      \* chat sessions
    Accounts,      \* accounts that own them
    AccountOf,     \* the owner of each session
    Keys,          \* Idempotency-Key values a browser may use in a session
    Workers,       \* executor slots of the sidecars
    None,          \* the session of a row that does not exist
    MaxRuns,       \* bound: run rows ever created
    MaxAttempts,   \* AGENT_MAX_ATTEMPTS
    AccountLimit,  \* AGENT_ACCOUNT_ASSISTANT_RUN_LIMIT
    LeaseTtl,      \* AGENT_LEASE_TTL_SECONDS, in ticks
    MaxOutput,     \* bound: events a worker produces in one attempt
    Bootstrapped   \* the capacity counter rows exist

ASSUME QueueAssumption ==
    /\ AccountOf \in [Sessions -> Accounts]
    /\ None \notin Sessions
    /\ MaxRuns \in Nat
    /\ MaxAttempts \in Nat \ {0}
    /\ AccountLimit \in Nat \ {0}
    /\ LeaseTtl \in Nat \ {0}
    /\ MaxOutput \in Nat \ {0}
    /\ Bootstrapped \in BOOLEAN
    /\ "global" \notin Accounts /\ "agent_kind" \notin Accounts

VARIABLES
    run,        \* agent_runs rows by id
    job,        \* agent_jobs rows, one per run
    events,     \* agent_run_events of a run, in seq order from 0
    messages,   \* user messages: <<session, key>>
    created,    \* run rows created so far; ids are given in this order
    member,     \* accounts whose space membership is active
    active,     \* capacity counters, by dimension
    cancelSeen, \* status a cancellation request read before its transaction
    worker      \* executor slots of the sidecars

vars == <<run, job, events, messages, created, member, active, cancelSeen,
          worker>>

-----------------------------------------------------------------------------
RunIds == 1..MaxRuns

Executing == {"leased", "running"}
Active == {"queued"} \cup Executing
Terminal == {"succeeded", "failed", "cancelled", "expired"}
Status == {"absent"} \cup Active \cup Terminal

TerminalEventFor == [succeeded |-> "run.settled", failed |-> "run.failed",
                     cancelled |-> "run.cancelled", expired |-> "run.expired"]
TerminalEvents == {"run.settled", "run.failed", "run.cancelled", "run.expired"}
EventTypes == {"message.user_added", "run.started", "message.assistant_added"}
                  \cup TerminalEvents

\* An event carries what its fingerprint tells apart: the attempt that sent it
\* and its place in that attempt's stream.  The server's own events have none.
Event == [type : EventTypes, attempt : Nat, index : Nat]
ServerEvent(type) == [type |-> type, attempt |-> 0, index |-> 0]
WorkerEvent(attempt, i) ==
    [type |-> IF i = 1 THEN "run.started" ELSE "message.assistant_added",
     attempt |-> attempt, index |-> i]

RunRow == [session : Sessions \cup {None}, status : Status, attempt : Nat,
           cancel : BOOLEAN, lease : 0..LeaseTtl]
NoRun == [session |-> None, status |-> "absent", attempt |-> 0,
          cancel |-> FALSE, lease |-> 0]

JobRow == [status : Status, attempt : Nat, cancel : BOOLEAN,
           lease : 0..LeaseTtl]
NoJob == [status |-> "absent", attempt |-> 0, cancel |-> FALSE, lease |-> 0]

\* phase: fetching is after the lease and before the context; running is the
\* model loop; failing is the catch block that still owes a failed settlement.
\* base is the context's next_event_seq; produced and acked count the events of
\* the attempt and those the server confirmed.
IdleSlot == [phase |-> "idle", run |-> 0, attempt |-> 0, base |-> 0,
             produced |-> 0, acked |-> 0]
BusySlot == [phase : {"fetching", "running", "failing"}, run : RunIds,
             attempt : Nat, base : Nat, produced : Nat, acked : Nat]
Slot == {IdleSlot} \cup BusySlot

Dims == IF Bootstrapped THEN {"global", "agent_kind"} \cup Accounts ELSE {}
DimsOf(a) == {"global", "agent_kind", a}
Capacity == [d \in Dims |->
                IF d \in Accounts THEN AccountLimit ELSE 8 * AccountLimit]

OwnerOf(r) == AccountOf[run[r].session]
ActiveRunsOf(a) == {r \in RunIds : run[r].status \in Active /\ OwnerOf(r) = a}

Init ==
    /\ run = [r \in RunIds |-> NoRun]
    /\ job = [r \in RunIds |-> NoJob]
    /\ events = [r \in RunIds |-> <<>>]
    /\ messages = {}
    /\ created = 0
    /\ member = Accounts
    /\ active = [d \in Dims |-> 0]
    /\ cancelSeen = [r \in RunIds |-> "none"]
    /\ worker = [w \in Workers |-> IdleSlot]

-----------------------------------------------------------------------------
(* The browser.                                                            *)

SessionBusy(s) ==
    \E r \in RunIds : run[r].session = s /\ run[r].status \in Active

AccountAdmits(a) ==
    IF Bootstrapped
    THEN CanAcquire(active, Capacity, DimsOf(a))
    ELSE Cardinality(ActiveRunsOf(a)) < AccountLimit

\* A key already used replays the first answer or is refused, and writes
\* nothing either way.
SubmitUserMessage(s, k) ==
    LET r == created + 1 IN
    /\ created < MaxRuns
    /\ <<s, k>> \notin messages
    /\ ~SessionBusy(s)
    /\ AccountAdmits(AccountOf[s])
    /\ messages' = messages \cup {<<s, k>>}
    /\ created' = r
    /\ run' = [run EXCEPT ![r] = [NoRun EXCEPT !.session = s,
                                               !.status = "queued"]]
    /\ job' = [job EXCEPT ![r] = [NoJob EXCEPT !.status = "queued"]]
    /\ events' = [events EXCEPT ![r] = <<ServerEvent("message.user_added")>>]
    /\ active' = Acquired(active, DimsOf(AccountOf[s]))
    /\ UNCHANGED <<member, cancelSeen, worker>>

\* Mutant of Effective: the cancellation is forgotten.
AsReported(r, status) == status

\* A success reported for a run that is being cancelled is a cancellation.
Effective(r, status) ==
    IF status = "succeeded" /\ run[r].cancel THEN "cancelled" ELSE status

\* The write of a settlement: the account's slot goes back once before the
\* fence and once after it, the row turns terminal, the stream is closed.
Settle(r, status) ==
    LET effective == Effective(r, status) IN
    /\ active' = Released(Released(active, DimsOf(OwnerOf(r))),
                          DimsOf(OwnerOf(r)))
    /\ run' = [run EXCEPT ![r].status = effective]
    /\ job' = [job EXCEPT ![r].status = effective]
    /\ events' = [events EXCEPT ![r] =
                    Append(@, ServerEvent(TerminalEventFor[effective]))]

\* request_cancel up to the write lock: the branch is chosen on this status.
ReadForCancel(r) ==
    /\ run[r].status \in Active
    /\ cancelSeen[r] = "none"
    /\ cancelSeen' = [cancelSeen EXCEPT ![r] =
                        IF run[r].status = "queued" THEN "queued" ELSE "active"]
    /\ UNCHANGED <<run, job, events, messages, created, member, active, worker>>

\* The queued branch settles whatever active status it now finds.
CancelQueued(r) ==
    /\ cancelSeen[r] = "queued"
    /\ run[r].status \in Active
    /\ cancelSeen' = [cancelSeen EXCEPT ![r] = "none"]
    /\ Settle(r, "cancelled")
    /\ UNCHANGED <<messages, created, member, worker>>

\* Mutant of CancelExecuting: the job row is forgotten.
CancelRunRowOnly(r) ==
    /\ cancelSeen[r] = "active"
    /\ run[r].status \in Active
    /\ cancelSeen' = [cancelSeen EXCEPT ![r] = "none"]
    /\ run' = [run EXCEPT ![r].cancel = TRUE]
    /\ UNCHANGED <<job, events, messages, created, member, active, worker>>

\* The other branch leaves the intent on both rows.
CancelExecuting(r) ==
    /\ cancelSeen[r] = "active"
    /\ run[r].status \in Active
    /\ cancelSeen' = [cancelSeen EXCEPT ![r] = "none"]
    /\ run' = [run EXCEPT ![r].cancel = TRUE]
    /\ job' = [job EXCEPT ![r].cancel = TRUE]
    /\ UNCHANGED <<events, messages, created, member, active, worker>>

\* Either branch is refused when the run ended in between.
CancelRefused(r) ==
    /\ cancelSeen[r] # "none"
    /\ run[r].status \notin Active
    /\ cancelSeen' = [cancelSeen EXCEPT ![r] = "none"]
    /\ UNCHANGED <<run, job, events, messages, created, member, active, worker>>

-----------------------------------------------------------------------------
(* The spaces: an account leaves its space and may be admitted again.      *)

Revoke(a) ==
    /\ a \in member
    /\ member' = member \ {a}
    /\ UNCHANGED <<run, job, events, messages, created, active, cancelSeen,
                   worker>>

Readmit(a) ==
    /\ a \in Accounts \ member
    /\ member' = member \cup {a}
    /\ UNCHANGED <<run, job, events, messages, created, active, cancelSeen,
                   worker>>

-----------------------------------------------------------------------------
(* The sidecar.  A worker holds the run token of one attempt; the fence is *)
(* what that token is worth when the request arrives.                      *)

\* Mutants of Fence: it does not compare the attempt, accepts a finished run,
\* or accepts an expired lease.
FenceAnyAttempt(r, attempt, allowCancel) ==
    /\ run[r].status \in Executing
    /\ OwnerOf(r) \in member
    /\ allowCancel \/ ~run[r].cancel
    /\ run[r].lease > 0
FenceFinished(r, attempt, allowCancel) ==
    /\ run[r].status # "absent"
    /\ run[r].attempt = attempt
    /\ OwnerOf(r) \in member
    /\ allowCancel \/ ~run[r].cancel
    /\ run[r].lease > 0
FenceNoLease(r, attempt, allowCancel) ==
    /\ run[r].status \in Executing
    /\ run[r].attempt = attempt
    /\ OwnerOf(r) \in member
    /\ allowCancel \/ ~run[r].cancel

Fence(r, attempt, allowCancel) ==
    /\ run[r].status \in Executing /\ job[r].status \in Executing
    /\ run[r].attempt = attempt /\ job[r].attempt = attempt
    /\ OwnerOf(r) \in member
    /\ allowCancel \/ ~(run[r].cancel \/ job[r].cancel)
    /\ run[r].lease > 0 /\ job[r].lease > 0

\* Refused for the cancellation alone, the one refusal a worker takes as the
\* server's verdict rather than as an error (checked before the lease).
CancelVerdict(r, attempt) ==
    /\ run[r].status \in Executing /\ job[r].status \in Executing
    /\ run[r].attempt = attempt /\ job[r].attempt = attempt
    /\ OwnerOf(r) \in member
    /\ run[r].cancel \/ job[r].cancel

Holds(w) == worker[w].phase # "idle"
HeldFence(w, allowCancel) ==
    Fence(worker[w].run, worker[w].attempt, allowCancel)

ToPhase(w, phase) == worker' = [worker EXCEPT ![w].phase = phase]
ToIdle(w) == worker' = [worker EXCEPT ![w] = IdleSlot]

OldestQueued(r) ==
    /\ job[r].status = "queued"
    /\ \A q \in RunIds : job[q].status = "queued" => r <= q

\* lease_next.  The answer may be lost: then nobody holds the new attempt.
LeaseNext(w) ==
    /\ ~Holds(w)
    /\ \E r \in RunIds :
         /\ OldestQueued(r)
         /\ job' = [job EXCEPT ![r].status = "leased",
                               ![r].attempt = job[r].attempt + 1,
                               ![r].lease = LeaseTtl]
         /\ run' = [run EXCEPT ![r].status = "leased",
                               ![r].attempt = job[r].attempt + 1,
                               ![r].lease = LeaseTtl]
         /\ \/ worker' = [worker EXCEPT ![w] =
                 [IdleSlot EXCEPT !.phase = "fetching", !.run = r,
                                  !.attempt = job[r].attempt + 1]]
            \/ UNCHANGED worker
    /\ UNCHANGED <<events, messages, created, member, active, cancelSeen>>

\* The context: the sequence number this attempt starts from, or the news that
\* the run is being cancelled, or a refusal.
FetchContext(w) ==
    LET r == worker[w].run IN
    /\ worker[w].phase = "fetching"
    /\ IF ~HeldFence(w, TRUE) THEN ToPhase(w, "failing")
       ELSE IF run[r].cancel THEN ToIdle(w)
       ELSE worker' = [worker EXCEPT ![w].phase = "running",
                                     ![w].base = Len(events[r])]
    /\ UNCHANGED <<run, job, events, messages, created, member, active,
                   cancelSeen>>

\* The model loop produces one more event.
Produce(w) ==
    /\ worker[w].phase = "running"
    /\ worker[w].produced < MaxOutput
    /\ worker' = [worker EXCEPT ![w].produced = @ + 1]
    /\ UNCHANGED <<run, job, events, messages, created, member, active,
                   cancelSeen>>

\* append_events for the batch acked+1 .. n.  An event whose number is taken
\* must be the very event already there; the others must continue the stream.
SeqOf(w, i) == worker[w].base + i - 1
BatchFits(w, n) ==
    LET stream == events[worker[w].run] IN
    /\ SeqOf(w, worker[w].acked + 1) <= Len(stream)
    /\ \A i \in worker[w].acked + 1 .. n :
         SeqOf(w, i) < Len(stream)
             => stream[SeqOf(w, i) + 1] = WorkerEvent(worker[w].attempt, i)
\* Mutant of Stored: only what was confirmed counts as stored.
Confirmed(w) == worker[w].acked

\* How many events of the attempt the stream already holds.
Stored(w) == Len(events[worker[w].run]) - worker[w].base

StoreBatch(w, n) ==
    LET r == worker[w].run
        fresh == [j \in 1 .. (IF n > Stored(w) THEN n - Stored(w) ELSE 0) |->
                    WorkerEvent(worker[w].attempt, Stored(w) + j)]
        starts == \E j \in DOMAIN fresh : fresh[j].type = "run.started"
    IN
    /\ worker[w].phase = "running"
    /\ n \in worker[w].acked + 1 .. worker[w].produced
    /\ HeldFence(w, FALSE)
    /\ BatchFits(w, n)
    /\ events' = [events EXCEPT ![r] = @ \o fresh]
    /\ run' = IF starts THEN [run EXCEPT ![r].status = "running"] ELSE run
    /\ job' = IF starts THEN [job EXCEPT ![r].status = "running"] ELSE job
    /\ UNCHANGED <<messages, created, member, active, cancelSeen>>

\* The batch is stored; its confirmation arrives or is lost, and then the
\* batch goes back to the head of the queue.
AppendEvents(w, n) ==
    /\ StoreBatch(w, n)
    /\ \/ worker' = [worker EXCEPT ![w].acked = n]
       \/ UNCHANGED worker

AppendRefused(w) ==
    /\ worker[w].phase = "running"
    /\ worker[w].acked < worker[w].produced
    /\ ~(HeldFence(w, FALSE) /\ BatchFits(w, worker[w].produced))
    /\ IF CancelVerdict(worker[w].run, worker[w].attempt)
       THEN ToIdle(w) ELSE ToPhase(w, "failing")
    /\ UNCHANGED <<run, job, events, messages, created, member, active,
                   cancelSeen>>

\* Mutant of Renewed: the lease is prolonged, not renewed.
Prolonged(lease) == lease + LeaseTtl

\* A renewed lease ends a whole period from now.
Renewed(lease) == LeaseTtl

\* The timer of the lease: renew, or learn that the attempt is over.
Heartbeat(w) ==
    LET r == worker[w].run IN
    /\ Holds(w)
    /\ IF HeldFence(w, TRUE) /\ ~(run[r].cancel \/ job[r].cancel)
       THEN /\ run' = [run EXCEPT ![r].lease = Renewed(@)]
            /\ job' = [job EXCEPT ![r].lease = Renewed(@)]
            /\ UNCHANGED worker
       ELSE ToIdle(w) /\ UNCHANGED <<run, job>>
    /\ UNCHANGED <<events, messages, created, member, active, cancelSeen>>

\* Any error of the attempt, the network's included, ends in the catch block.
GiveUp(w) ==
    /\ worker[w].phase \in {"fetching", "running"}
    /\ ToPhase(w, "failing")
    /\ UNCHANGED <<run, job, events, messages, created, member, active,
                   cancelSeen>>

\* Mutant of ClaimsSuccess: the last batch may still be unconfirmed.
ClaimsEarly(w) == worker[w].phase = "running" /\ worker[w].produced >= 2

\* The model finished, and the whole stream, an answer in it, is confirmed.
ClaimsSuccess(w) ==
    /\ worker[w].phase = "running"
    /\ worker[w].acked = worker[w].produced
    /\ worker[w].produced >= 2

\* A claim whose answer is lost turns into the catch block.
SettleSucceeded(w) ==
    /\ ClaimsSuccess(w)
    /\ IF HeldFence(w, TRUE)
       THEN /\ Settle(worker[w].run, "succeeded")
            /\ ToIdle(w) \/ ToPhase(w, "failing")
       ELSE ToPhase(w, "failing") /\ UNCHANGED <<run, job, events, active>>
    /\ UNCHANGED <<messages, created, member, cancelSeen>>

SettleFailed(w) ==
    /\ worker[w].phase = "failing"
    /\ IF HeldFence(w, TRUE)
       THEN Settle(worker[w].run, "failed")
       ELSE UNCHANGED <<run, job, events, active>>
    /\ ToIdle(w)
    /\ UNCHANGED <<messages, created, member, cancelSeen>>

\* The process dies, or a settlement never reaches the server.
Crash(w) ==
    /\ Holds(w)
    /\ ToIdle(w)
    /\ UNCHANGED <<run, job, events, messages, created, member, active,
                   cancelSeen>>

-----------------------------------------------------------------------------
(* Time and the maintenance loop.                                          *)

Tick ==
    /\ \E r \in RunIds : run[r].status \in Executing /\ run[r].lease > 0
    /\ run' = [r \in RunIds |->
                 IF run[r].status \in Executing /\ run[r].lease > 0
                 THEN [run[r] EXCEPT !.lease = @ - 1] ELSE run[r]]
    /\ job' = [r \in RunIds |->
                 IF job[r].status \in Executing /\ job[r].lease > 0
                 THEN [job[r] EXCEPT !.lease = @ - 1] ELSE job[r]]
    /\ UNCHANGED <<events, messages, created, member, active, cancelSeen,
                   worker>>

\* Mutant of Stale: expired leases are not looked for.
StaleUnlessExpired(r) ==
    /\ job[r].status \in Executing
    /\ job[r].cancel \/ OwnerOf(r) \notin member

Stale(r) ==
    /\ job[r].status \in Executing
    /\ \/ job[r].cancel
       \/ job[r].lease = 0
       \/ OwnerOf(r) \notin member

\* Mutant of ReapOutcome: the attempts are looked at before the cancellation.
ReapOutcomeAttemptsFirst(r) ==
    IF job[r].attempt >= MaxAttempts THEN "expired"
    ELSE IF job[r].cancel THEN "cancelled"
    ELSE IF OwnerOf(r) \notin member THEN "failed"
    ELSE "queued"

ReapOutcome(r) ==
    IF job[r].cancel THEN "cancelled"
    ELSE IF OwnerOf(r) \notin member THEN "failed"
    ELSE IF job[r].attempt >= MaxAttempts THEN "expired"
    ELSE "queued"

\* One pass over every stale job, in one transaction.  No counter moves.
ReaperPass ==
    /\ \E r \in RunIds : Stale(r)
    /\ run' = [r \in RunIds |->
                 IF Stale(r) THEN [run[r] EXCEPT !.status = ReapOutcome(r),
                                                 !.lease = 0] ELSE run[r]]
    /\ job' = [r \in RunIds |->
                 IF Stale(r) THEN [job[r] EXCEPT !.status = ReapOutcome(r),
                                                 !.lease = 0] ELSE job[r]]
    /\ events' = [r \in RunIds |->
                    IF Stale(r) /\ ReapOutcome(r) \in Terminal
                    THEN Append(events[r],
                           ServerEvent(TerminalEventFor[ReapOutcome(r)]))
                    ELSE events[r]]
    /\ UNCHANGED <<messages, created, member, active, cancelSeen, worker>>

\* Retention: the run goes, with its job and its events; the message stays.
PruneFinished(r) ==
    /\ run[r].status \in Terminal
    /\ run' = [run EXCEPT ![r] = NoRun]
    /\ job' = [job EXCEPT ![r] = NoJob]
    /\ events' = [events EXCEPT ![r] = <<>>]
    /\ UNCHANGED <<messages, created, member, active, cancelSeen, worker>>

-----------------------------------------------------------------------------
Browser ==
    \/ \E s \in Sessions, k \in Keys : SubmitUserMessage(s, k)
    \/ \E r \in RunIds : ReadForCancel(r) \/ CancelQueued(r)
                           \/ CancelExecuting(r) \/ CancelRefused(r)

Conclude(w) == GiveUp(w) \/ SettleSucceeded(w) \/ SettleFailed(w)

Sidecar(w) ==
    \/ LeaseNext(w)
    \/ FetchContext(w)
    \/ Produce(w)
    \/ \E n \in 1..MaxOutput : AppendEvents(w, n)
    \/ AppendRefused(w)
    \/ Heartbeat(w)
    \/ GiveUp(w)
    \/ SettleSucceeded(w)
    \/ SettleFailed(w)
    \/ Crash(w)

Next ==
    \/ Browser
    \/ \E a \in Accounts : Revoke(a) \/ Readmit(a)
    \/ \E w \in Workers : Sidecar(w)
    \/ Tick
    \/ ReaperPass
    \/ \E r \in RunIds : PruneFinished(r)

Spec == Init /\ [][Next]_vars

\* The maintenance loop runs forever and time passes; a poll loop leases while
\* it has a free slot; an attempt, bounded in every request, ends one way.
Fairness ==
    /\ WF_vars(ReaperPass)
    /\ WF_vars(Tick)
    /\ WF_vars(\E w \in Workers : LeaseNext(w))
    /\ \A w \in Workers : WF_vars(Conclude(w))

FairSpec == Spec /\ Fairness

-----------------------------------------------------------------------------
(* Properties.                                                             *)

\* Every variable has its type: rows, slots and counters as declared above.
TypeOK ==
    /\ run \in [RunIds -> RunRow]
    /\ job \in [RunIds -> JobRow]
    /\ events \in [RunIds -> Seq(Event)]
    /\ messages \subseteq Sessions \X Keys
    /\ created \in 0..MaxRuns
    /\ member \subseteq Accounts
    /\ active \in [Dims -> Nat]
    /\ cancelSeen \in [RunIds -> {"none", "queued", "active"}]
    /\ worker \in [Workers -> Slot]

\* The run row and its job row, written side by side in eight places, never
\* disagree: the fence, the reaper and the lease scan may read either.
RowsAgree ==
    \A r \in RunIds :
        /\ run[r].status = job[r].status
        /\ run[r].attempt = job[r].attempt
        /\ run[r].cancel = job[r].cancel
        /\ run[r].lease = job[r].lease

\* A session has at most one run that is queued, leased or running, however
\* often runs are requeued, cancelled or pruned (RT-2, _check_concurrency).
OneActiveRunPerSession ==
    \A r, q \in RunIds :
        /\ run[r].status \in Active /\ run[q].status \in Active
        /\ run[r].session = run[q].session
        => r = q

\* An account never has more active runs than its limit.
AccountWithinLimit ==
    \A a \in Accounts : Cardinality(ActiveRunsOf(a)) <= AccountLimit

\* At most one worker's token still passes the fence of a run: leases that
\* expired, were requeued and leased again leave no second writer behind.
OneLiveExecutor ==
    \A v, w \in Workers :
        /\ Holds(v) /\ Holds(w) /\ worker[v].run = worker[w].run
        /\ HeldFence(v, TRUE) /\ HeldFence(w, TRUE)
        => v = w

\* A run is executed at most MaxAttempts times, and one that waits in the
\* queue has an attempt left.
AttemptsBounded ==
    \A r \in RunIds :
        /\ run[r].attempt <= MaxAttempts
        /\ run[r].status = "queued" => run[r].attempt < MaxAttempts

\* The stream of a run starts with the user's message; a terminal event is
\* there exactly when the run is terminal, it is the right one, and it is last.
StreamClosedOnce ==
    \A r \in RunIds : LET stream == events[r] IN
        /\ run[r].status # "absent" => stream[1].type = "message.user_added"
        /\ \A i \in DOMAIN stream :
             stream[i].type \in TerminalEvents
                 => /\ i = Len(stream)
                    /\ run[r].status \in Terminal
                    /\ stream[i].type = TerminalEventFor[run[r].status]
        /\ run[r].status \in Terminal
             => stream[Len(stream)].type \in TerminalEvents

\* At-least-once delivery, exactly-once stream: the events of one attempt are
\* stored once each, in the order they were produced, and never after events
\* of a later attempt.
ExactlyOnceStream ==
    \A r \in RunIds : \A i, j \in DOMAIN events[r] :
        /\ i < j /\ events[r][i].index > 0 /\ events[r][j].index > 0
        => \/ events[r][i].attempt < events[r][j].attempt
           \/ /\ events[r][i].attempt = events[r][j].attempt
              /\ events[r][j].index - events[r][i].index = j - i

\* A succeeded run shows an answer of the attempt that succeeded, and that
\* attempt's stream is complete back to its run.started.
SucceededHasAnswer ==
    \A r \in RunIds : run[r].status = "succeeded" =>
        LET last == Len(events[r]) - 1 IN
        /\ events[r][last].type = "message.assistant_added"
        /\ events[r][last].attempt = run[r].attempt
        /\ events[r][last - events[r][last].index + 1]
              = WorkerEvent(run[r].attempt, 1)

\* What a reader of the stream sees is whole: its events come once each and in
\* order, it is closed exactly when the run ended, and a success has its answer,
\* although requests are repeated and workers replaced (append_events, _settle).
StreamIsWhole == ExactlyOnceStream /\ StreamClosedOnce /\ SucceededHasAnswer

\* A run somebody asked to cancel never ends as a success or a timeout.
CancelIntentHonoured ==
    \A r \in RunIds :
        run[r].cancel => run[r].status \notin {"succeeded", "expired"}

\* A terminal run never changes again, nor does its stream, until it is pruned.
TerminalIsFinal ==
    [][\A r \in RunIds : run[r].status \in Terminal =>
          \/ run'[r] = run[r] /\ events'[r] = events[r]
          \/ run'[r] = NoRun]_vars

\* A worker's event enters a stream only while its attempt is the current one,
\* holds a live lease for a member of the space and is not being cancelled.
OnlyTheLiveAttemptWrites ==
    [][\A r \in RunIds : \A i \in DOMAIN events'[r] \ DOMAIN events[r] :
          events'[r][i].index > 0 =>
              /\ events'[r][i].attempt = run[r].attempt
              /\ run[r].lease > 0 /\ ~run[r].cancel /\ OwnerOf(r) \in member
      ]_vars

\* A counted slot belongs to a run that is still active.
NoLeakedSlot ==
    Bootstrapped => \A a \in Accounts : active[a] <= Cardinality(ActiveRunsOf(a))

\* Every submitted run ends, cancelled or not: by its worker, by the reaper, or out
\* of attempts.
RunConverges ==
    \A r \in RunIds : run[r].status \in Active ~> run[r].status \notin Active

-----------------------------------------------------------------------------
(* What the queue implements: the lifecycle of a run without leases,       *)
(* workers or events.                                                      *)

LifecyclePhase(r) ==
    CASE run[r].status = "queued" -> "waiting"
      [] run[r].status \in Executing -> "trying"
      [] run[r].status \in Terminal -> run[r].status
      [] run[r].status = "absent" -> IF r <= created THEN "gone" ELSE "new"

Lifecycle == INSTANCE RunLifecycle WITH
    Runs <- RunIds,
    MaxTries <- MaxAttempts,
    phase <- [r \in RunIds |-> LifecyclePhase(r)],
    tries <- [r \in RunIds |-> run[r].attempt],
    wanted <- [r \in RunIds |-> run[r].cancel]

\* Whatever workers, network, reaper and browser do, a run is admitted once,
\* tried at most MaxAttempts times, retried only while nobody cancels it, and
\* ends once, as "expired" only when its attempts are used up.
ImplementsLifecycle == Lifecycle!Spec
=============================================================================
