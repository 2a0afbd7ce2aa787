------------------------- MODULE ExecutionAdmission -------------------------
(***************************************************************************)
(* The admission of tool calls in the API process: the per-tenant limiter  *)
(* (services/agent_admission.py), the cluster-wide counter and the tool    *)
(* semaphore that execute_tool (api/internal_agent.py) passes in this      *)
(* order before it hands the work to a thread, and the callback that gives *)
(* all three back when the thread ends.                                    *)
(*                                                                         *)
(* Everything here runs on one event loop, so the code between two awaits  *)
(* is one action.  The negative cache in Redis can only refuse a call      *)
(* before it touches any of this state, so it has no action.  The time a   *)
(* waiter has waited is its place in the queue.                            *)
(***************************************************************************)
EXTENDS Naturals, Sequences, FiniteSets, SequencesExt, CapacityCounters

CONSTANTS
    Calls,           \* tool calls in flight at one time; each may come again
    Tenants,         \* accounts and spaces
    TenantOf,        \* the tenant of each call
    Global,          \* AGENT_EXECUTION_GLOBAL_CAPACITY
    PerTenant,       \* AGENT_EXECUTION_PER_TENANT_CAPACITY
    MaxQueue,        \* AGENT_EXECUTION_MAX_QUEUE
    ToolSlots,       \* AGENT_TOOL_MAX_CONCURRENT_EXECUTIONS
    ClusterCapacity, \* capacity of the cluster_tool counter
    Bootstrapped     \* the cluster_tool counter row exists

\* A process has finitely many calls in flight, of tenants that exist.
ASSUME AdmissionAssumption ==
    /\ IsFiniteSet(Calls) /\ IsFiniteSet(Tenants)
    /\ TenantOf \in [Calls -> Tenants]
    /\ Global \in Nat \ {0}
    /\ PerTenant \in 1..Global
    /\ MaxQueue \in Nat \ {0}
    /\ ToolSlots \in Nat \ {0}
    /\ ClusterCapacity \in Nat
    /\ Bootstrapped \in BOOLEAN

VARIABLES
    phase,     \* where each call is
    active,    \* limiter slots in use, by tenant
    waiters,   \* the limiter's queue, oldest first
    toolQueue, \* calls that wait for the tool semaphore, oldest first
    cluster,   \* the cluster_tool counter row
    returning, \* cluster slots whose return is scheduled on a thread
    lost       \* history: slots left behind by callers cancelled between the
               \* limiter and the dispatch, by tenant and for the counter

vars == <<phase, active, waiters, toolQueue, cluster, returning, lost>>

(* pending: its future is not done.  granted: the future has a result and  *)
(* the slot is counted, the coroutine has not resumed.  lapsed: the future *)
(* is cancelled (timeout or caller gone), the coroutine has not resumed.   *)
(* detached: the caller is gone and its thread is still running.           *)
Phases == {"idle", "pending", "granted", "lapsed", "cluster", "toolwait",
           "running", "detached"}

Working == {"running", "detached"}
InPhase(S) == {c \in Calls : phase[c] \in S}

ClusterDims == IF Bootstrapped THEN {"cluster_tool"} ELSE {}
ClusterLimit == [d \in ClusterDims |-> ClusterCapacity]

Init ==
    /\ phase = [c \in Calls |-> "idle"]
    /\ active = [t \in Tenants |-> 0]
    /\ waiters = <<>>
    /\ toolQueue = <<>>
    /\ cluster = [d \in ClusterDims |-> 0]
    /\ returning = 0
    /\ lost = [tenant |-> [t \in Tenants |-> 0], cluster |-> 0]

-----------------------------------------------------------------------------
(* The limiter.                                                            *)

\* active_total: the slots of all tenants, each slot once.
SlotsOf(act) == {slot \in Tenants \X (1..Global) : slot[2] <= act[slot[1]]}
Total(act) == Cardinality(SlotsOf(act))

Pending(ph) == {c \in Calls : ph[c] = "pending"}
OthersWait(ph, t) == \E c \in Pending(ph) : TenantOf[c] # t

\* Mutant of HasRoom: the reserve for waiting tenants is forgotten.
HasRoomUnreserved(act, ph, t) == Total(act) < Global

HasRoom(act, ph, t) ==
    /\ Total(act) < Global
    /\ OthersWait(ph, t) => act[t] < PerTenant

Place(c) == CHOOSE i \in 1..Len(waiters) : waiters[i] = c

\* The order in which waiters are served: tenants with fewer slots first,
\* then the one that has waited longest.
Precedes(act, c, d) ==
    \/ act[TenantOf[c]] < act[TenantOf[d]]
    \/ act[TenantOf[c]] = act[TenantOf[d]] /\ Place(c) <= Place(d)

\* Mutant of Candidates: only the oldest waiter is considered.
CandidatesHead(act, ph) ==
    {c \in Pending(ph) : Place(c) = 1 /\ HasRoom(act, ph, TenantOf[c])}

Candidates(act, ph) == {c \in Pending(ph) : HasRoom(act, ph, TenantOf[c])}

Less(act, t) == [act EXCEPT ![t] = IF @ = 0 THEN 0 ELSE @ - 1]

\* release, called when the phases have become ph: one slot goes back, and at
\* most one waiter is given a slot.
Release(t, ph) ==
    LET act == Less(active, t)
        next == Candidates(act, ph)
    IN  IF next = {}
        THEN /\ active' = act
             /\ phase' = ph
             /\ UNCHANGED waiters
        ELSE \E c \in next :
                /\ \A d \in next : Precedes(act, c, d)
                /\ active' = [act EXCEPT ![TenantOf[c]] = @ + 1]
                /\ phase' = [ph EXCEPT ![c] = "granted"]
                /\ waiters' = RemoveFirst(waiters, c)

\* acquire on a call's arrival: a slot at once, a place in the queue, or a
\* refusal because the queue is full, which changes nothing.
Acquire(c) ==
    /\ phase[c] = "idle"
    /\ IF HasRoom(active, phase, TenantOf[c])
       THEN /\ active' = [active EXCEPT ![TenantOf[c]] = @ + 1]
            /\ phase' = [phase EXCEPT ![c] = "cluster"]
            /\ UNCHANGED waiters
       ELSE /\ Len(waiters) < MaxQueue
            /\ waiters' = Append(waiters, c)
            /\ phase' = [phase EXCEPT ![c] = "pending"]
            /\ UNCHANGED active
    /\ UNCHANGED <<toolQueue, cluster, returning, lost>>

\* A waiter that was given its slot goes on, also when its timer fires between
\* the grant and now.
Resume(c) ==
    /\ phase[c] = "granted"
    /\ phase' = [phase EXCEPT ![c] = "cluster"]
    /\ UNCHANGED <<active, waiters, toolQueue, cluster, returning, lost>>

\* The timer of a waiter fires, or its caller is cancelled: the future is
\* cancelled at once, the waiter leaves the queue when its coroutine resumes.
Lapse(c) ==
    /\ phase[c] = "pending"
    /\ phase' = [phase EXCEPT ![c] = "lapsed"]
    /\ UNCHANGED <<active, waiters, toolQueue, cluster, returning, lost>>

LeaveQueue(c) ==
    /\ phase[c] = "lapsed"
    /\ waiters' = RemoveFirst(waiters, c)
    /\ phase' = [phase EXCEPT ![c] = "idle"]
    /\ UNCHANGED <<active, toolQueue, cluster, returning, lost>>

\* Mutant of CancelGranted: the slot that was just granted is not given back.
CancelGrantedKeeps(c) ==
    /\ phase[c] = "granted"
    /\ phase' = [phase EXCEPT ![c] = "idle"]
    /\ UNCHANGED <<active, waiters, toolQueue, cluster, returning, lost>>

\* The caller is cancelled between the grant and the resumption.
CancelGranted(c) ==
    /\ phase[c] = "granted"
    /\ Release(TenantOf[c], [phase EXCEPT ![c] = "idle"])
    /\ UNCHANGED <<toolQueue, cluster, returning, lost>>

-----------------------------------------------------------------------------
(* The cluster counter and the tool semaphore.                             *)

ToolFree == Cardinality(InPhase(Working)) < ToolSlots

\* The tool slot is taken without suspending when one is free and nobody waits.
EnterTool(c) ==
    IF ToolFree /\ toolQueue = <<>>
    THEN /\ phase' = [phase EXCEPT ![c] = "running"]
         /\ UNCHANGED toolQueue
    ELSE /\ phase' = [phase EXCEPT ![c] = "toolwait"]
         /\ toolQueue' = Append(toolQueue, c)

ClusterGranted(c) ==
    /\ phase[c] = "cluster"
    /\ CanAcquire(cluster, ClusterLimit, ClusterDims)
    /\ cluster' = Acquired(cluster, ClusterDims)
    /\ EnterTool(c)
    /\ UNCHANGED <<active, waiters, returning, lost>>

\* Mutant of ClusterRefused: the refusal forgets the limiter's slot.
ClusterRefusedKeeps(c) ==
    /\ phase[c] = "cluster"
    /\ ~CanAcquire(cluster, ClusterLimit, ClusterDims)
    /\ phase' = [phase EXCEPT ![c] = "idle"]
    /\ UNCHANGED <<active, waiters, toolQueue, cluster, returning, lost>>

ClusterRefused(c) ==
    /\ phase[c] = "cluster"
    /\ ~CanAcquire(cluster, ClusterLimit, ClusterDims)
    /\ Release(TenantOf[c], [phase EXCEPT ![c] = "idle"])
    /\ UNCHANGED <<toolQueue, cluster, returning, lost>>

\* The slots a cancelled call leaves behind: its tenant's and n of the counter.
Left(c, n) ==
    [tenant |-> [lost.tenant EXCEPT ![TenantOf[c]] = @ + 1],
     cluster |-> lost.cluster + n]

\* The caller is cancelled while the counter is asked on a thread.  The thread
\* finishes all the same; nothing it or the limiter gave is returned.
CancelAtCluster(c) ==
    /\ phase[c] = "cluster"
    /\ phase' = [phase EXCEPT ![c] = "idle"]
    /\ IF CanAcquire(cluster, ClusterLimit, ClusterDims)
       THEN cluster' = Acquired(cluster, ClusterDims) /\ lost' = Left(c, 1)
       ELSE lost' = Left(c, 0) /\ UNCHANGED cluster
    /\ UNCHANGED <<active, waiters, toolQueue, returning>>

\* The caller is cancelled while it waits for the semaphore, before the try
\* block whose finally would give the slots back.
CancelAtTool(c) ==
    /\ phase[c] = "toolwait"
    /\ phase' = [phase EXCEPT ![c] = "idle"]
    /\ toolQueue' = RemoveFirst(toolQueue, c)
    /\ lost' = Left(c, 1)
    /\ UNCHANGED <<active, waiters, cluster, returning>>

\* The caller is cancelled while its thread runs: the shield keeps the thread.
Detach(c) ==
    /\ phase[c] = "running"
    /\ phase' = [phase EXCEPT ![c] = "detached"]
    /\ UNCHANGED <<active, waiters, toolQueue, cluster, returning, lost>>

\* The tool slot of a finished call goes to the head of the semaphore's queue.
PassToolSlot(c) ==
    IF toolQueue = <<>>
    THEN [phase EXCEPT ![c] = "idle"]
    ELSE [phase EXCEPT ![c] = "idle", ![Head(toolQueue)] = "running"]

\* Mutant of WorkDone: the slots come back when the caller leaves, the thread
\* still running.
DetachEarly(c) ==
    /\ phase[c] = "running"
    /\ toolQueue' = IF toolQueue = <<>> THEN <<>> ELSE Tail(toolQueue)
    /\ Release(TenantOf[c],
               [PassToolSlot(c) EXCEPT ![c] = "detached"])
    /\ returning' = returning + Cardinality(ClusterDims)
    /\ UNCHANGED <<cluster, lost>>

\* The thread ends; its callback returns the tool slot, then the tenant's slot,
\* and schedules the return of the cluster slot.
WorkDone(c) ==
    /\ phase[c] \in Working
    /\ toolQueue' = IF toolQueue = <<>> THEN <<>> ELSE Tail(toolQueue)
    /\ Release(TenantOf[c], PassToolSlot(c))
    /\ returning' = returning + Cardinality(ClusterDims)
    /\ UNCHANGED <<cluster, lost>>

ReturnCluster ==
    /\ returning > 0
    /\ returning' = returning - 1
    /\ cluster' = Released(cluster, ClusterDims)
    /\ UNCHANGED <<phase, active, waiters, toolQueue, lost>>

-----------------------------------------------------------------------------
Next ==
    \/ \E c \in Calls :
        \/ Acquire(c) \/ Resume(c) \/ Lapse(c) \/ LeaveQueue(c)
        \/ CancelGranted(c)
        \/ ClusterGranted(c) \/ ClusterRefused(c) \/ CancelAtCluster(c)
        \/ CancelAtTool(c) \/ Detach(c) \/ WorkDone(c)
    \/ ReturnCluster

Spec == Init /\ [][Next]_vars

-----------------------------------------------------------------------------
TypeOK ==
    /\ phase \in [Calls -> Phases]
    /\ active \in [Tenants -> 0..Global]
    /\ waiters \in Seq(Calls)
    /\ toolQueue \in Seq(Calls)
    /\ cluster \in [ClusterDims -> 0..ClusterCapacity]
    /\ returning \in Nat
    /\ lost \in [tenant : [Tenants -> Nat], cluster : Nat]

HoldsSlot == {"granted", "cluster", "toolwait", "running", "detached"}
HoldsCluster == {"toolwait", "running", "detached"}
NothingLost == \A t \in Tenants : lost.tenant[t] = 0

\* Every limiter slot in use belongs to a call that will give it back, and the
\* cluster counter counts the calls past it and the returns under way, except
\* for the callers cancelled at two known awaits of execute_tool: no grant,
\* refusal, timer or other cancellation loses or doubles a slot, and through the
\* fast path, hand-over on release and threads whose caller is gone alike no
\* more calls hold one than the process is configured for.
SlotsAccounted ==
    /\ \A t \in Tenants :
        active[t] = lost.tenant[t]
            + Cardinality({c \in InPhase(HoldsSlot) : TenantOf[c] = t})
    /\ \A d \in ClusterDims :
        cluster[d] = lost.cluster + returning
            + Cardinality(InPhase(HoldsCluster))
    /\ Cardinality(InPhase(HoldsSlot)) <= Global
    /\ Cardinality(InPhase(Working)) <= ToolSlots

\* A waiter never depends on its timer alone: while calls wait in the limiter
\* (and no slot was lost) some call holds a slot, so a release is to come that
\* looks at the queue.  Tenants that block each other cannot empty the pool.
NobodyWaitsOnAnEmptyPool ==
    Pending(phase) # {} /\ NothingLost => InPhase(HoldsSlot) # {}

\* A tenant is given a slot beyond its share only while no other tenant waits
\* (the reserve of _has_room, on the fast path and on hand-over).
ReserveKept ==
    [][\A t \in Tenants :
        active'[t] > active[t] /\ active'[t] > PerTenant
            => ~OthersWait(phase', t)]_vars

\* What the limiter asks of its callers (agent_admission.py:153) and what
\* execute_tool's finally is there for: an admitted call gives its slots back.
NoSlotLost == NothingLost /\ lost.cluster = 0
=============================================================================
