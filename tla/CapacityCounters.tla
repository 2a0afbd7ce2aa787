-------------------------- MODULE CapacityCounters --------------------------
(***************************************************************************)
(* The persistent capacity counters of services/capacity.py, as operators  *)
(* on a function from dimensions (global, agent_kind, one per account) to  *)
(* the number of slots in use.  A dimension outside the function's domain  *)
(* is one that has no counter row: it is not limited and never written.    *)
(***************************************************************************)
EXTENDS Naturals

\* Mutant of CanAcquire: off by one at the capacity.
CanAcquireOneMore(active, capacity, dims) ==
    \A d \in dims \cap DOMAIN active : active[d] <= capacity[d]

\* acquire, the check: every registered dimension still has a free slot.
CanAcquire(active, capacity, dims) ==
    \A d \in dims \cap DOMAIN active : active[d] < capacity[d]

\* acquire, the write: all the dimensions together, after every check.
Acquired(active, dims) ==
    [d \in DOMAIN active |-> IF d \in dims THEN active[d] + 1 ELSE active[d]]

\* release: every dimension that is not already at zero gives one slot back.
Released(active, dims) ==
    [d \in DOMAIN active |->
        IF d \in dims /\ active[d] > 0 THEN active[d] - 1 ELSE active[d]]
=============================================================================
