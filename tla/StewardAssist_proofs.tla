------------------------ MODULE StewardAssist_proofs ------------------------
(***************************************************************************)
(* What TLAPS proves about StewardAssist, for any cards, groups, quotas    *)
(* and limits: the slots are counted, a call that may have been answered   *)
(* is not made again, no kind of call starves, and late answers change     *)
(* nothing.                                                                *)
(***************************************************************************)
EXTENDS StewardAssist, FiniteNumbers, FiniteSetTheorems, TLAPS

-----------------------------------------------------------------------------
(* The inductive invariant.                                                *)

Statuses == {"none", "exhausted", "reserved", "in_flight", "succeeded",
             "degraded", "failed", "transient", "unknown", "skipped"}
Runs == {"none", "leased", "ended"}
Gates == {"none", "held", "returned"}
Workers == {"none", "opening", "executing", "applying"}

\* What is bounded by the plans made and the changes of their inputs.
PlanTypes ==
    /\ quota \in Quotas /\ registered \in BOOLEAN
    /\ planned \in 0..MaxCalls
    /\ input \in [Kinds -> 0..1]
    /\ snapshot \in [Plans -> [Kinds -> 0..1]]
    /\ over \subseteq Plans
    /\ fresh \subseteq Plans
    /\ first \in Kinds
    /\ changes \in 0..MaxCalls

RowTypes ==
    /\ status \in [Attempts -> Statuses]
    /\ lease \in [Attempts -> 0..Ttl]
    /\ run \in [Attempts -> Runs]
    /\ gate \in [Attempts -> Gates]
    /\ worker \in [Attempts -> Workers]

ProductTypes ==
    /\ applied \in [Attempts -> 0..1]
    /\ shown \in [Cards -> 0..MaxCalls]

\* A plan that is still to be made has no attempts.
NoneYet == \A a \in Attempts : a[1] > planned => status[a] = "none"

\* A row's gate tells whether its call holds a slot of the counter.
GateOK == \A a \in Attempts :
            gate[a] = "held" <=> registered /\ status[a] = "in_flight"

CountOK ==
    /\ active \in 0..Limit
    /\ SlotsHonest

\* No subject of the kind got an attempt in plan p, and some was to.
Starved(st, p, k) ==
    /\ \E s \in Of(k) : st[<<p, s>>] = "exhausted"
    /\ \A s \in Of(k) : st[<<p, s>>] \in {"none", "exhausted"}

\* The kind that starved in the last plan is the first of the next.
TurnOK == planned > 0
            => \A k \in Kinds : Starved(status, planned, k) => first = k

AssistInv ==
    /\ PlanTypes /\ RowTypes /\ ProductTypes
    /\ NoneYet
    /\ GateOK
    /\ CountOK
    /\ AskedOnce
    /\ TurnOK
    /\ NoKindStarves

-----------------------------------------------------------------------------
(* Types.                                                                  *)

LEMMA ConstantFacts ==
    ASSUME AssistAssumption
    PROVE  /\ MaxCalls \in Nat /\ MaxCalls > 0 /\ Limit \in Nat /\ Limit > 0
           /\ Ttl \in Nat /\ Ttl > 0
           /\ \A q \in Quotas : q \in Nat /\ q > 0
           /\ IsFiniteSet(Subjects) /\ IsFiniteSet(Plans) /\ IsFiniteSet(Attempts)
           /\ Attempts = Plans \X Subjects
           /\ Plans \subseteq Nat
<1>1. /\ MaxCalls \in Nat \ {0} /\ Limit \in Nat \ {0} /\ Ttl \in Nat \ {0}
      /\ Quotas \subseteq Nat \ {0}
      /\ IsFiniteSet(Cards) /\ IsFiniteSet(Groups)
  BY DEF AssistAssumption
<1>2. IsFiniteSet(Subjects)
  BY <1>1, FS_Union DEF Subjects
<1>3. IsFiniteSet(Plans)
  <2>1. 1 \in Int /\ MaxCalls \in Int
    BY <1>1
  <2> QED
    BY <2>1, FS_Interval DEF Plans
<1>4. IsFiniteSet(Attempts)
  BY <1>2, <1>3, FS_Product DEF Attempts
<1> QED
  BY <1>1, <1>2, <1>3, <1>4 DEF Attempts, Plans

LEMMA Times ==
    ASSUME NEW q \in Nat, q > 0, NEW n \in Nat
    PROVE  q * n \in Nat /\ q * n >= n
<1>1. q * n = (q - 1) * n + n
  OBVIOUS
<1>2. (q - 1) * n \in Nat /\ q * n \in Nat
  OBVIOUS
<1> QED
  BY <1>1, <1>2

LEMMA PlanForJobPlanTypes ==
    ASSUME AssistAssumption, AssistInv, PlanForJob
    PROVE  PlanTypes' /\ planned' = planned + 1 /\ planned + 1 \in Plans
<1>1. PlanTypes
  BY DEF AssistInv
<1>2. planned + 1 \in Plans
  <2>1. quota \in Nat /\ quota > 0 /\ planned + 1 \in Nat /\ planned \in Nat
        /\ changes \in Nat /\ MaxCalls \in Nat
    BY <1>1, ConstantFacts DEF PlanTypes
  <2>2. quota * (planned + 1) \in Nat /\ quota * (planned + 1) >= planned + 1
    BY <2>1, Times
  <2>3. quota * (planned + 1) + changes <= MaxCalls
    BY DEF PlanForJob
  <2> DEFINE calls == quota * (planned + 1)
  <2> HIDE DEF calls
  <2>4. calls \in Nat /\ calls >= planned + 1 /\ calls + changes <= MaxCalls
    BY <2>2, <2>3 DEF calls
  <2>5. planned + 1 <= MaxCalls
    BY <2>1, <2>4
  <2> QED
    BY <2>1, <2>5 DEF Plans
<1>3. first' \in Kinds
  <2>1. PICK R : Rotate(R)
    BY DEF PlanForJob
  <2>2. \A k \in Kinds : (CHOOSE j \in Kinds : j # k) \in Kinds
    BY DEF Kinds
  <2> QED
    BY <1>1, <2>1, <2>2 DEF Rotate, PlanTypes
<1>4. /\ planned' = planned + 1 /\ snapshot' = [snapshot EXCEPT ![planned + 1] = input]
      /\ fresh' = fresh \cup {planned + 1}
      /\ quota' = quota /\ registered' = registered /\ input' = input
      /\ over' = over /\ changes' = changes
  BY DEF PlanForJob, config
<1>5. planned' \in 0..MaxCalls
  BY <1>1, <1>2, <1>4, ConstantFacts DEF Plans, PlanTypes
<1> QED
  BY <1>1, <1>2, <1>3, <1>4, <1>5 DEF PlanTypes

\* The steps that make no plan.
Later == \/ Lease \/ LeaseNothing
         \/ \E a \in Attempts : \/ OpenRun(a) \/ Heartbeat(a) \/ Settle(a)
                                \/ SettleLapsed(a) \/ Apply(a) \/ WorkerGone(a)
         \/ RecoverAttempts \/ RecoverRuns
         \/ \E k \in Kinds : InputChanges(k)
         \/ Tick

LEMMA LaterKeepsPlan ==
    ASSUME Later
    PROVE  UNCHANGED <<config, plan>>
<1>1. CASE Lease \/ LeaseNothing \/ RecoverAttempts \/ RecoverRuns \/ Tick
  BY <1>1 DEF Lease, LeaseNothing, RecoverAttempts, RecoverRuns, Tick
<1>2. CASE \E a \in Attempts : OpenRun(a) \/ Heartbeat(a) \/ Settle(a)
  BY <1>2 DEF OpenRun, Heartbeat, Settle
<1>3. CASE \E a \in Attempts : SettleLapsed(a) \/ Apply(a) \/ WorkerGone(a)
  BY <1>3 DEF SettleLapsed, Apply, WorkerGone
<1>4. CASE \E k \in Kinds : InputChanges(k)
  BY <1>4 DEF InputChanges
<1> QED
  BY <1>1, <1>2, <1>3, <1>4 DEF Later

LEMMA LaterPlanTypes ==
    ASSUME AssistAssumption, AssistInv, Later
    PROVE  PlanTypes'
<1>1. PlanTypes
  BY DEF AssistInv
<1>2. /\ quota' = quota /\ registered' = registered
      /\ planned' = planned /\ snapshot' = snapshot /\ first' = first
  BY LaterKeepsPlan DEF config, plan
<1>3. CASE UNCHANGED <<input, over, fresh, changes>>
  BY <1>1, <1>2, <1>3 DEF PlanTypes
<1>4. ASSUME NEW k \in Kinds, InputChanges(k)
      PROVE  PlanTypes'
  <2>1. /\ quota * planned + changes < MaxCalls /\ changes' = changes + 1
        /\ input' = [input EXCEPT ![k] = 1 - input[k]]
        /\ over' = over /\ fresh' = fresh
    BY <1>4 DEF InputChanges
  <2>2. quota \in Nat /\ quota > 0 /\ planned \in Nat /\ changes \in Nat
        /\ MaxCalls \in Nat /\ input[k] \in 0..1
    BY <1>1, ConstantFacts DEF PlanTypes
  <2> DEFINE calls == quota * planned
  <2>3. calls \in Nat
    BY <2>2, Times
  <2> HIDE DEF calls
  <2>4. calls + changes < MaxCalls
    BY <2>1 DEF calls
  <2>5. changes + 1 \in 0..MaxCalls
    BY <2>2, <2>3, <2>4
  <2>6. 1 - input[k] \in 0..1
    BY <2>2
  <2>7. input' \in [Kinds -> 0..1]
    BY <1>1, <2>1, <2>6 DEF PlanTypes
  <2> QED
    BY <1>1, <1>2, <2>1, <2>5, <2>7 DEF PlanTypes
<1>5. CASE Tick
  <2>1. /\ \E late \in SUBSET {a[1] : a \in InStatus({"reserved"})} :
             over' = over \cup late
        /\ fresh' = {} /\ input' = input /\ changes' = changes
    BY <1>5 DEF Tick
  <2>2. over' \subseteq Plans
    BY <1>1, <2>1 DEF PlanTypes, InStatus, Attempts
  <2> QED
    BY <1>1, <1>2, <2>1, <2>2 DEF PlanTypes
<1>6. \/ UNCHANGED <<input, over, fresh, changes>>
      \/ \E k \in Kinds : InputChanges(k)
      \/ Tick
  <2>1. CASE Lease \/ LeaseNothing \/ RecoverAttempts \/ RecoverRuns
    BY <2>1 DEF Lease, LeaseNothing, RecoverAttempts, RecoverRuns
  <2>2. CASE \E a \in Attempts : OpenRun(a) \/ Heartbeat(a) \/ Settle(a)
    BY <2>2 DEF OpenRun, Heartbeat, Settle
  <2>3. CASE \E a \in Attempts : SettleLapsed(a) \/ Apply(a) \/ WorkerGone(a)
    BY <2>3 DEF SettleLapsed, Apply, WorkerGone
  <2> QED
    BY <2>1, <2>2, <2>3 DEF Later
<1> QED
  BY <1>3, <1>4, <1>5, <1>6

-----------------------------------------------------------------------------
(* How the rows move.                                                      *)

\* The ways an attempt goes on once its plan is made.
Moved(s, t) ==
    \/ t = s
    \/ s = "reserved" /\ t \in {"in_flight", "skipped"}
    \/ s = "in_flight" /\ t \in {"succeeded", "degraded", "failed", "transient",
                                 "skipped", "unknown"}
    \/ s = "succeeded" /\ t = "skipped"

LEMMA OutcomeIs ==
    ASSUME NEW a, NEW report \in Reports(a)
    PROVE  Outcome(a, report) \in {"succeeded", "degraded", "failed", "transient",
                                   "skipped"}
  BY DEF Outcome, Reports

LEMMA LaterMoves ==
    ASSUME AssistAssumption, AssistInv, Later
    PROVE  /\ status' \in [Attempts -> Statuses]
           /\ \A a \in Attempts : Moved(status[a], status'[a])
<1>0. status \in [Attempts -> Statuses]
  BY DEF AssistInv, RowTypes
<1>1. CASE status' = status
  BY <1>0, <1>1 DEF Moved
<1>2. CASE Lease
  <2>1. PICK a \in Sendable, Passed \in SUBSET (Due \ Sendable) :
          status' = [b \in Attempts |-> IF b = a THEN "in_flight"
                                        ELSE IF b \in Passed THEN "skipped"
                                        ELSE status[b]]
    BY <1>2 DEF Lease
  <2>2. \A b \in Due : b \in Attempts /\ status[b] = "reserved"
    BY DEF Due, InStatus
  <2>3. a \in Due
    BY DEF Sendable
  <2> QED
    BY <1>0, <2>1, <2>2, <2>3 DEF Moved, Statuses
<1>3. CASE LeaseNothing
  <2>1. status' = [a \in Attempts |-> IF a \in Due THEN "skipped" ELSE status[a]]
    BY <1>3 DEF LeaseNothing
  <2>2. \A b \in Due : b \in Attempts /\ status[b] = "reserved"
    BY DEF Due, InStatus
  <2> QED
    BY <1>0, <2>1, <2>2 DEF Moved, Statuses
<1>4. ASSUME NEW a \in Attempts, Settle(a)
      PROVE  /\ status' \in [Attempts -> Statuses]
             /\ \A b \in Attempts : Moved(status[b], status'[b])
  <2>1. PICK report \in Reports(a) : status' = [status EXCEPT ![a] = Outcome(a, report)]
    BY <1>4 DEF Settle, Record
  <2>2. status[a] = "in_flight"
    BY <1>4 DEF Settle, Fenced
  <2> DEFINE o == Outcome(a, report)
  <2>3. o \in {"succeeded", "degraded", "failed", "transient", "skipped"}
    BY OutcomeIs
  <2> HIDE DEF o
  <2>4. status' = [status EXCEPT ![a] = o]
    BY <2>1 DEF o
  <2> QED
    BY <1>0, <2>2, <2>3, <2>4 DEF Moved, Statuses
<1>5. CASE RecoverAttempts
  <2> DEFINE stuck == {a \in Attempts : Stuck(a)}
             valid == {a \in stuck : FencePasses(a)}
             lapsed == {a \in Attempts : Lapsed(a)}
  <2>1. status' = [a \in Attempts |-> IF a \in stuck \ valid THEN "skipped"
                                      ELSE IF a \in lapsed THEN "unknown"
                                      ELSE status[a]]
    BY <1>5 DEF RecoverAttempts
  <2>2. /\ \A a \in stuck : status[a] = "succeeded"
        /\ \A a \in lapsed : status[a] = "in_flight"
    BY DEF Stuck, Lapsed
  <2> HIDE DEF stuck, valid, lapsed
  <2> QED
    BY <1>0, <2>1, <2>2 DEF Moved, Statuses
<1>6. \/ status' = status \/ Lease \/ LeaseNothing \/ RecoverAttempts
      \/ \E a \in Attempts : Settle(a)
  <2>1. CASE \E a \in Attempts : OpenRun(a) \/ Heartbeat(a) \/ SettleLapsed(a)
    BY <2>1 DEF OpenRun, Heartbeat, SettleLapsed
  <2>2. CASE \E a \in Attempts : Apply(a) \/ WorkerGone(a)
    BY <2>2 DEF Apply, WorkerGone
  <2>3. CASE RecoverRuns \/ Tick \/ \E k \in Kinds : InputChanges(k)
    BY <2>3 DEF RecoverRuns, Tick, InputChanges
  <2> QED
    BY <2>1, <2>2, <2>3 DEF Later
<1> QED
  BY <1>1, <1>2, <1>3, <1>4, <1>5, <1>6

\* The choices of a plan.
LEMMA PlanIs ==
    ASSUME PlanForJob
    PROVE  \E work \in Works, R \in SUBSET Subjects :
             /\ R \subseteq Eligible(work) /\ Eligible(work) # {}
             /\ Cardinality(R) = Min({Cardinality(Eligible(work)), quota})
             /\ Shares(R, Eligible(work))
             /\ Rotate(R)
             /\ status' = [a \in Attempts |->
                             IF a[1] # planned + 1 \/ a[2] \notin Eligible(work)
                             THEN status[a]
                             ELSE IF a[2] \in R THEN "reserved" ELSE "exhausted"]
  BY DEF PlanForJob

\* What a plan writes: rows of its own, for the subjects it has calls for.
LEMMA PlanMoves ==
    ASSUME AssistAssumption, AssistInv, PlanForJob
    PROVE  /\ status' \in [Attempts -> Statuses]
           /\ \A a \in Attempts :
                /\ a[1] # planned + 1 => status'[a] = status[a]
                /\ a[1] = planned + 1 =>
                     /\ status[a] = "none"
                     /\ status'[a] \in {"none", "reserved", "exhausted"}
<1>0. /\ status \in [Attempts -> Statuses] /\ NoneYet /\ planned \in Nat
  BY ConstantFacts DEF AssistInv, RowTypes, PlanTypes
<1>1. PICK work \in Works, R \in SUBSET Subjects :
        status' = [a \in Attempts |->
                     IF a[1] # planned + 1 \/ a[2] \notin Eligible(work)
                     THEN status[a]
                     ELSE IF a[2] \in R THEN "reserved" ELSE "exhausted"]
  BY PlanIs
<1>2. \A a \in Attempts : a[1] = planned + 1 => status[a] = "none"
  <2>1. planned + 1 > planned
    BY <1>0
  <2> QED
    BY <1>0, <2>1 DEF NoneYet
<1> QED
  BY <1>0, <1>1, <1>2 DEF Statuses

LEMMA RowTypesStep ==
    ASSUME AssistAssumption, AssistInv, Next
    PROVE  RowTypes'
<1>0. RowTypes
  BY DEF AssistInv
<1>1. status' \in [Attempts -> Statuses]
  BY LaterMoves, PlanMoves DEF Next, Later
<1>2. Ttl \in 0..Ttl /\ 0 \in 0..Ttl
  BY ConstantFacts
<1>3. \A n \in 0..Ttl : OneLess(n) \in 0..Ttl
  BY ConstantFacts DEF OneLess
<1>4. CASE PlanForJob \/ LeaseNothing \/ \E k \in Kinds : InputChanges(k)
  BY <1>0, <1>1, <1>4 DEF PlanForJob, LeaseNothing, InputChanges, RowTypes, slots
<1>5. CASE Lease
  <2>1. PICK a \in Sendable :
          /\ lease' = [lease EXCEPT ![a] = Ttl]
          /\ Acquire(a)
          /\ worker' = [worker EXCEPT ![a] = "opening"]
    BY <1>5 DEF Lease
  <2>2. gate' \in [Attempts -> Gates]
    BY <1>0, <2>1 DEF Acquire, RowTypes, Gates, slots
  <2>3. run' = run
    BY <1>5 DEF Lease
  <2> QED
    BY <1>0, <1>1, <1>2, <2>1, <2>2, <2>3 DEF RowTypes, Workers
<1>6. ASSUME NEW a \in Attempts, OpenRun(a) \/ Heartbeat(a)
      PROVE  RowTypes'
  BY <1>0, <1>1, <1>2, <1>6 DEF OpenRun, Heartbeat, RowTypes, Runs, Workers, slots
<1>7. ASSUME NEW a \in Attempts, Settle(a)
      PROVE  RowTypes'
  <2>1. /\ run' = [run EXCEPT ![a] = "ended"] /\ lease' = [lease EXCEPT ![a] = 0]
        /\ \E o : Record(a, o)
        /\ ReleaseOf({a})
    BY <1>7 DEF Settle
  <2>2. worker' \in [Attempts -> Workers]
    BY <1>0, <2>1 DEF Record, RowTypes, Workers
  <2>3. gate' \in [Attempts -> Gates]
    BY <1>0, <2>1 DEF ReleaseOf, RowTypes, Gates
  <2> QED
    BY <1>0, <1>1, <1>2, <2>1, <2>2, <2>3 DEF RowTypes, Runs
<1>8. ASSUME NEW a \in Attempts, SettleLapsed(a) \/ Apply(a) \/ WorkerGone(a)
      PROVE  RowTypes'
  BY <1>0, <1>1, <1>2, <1>8
  DEF SettleLapsed, Apply, WorkerGone, RowTypes, Runs, Workers, slots
<1>9. CASE RecoverAttempts
  <2>1. /\ \E set : ReleaseOf(set)
        /\ lease' = lease /\ run' = run /\ worker' = worker
    BY <1>9 DEF RecoverAttempts
  <2>2. gate' \in [Attempts -> Gates]
    BY <1>0, <2>1 DEF ReleaseOf, RowTypes, Gates
  <2> QED
    BY <1>0, <1>1, <2>1, <2>2 DEF RowTypes
<1>10. CASE RecoverRuns
  BY <1>0, <1>1, <1>10 DEF RecoverRuns, RowTypes, Runs, slots
<1>11. CASE Tick
  BY <1>0, <1>1, <1>3, <1>11 DEF Tick, RowTypes, slots
<1> QED
  BY <1>4, <1>5, <1>6, <1>7, <1>8, <1>9, <1>10, <1>11 DEF Next

-----------------------------------------------------------------------------
(* What is written back.                                                   *)

\* The outcome of an attempt is written back at most once.
LEMMA WrittenOnce ==
    ASSUME AssistAssumption, AssistInv, NEW set, WriteBack(set),
           \A a \in set : Unapplied(a)
    PROVE  /\ ProductTypes'
           /\ \A a \in Attempts : applied'[a] = applied[a] \/ Unapplied(a)
<1>0. ProductTypes
  BY DEF AssistInv
<1>1. applied' = [a \in Attempts |->
                    IF a \in set THEN applied[a] + 1 ELSE applied[a]]
  BY DEF WriteBack
<1>2. \A a \in set : applied[a] + 1 \in 0..1
  BY DEF Unapplied
<1>3. ASSUME NEW c \in Cards
      PROVE  shown'[c] \in 0..MaxCalls
  <2> DEFINE texts == {p \in Plans : <<p, c>> \in set
                                     /\ status[<<p, c>>] = "succeeded"}
  <2>1. shown'[c] = IF texts = {} THEN shown[c] ELSE Max(texts)
    BY DEF WriteBack
  <2>2. texts \subseteq Plans /\ Plans \subseteq 0..MaxCalls
    BY ConstantFacts DEF Plans
  <2>3. texts # {} => Max(texts) \in texts
    <3>1. texts \subseteq Nat /\ MaxCalls \in Nat /\ \A p \in texts : p <= MaxCalls
      BY <2>2, ConstantFacts DEF Plans
    <3> HIDE DEF texts
    <3> QED
      BY <3>1, MaxOfBounded
  <2> HIDE DEF texts
  <2> QED
    BY <1>0, <2>1, <2>2, <2>3 DEF ProductTypes
<1>4. shown' \in [Cards -> 0..MaxCalls]
  <2>1. shown' = [c \in Cards |-> shown'[c]]
    BY DEF WriteBack
  <2> QED
    BY <1>3, <2>1
<1> QED
  BY <1>0, <1>1, <1>2, <1>4 DEF ProductTypes

LEMMA ProductStep ==
    ASSUME AssistAssumption, AssistInv, Next
    PROVE  /\ ProductTypes'
           /\ \A a \in Attempts : applied'[a] = applied[a] \/ Unapplied(a)
<1>1. CASE UNCHANGED product
  BY <1>1 DEF AssistInv, ProductTypes, product
<1>2. ASSUME NEW a \in Attempts, Apply(a)
      PROVE  /\ ProductTypes'
             /\ \A b \in Attempts : applied'[b] = applied[b] \/ Unapplied(b)
  <2>1. WriteBack({b \in {a} : Unapplied(b)})
    BY <1>2 DEF Apply
  <2> QED
    BY <2>1, WrittenOnce
<1>3. CASE RecoverAttempts
  <2> DEFINE valid == {a \in {b \in Attempts : Stuck(b)} : FencePasses(a)}
  <2>1. WriteBack(valid)
    BY <1>3 DEF RecoverAttempts
  <2>2. \A a \in valid : Unapplied(a)
    BY DEF Stuck
  <2> HIDE DEF valid
  <2> QED
    BY <2>1, <2>2, WrittenOnce
<1>4. \/ UNCHANGED product \/ RecoverAttempts
      \/ \E a \in Attempts : Apply(a)
  <2>1. CASE PlanForJob \/ Lease \/ LeaseNothing \/ RecoverRuns \/ Tick
    BY <2>1 DEF PlanForJob, Lease, LeaseNothing, RecoverRuns, Tick
  <2>2. CASE \E a \in Attempts : OpenRun(a) \/ Heartbeat(a) \/ Settle(a)
    BY <2>2 DEF OpenRun, Heartbeat, Settle
  <2>3. CASE \E a \in Attempts : SettleLapsed(a) \/ WorkerGone(a)
    BY <2>3 DEF SettleLapsed, WorkerGone
  <2>4. CASE \E k \in Kinds : InputChanges(k)
    BY <2>4 DEF InputChanges
  <2> QED
    BY <2>1, <2>2, <2>3, <2>4 DEF Next
<1> QED
  BY <1>1, <1>2, <1>3, <1>4

-----------------------------------------------------------------------------
(* Slots.                                                                  *)

\* The calls in flight, and the live ones, of given rows.
InFlight(st) == {a \in Attempts : st[a] = "in_flight"}
Live(st, le) == {a \in Attempts : st[a] = "in_flight" /\ le[a] > 0}

SlotParts(reg, st, le, ga, ac) ==
    /\ \A a \in Attempts : ga[a] = "held" <=> reg /\ st[a] = "in_flight"
    /\ ac \in 0..Limit
    /\ reg => ac = Cardinality(InFlight(st))
    /\ Cardinality(Live(st, le)) <= Limit

LEMMA SlotPartsAre ==
    /\ GateOK /\ CountOK <=> SlotParts(registered, status, lease, gate, active)
    /\ GateOK' /\ CountOK'
         <=> SlotParts(registered', status', lease', gate', active')
<1>1. /\ InStatus({"in_flight"}) = InFlight(status)
      /\ Holders = Live(status, lease)
  BY DEF InStatus, Holders, InFlight, Live
<1>2. /\ InStatus({"in_flight"})' = InFlight(status')
      /\ Holders' = Live(status', lease')
  BY DEF InStatus, Holders, InFlight, Live
<1>3. GateOK /\ CountOK <=> SlotParts(registered, status, lease, gate, active)
  BY <1>1 DEF GateOK, CountOK, SlotsHonest, SlotParts
<1>4. GateOK' /\ CountOK'
        <=> SlotParts(registered', status', lease', gate', active')
  BY <1>2 DEF GateOK, CountOK, SlotsHonest, SlotParts
<1> QED
  BY <1>3, <1>4

LEMMA SetSizes ==
    ASSUME AssistAssumption, NEW st, NEW le
    PROVE  /\ IsFiniteSet(InFlight(st)) /\ Cardinality(InFlight(st)) \in Nat
           /\ IsFiniteSet(Live(st, le)) /\ Cardinality(Live(st, le)) \in Nat
           /\ Cardinality(Live(st, le)) <= Cardinality(InFlight(st))
<1>1. IsFiniteSet(Attempts) /\ InFlight(st) \in SUBSET Attempts
      /\ Live(st, le) \in SUBSET InFlight(st)
  BY ConstantFacts DEF InFlight, Live
<1>2. IsFiniteSet(InFlight(st))
  BY <1>1, FS_Subset
<1>3. IsFiniteSet(Live(st, le))
      /\ Cardinality(Live(st, le)) <= Cardinality(InFlight(st))
  BY <1>1, <1>2, FS_Subset
<1> QED
  BY <1>2, <1>3, FS_CardinalityType

\* No call begins or ends, and no lease comes back to life.
LEMMA SlotsQuiet ==
    ASSUME AssistAssumption, NEW reg, NEW st, NEW le, NEW ga, NEW ac,
           SlotParts(reg, st, le, ga, ac), NEW after, NEW later,
           \A a \in Attempts : after[a] = "in_flight" <=> st[a] = "in_flight",
           \A a \in Attempts : after[a] = "in_flight" /\ later[a] > 0 => le[a] > 0
    PROVE  SlotParts(reg, after, later, ga, ac)
<1>1. InFlight(after) = InFlight(st)
  BY DEF InFlight
<1>2. Live(after, later) \in SUBSET Live(st, le)
  BY DEF Live
<1>3. Cardinality(Live(after, later)) <= Limit
  <2>1. Cardinality(Live(after, later)) <= Cardinality(Live(st, le))
    BY <1>2, SetSizes, FS_Subset
  <2>2. Cardinality(Live(st, le)) <= Limit
    BY DEF SlotParts
  <2> QED
    BY <2>1, <2>2, SetSizes, ConstantFacts
<1> QED
  BY <1>1, <1>3 DEF SlotParts

\* One call begins, and takes a slot if there is a counter.
LEMMA SlotTaken ==
    ASSUME AssistAssumption, NEW reg \in BOOLEAN, NEW st, NEW le,
           NEW ga \in [Attempts -> Gates], NEW ac,
           SlotParts(reg, st, le, ga, ac), NEW after, NEW later, NEW gb, NEW ad,
           NEW a \in Attempts, st[a] # "in_flight", after[a] = "in_flight",
           \A b \in Attempts : b # a =>
               (after[b] = "in_flight" <=> st[b] = "in_flight") /\ later[b] = le[b],
           IF reg THEN ac < Limit ELSE Cardinality(Live(st, le)) < Limit,
           IF reg THEN ad = ac + 1 /\ gb = [ga EXCEPT ![a] = "held"]
                  ELSE ad = ac /\ gb = ga
    PROVE  SlotParts(reg, after, later, gb, ad)
<1>1. InFlight(after) = InFlight(st) \cup {a} /\ a \notin InFlight(st)
  BY DEF InFlight
<1>2. Cardinality(InFlight(after)) = Cardinality(InFlight(st)) + 1
  BY <1>1, SetSizes, FS_AddElement
<1>3. CASE reg
  <2>1. ad = ac + 1 /\ gb = [ga EXCEPT ![a] = "held"] /\ ac < Limit
    BY <1>3
  <2>2. ac \in 0..Limit /\ ac = Cardinality(InFlight(st))
    BY <1>3 DEF SlotParts
  <2>3. ad \in 0..Limit
    BY <2>1, <2>2, ConstantFacts
  <2>4. Cardinality(Live(after, later)) <= Limit
    BY <1>2, <2>1, <2>2, <2>3, SetSizes, ConstantFacts
  <2>5. \A b \in Attempts : gb[b] = "held" <=> after[b] = "in_flight"
    BY <1>3, <2>1 DEF SlotParts
  <2> QED
    BY <1>2, <1>3, <2>1, <2>2, <2>3, <2>4, <2>5 DEF SlotParts
<1>4. CASE ~reg
  <2>1. ad = ac /\ gb = ga /\ Cardinality(Live(st, le)) < Limit
    BY <1>4
  <2>2. Live(after, later) \in SUBSET (Live(st, le) \cup {a}) /\ a \notin Live(st, le)
    BY DEF Live
  <2>3. IsFiniteSet(Live(st, le) \cup {a})
        /\ Cardinality(Live(st, le) \cup {a}) = Cardinality(Live(st, le)) + 1
    BY <2>2, SetSizes, FS_AddElement
  <2>4. Cardinality(Live(after, later)) <= Cardinality(Live(st, le)) + 1
    BY <2>2, <2>3, FS_Subset
  <2>5. Cardinality(Live(after, later)) <= Limit
    BY <2>1, <2>4, SetSizes, ConstantFacts
  <2> QED
    BY <1>4, <2>1, <2>5 DEF SlotParts
<1> QED
  BY <1>3, <1>4

\* Calls end and give their slots back, each once.
LEMMA SlotsReturned ==
    ASSUME AssistAssumption, NEW reg \in BOOLEAN, NEW st, NEW le,
           NEW ga \in [Attempts -> Gates], NEW ac,
           SlotParts(reg, st, le, ga, ac), NEW after, NEW later, NEW gb, NEW ad,
           NEW set \in SUBSET Attempts,
           \A a \in Attempts :
               after[a] = "in_flight" <=> st[a] = "in_flight" /\ a \notin set,
           \A a \in Attempts : later[a] > 0 => le[a] > 0,
           gb = [a \in Attempts |-> IF a \in {b \in set : ga[b] = "held"}
                                    THEN "returned" ELSE ga[a]],
           ad = ac - Cardinality({b \in set : ga[b] = "held"})
    PROVE  SlotParts(reg, after, later, gb, ad)
<1> DEFINE holding == {b \in set : ga[b] = "held"}
<1>1. /\ \A a \in Attempts : ga[a] = "held" <=> reg /\ st[a] = "in_flight"
      /\ ac \in 0..Limit
      /\ reg => ac = Cardinality(InFlight(st))
      /\ Cardinality(Live(st, le)) <= Limit
  BY DEF SlotParts
<1>2. gb = [a \in Attempts |-> IF a \in holding THEN "returned" ELSE ga[a]]
      /\ ad = ac - Cardinality(holding)
      /\ \A a \in Attempts : a \in holding <=> a \in set /\ ga[a] = "held"
  OBVIOUS
<1> HIDE DEF holding
<1>3. \A a \in Attempts : gb[a] = "held" <=> reg /\ after[a] = "in_flight"
  BY <1>1, <1>2
<1>4. Cardinality(Live(after, later)) <= Limit
  <2>1. Live(after, later) \in SUBSET Live(st, le)
    BY DEF Live
  <2>2. Cardinality(Live(after, later)) <= Cardinality(Live(st, le))
    BY <2>1, SetSizes, FS_Subset
  <2> QED
    BY <1>1, <2>2, SetSizes, ConstantFacts
<1>5. CASE reg
  <2>1. InFlight(after) = InFlight(st) \ holding /\ holding \in SUBSET InFlight(st)
    BY <1>1, <1>2, <1>5 DEF InFlight, holding
  <2>2. IsFiniteSet(holding) /\ Cardinality(holding) \in Nat
    BY <2>1, SetSizes, FS_Subset, FS_CardinalityType
  <2>3. Cardinality(InFlight(after)) = Cardinality(InFlight(st)) - Cardinality(holding)
    <3>1. InFlight(st) \cap holding = holding
      BY <2>1
    <3> QED
      BY <2>1, <3>1, SetSizes, FS_Difference
  <2>4. ad = Cardinality(InFlight(after))
    BY <1>1, <1>2, <1>5, <2>3
  <2>5. ad \in 0..Limit
    BY <1>1, <1>2, <2>2, <2>4, SetSizes, ConstantFacts
  <2> QED
    BY <1>3, <1>4, <2>4, <2>5 DEF SlotParts
<1>6. CASE ~reg
  <2>1. holding = {}
    BY <1>1, <1>6 DEF holding
  <2>2. ad = ac
    BY <1>1, <1>2, <2>1, FS_EmptySet, ConstantFacts
  <2> QED
    BY <1>1, <1>3, <1>4, <1>6, <2>2 DEF SlotParts
<1> QED
  BY <1>5, <1>6

LEMMA SlotStep ==
    ASSUME AssistAssumption, AssistInv, Next
    PROVE  GateOK' /\ CountOK'
<1>0. /\ SlotParts(registered, status, lease, gate, active)
      /\ registered \in BOOLEAN /\ gate \in [Attempts -> Gates]
      /\ status \in [Attempts -> Statuses] /\ lease \in [Attempts -> 0..Ttl]
      /\ registered' = registered
  <2>1. GateOK /\ CountOK /\ PlanTypes /\ RowTypes
    BY DEF AssistInv
  <2>2. registered' = registered
    BY LaterKeepsPlan DEF Next, Later, PlanForJob, config
  <2> QED
    BY <2>1, <2>2, SlotPartsAre DEF PlanTypes, RowTypes
<1> SUFFICES SlotParts(registered', status', lease', gate', active')
  BY SlotPartsAre
<1>1. CASE /\ UNCHANGED slots
           /\ \A a \in Attempts : status'[a] = "in_flight" <=> status[a] = "in_flight"
           /\ \A a \in Attempts :
                status'[a] = "in_flight" /\ lease'[a] > 0 => lease[a] > 0
  <2>1. gate' = gate /\ active' = active
    BY <1>1 DEF slots
  <2> QED
    BY <1>0, <1>1, <2>1, SlotsQuiet
<1>2. CASE PlanForJob
  <2>1. UNCHANGED slots /\ lease' = lease
    BY <1>2 DEF PlanForJob
  <2>2. \A a \in Attempts : status'[a] = "in_flight" <=> status[a] = "in_flight"
    BY <1>2, PlanMoves
  <2> QED
    BY <1>1, <2>1, <2>2
<1>3. CASE Lease
  <2>1. PICK a \in Sendable, Passed \in SUBSET (Due \ Sendable) :
          /\ status' = [b \in Attempts |-> IF b = a THEN "in_flight"
                                           ELSE IF b \in Passed THEN "skipped"
                                           ELSE status[b]]
          /\ lease' = [lease EXCEPT ![a] = Ttl]
          /\ Acquire(a)
    BY <1>3 DEF Lease
  <2>2. \A b \in Due : b \in Attempts /\ status[b] = "reserved"
    BY DEF Due, InStatus
  <2>3. a \in Attempts /\ status[a] # "in_flight" /\ status'[a] = "in_flight"
    BY <2>1, <2>2 DEF Sendable
  <2>4. \A b \in Attempts : b # a =>
          /\ status'[b] = "in_flight" <=> status[b] = "in_flight"
          /\ lease'[b] = lease[b]
    BY <1>0, <2>1, <2>2
  <2>5. Holders = Live(status, lease)
    BY DEF Holders, InStatus, Live
  <2>6. IF registered THEN active < Limit
        ELSE Cardinality(Live(status, lease)) < Limit
    BY <1>3, <2>5 DEF Lease, MayAcquire
  <2>7. IF registered
        THEN active' = active + 1 /\ gate' = [gate EXCEPT ![a] = "held"]
        ELSE active' = active /\ gate' = gate
    BY <2>1 DEF Acquire, slots
  <2> QED
    BY <1>0, <2>3, <2>4, <2>6, <2>7, SlotTaken
<1>4. CASE LeaseNothing
  <2>1. /\ UNCHANGED slots /\ lease' = lease
        /\ status' = [a \in Attempts |-> IF a \in Due THEN "skipped" ELSE status[a]]
    BY <1>4 DEF LeaseNothing
  <2>2. \A b \in Due : b \in Attempts /\ status[b] = "reserved"
    BY DEF Due, InStatus
  <2> QED
    BY <1>1, <2>1, <2>2
<1>5. ASSUME NEW a \in Attempts,
             OpenRun(a) \/ Heartbeat(a) \/ SettleLapsed(a) \/ Apply(a) \/ WorkerGone(a)
      PROVE  SlotParts(registered', status', lease', gate', active')
  <2>1. UNCHANGED slots /\ status' = status
    BY <1>5 DEF OpenRun, Heartbeat, SettleLapsed, Apply, WorkerGone
  <2>2. \A b \in Attempts : lease'[b] > 0 => lease[b] > 0
    <3>1. CASE OpenRun(a) \/ Apply(a) \/ WorkerGone(a)
      BY <3>1 DEF OpenRun, Apply, WorkerGone
    <3>2. CASE Heartbeat(a)
      BY <1>0, <3>2 DEF Heartbeat, Fenced
    <3>3. CASE SettleLapsed(a)
      BY <1>0, <3>3 DEF SettleLapsed, Fenced
    <3> QED
      BY <1>5, <3>1, <3>2, <3>3
  <2> QED
    BY <1>1, <2>1, <2>2
<1>6. ASSUME NEW a \in Attempts, Settle(a)
      PROVE  SlotParts(registered', status', lease', gate', active')
  <2>1. PICK report \in Reports(a) : status' = [status EXCEPT ![a] = Outcome(a, report)]
    BY <1>6 DEF Settle, Record
  <2>2. /\ lease' = [lease EXCEPT ![a] = 0]
        /\ ReleaseOf({a})
    BY <1>6 DEF Settle
  <2>3. Outcome(a, report) # "in_flight"
    BY OutcomeIs
  <2>4. /\ {a} \in SUBSET Attempts
        /\ \A b \in Attempts :
             status'[b] = "in_flight" <=> status[b] = "in_flight" /\ b \notin {a}
        /\ \A b \in Attempts : lease'[b] > 0 => lease[b] > 0
    BY <1>0, <2>1, <2>2, <2>3
  <2>5. /\ gate' = [b \in Attempts |-> IF b \in {d \in {a} : gate[d] = "held"}
                                       THEN "returned" ELSE gate[b]]
        /\ active' = active - Cardinality({d \in {a} : gate[d] = "held"})
    BY <2>2 DEF ReleaseOf
  <2> QED
    BY <1>0, <2>4, <2>5, SlotsReturned
<1>7. CASE RecoverAttempts
  <2> DEFINE stuck == {a \in Attempts : Stuck(a)}
             valid == {a \in stuck : FencePasses(a)}
             lapsed == {a \in Attempts : Lapsed(a)}
             ended == (stuck \ valid) \cup lapsed
  <2>1. /\ status' = [a \in Attempts |-> IF a \in stuck \ valid THEN "skipped"
                                         ELSE IF a \in lapsed THEN "unknown"
                                         ELSE status[a]]
        /\ ReleaseOf(ended)
        /\ lease' = lease
    BY <1>7 DEF RecoverAttempts
  <2>2. /\ \A a \in stuck : status[a] = "succeeded"
        /\ \A a \in lapsed : status[a] = "in_flight"
        /\ stuck \in SUBSET Attempts /\ lapsed \in SUBSET Attempts
    BY DEF Stuck, Lapsed
  <2>3. /\ gate' = [b \in Attempts |-> IF b \in {d \in ended : gate[d] = "held"}
                                       THEN "returned" ELSE gate[b]]
        /\ active' = active - Cardinality({d \in ended : gate[d] = "held"})
    BY <2>1 DEF ReleaseOf
  <2> HIDE DEF stuck, valid, lapsed
  <2>4. /\ ended \in SUBSET Attempts
        /\ \A b \in Attempts :
             status'[b] = "in_flight" <=> status[b] = "in_flight" /\ b \notin ended
        /\ \A b \in Attempts : lease'[b] > 0 => lease[b] > 0
    BY <1>0, <2>1, <2>2
  <2> HIDE DEF ended
  <2> QED
    BY <1>0, <2>3, <2>4, SlotsReturned
<1>8. CASE RecoverRuns \/ \E k \in Kinds : InputChanges(k)
  BY <1>1, <1>8 DEF RecoverRuns, InputChanges
<1>9. CASE Tick
  <2>1. /\ UNCHANGED slots /\ status' = status
        /\ lease' = [a \in Attempts |-> OneLess(lease[a])]
    BY <1>9 DEF Tick
  <2>2. \A a \in Attempts : lease'[a] > 0 => lease[a] > 0
    BY <1>0, <2>1 DEF OneLess
  <2> QED
    BY <1>1, <2>1, <2>2
<1> QED
  BY <1>2, <1>3, <1>4, <1>5, <1>6, <1>7, <1>8, <1>9 DEF Next

LEMMA NoneYetStep ==
    ASSUME AssistAssumption, AssistInv, Next
    PROVE  NoneYet'
<1>0. NoneYet /\ planned \in Nat
  BY ConstantFacts DEF AssistInv, PlanTypes
<1>1. CASE PlanForJob
  <2>1. planned' = planned + 1
    BY <1>1 DEF PlanForJob
  <2>2. ASSUME NEW a \in Attempts, a[1] > planned + 1
        PROVE  status'[a] = "none"
    <3>1. a[1] \in Nat
      BY ConstantFacts
    <3>2. a[1] > planned /\ a[1] # planned + 1
      BY <1>0, <2>2, <3>1
    <3> QED
      BY <1>0, <1>1, <3>2, PlanMoves DEF NoneYet
  <2> QED
    BY <2>1, <2>2 DEF NoneYet
<1>2. CASE Later
  <2>1. planned' = planned
    BY <1>2, LaterKeepsPlan DEF plan
  <2>2. \A a \in Attempts : status[a] = "none" => status'[a] = "none"
    BY <1>2, LaterMoves DEF Moved
  <2> QED
    BY <1>0, <2>1, <2>2 DEF NoneYet
<1> QED
  BY <1>1, <1>2 DEF Next, Later

-----------------------------------------------------------------------------
(* What was asked, and what starved.                                       *)

Open == {"reserved", "in_flight", "unknown", "succeeded", "degraded", "failed"}
Tried == Open \cup {"transient", "skipped"}

\* The plans that made an attempt, in one of the states, for an input of g.
Asked(st, snap, n, g, v, set) ==
    {p \in 1..n : snap[p]["terminology"] = v /\ st[<<p, g>>] \in set}

NeverTwice(st, snap, n) ==
    \A g \in Groups, v \in 0..1 :
        /\ Cardinality(Asked(st, snap, n, g, v, Open)) <= 1
        /\ Cardinality(Asked(st, snap, n, g, v, Tried)) <= 2

LEMMA AskedOnceIs ==
    /\ AskedOnce <=> NeverTwice(status, snapshot, planned)
    /\ AskedOnce' <=> NeverTwice(status', snapshot', planned')
  BY DEF AskedOnce, NeverTwice, Asked, Open, Tried

LEMMA AskedFinite ==
    ASSUME NEW st, NEW snap, NEW n \in Nat, NEW g, NEW v, NEW set
    PROVE  /\ IsFiniteSet(Asked(st, snap, n, g, v, set))
           /\ Cardinality(Asked(st, snap, n, g, v, set)) \in Nat
<1>1. 1 \in Int /\ n \in Int
  OBVIOUS
<1>2. IsFiniteSet(1..n) /\ Asked(st, snap, n, g, v, set) \in SUBSET (1..n)
  BY <1>1, FS_Interval DEF Asked
<1> QED
  BY <1>2, FS_Subset, FS_CardinalityType

LEMMA AskedOnceLater ==
    ASSUME AssistAssumption, AssistInv, Later
    PROVE  AskedOnce'
<1>0. /\ snapshot' = snapshot /\ planned' = planned
      /\ planned \in Nat /\ planned <= MaxCalls
      /\ NeverTwice(status, snapshot, planned)
  BY LaterKeepsPlan, AskedOnceIs, ConstantFacts DEF plan, AssistInv, PlanTypes
<1>1. ASSUME NEW g \in Groups, NEW v \in 0..1
      PROVE  /\ Cardinality(Asked(status', snapshot, planned, g, v, Open)) <= 1
             /\ Cardinality(Asked(status', snapshot, planned, g, v, Tried)) <= 2
  <2>1. ASSUME NEW p \in 1..planned
        PROVE  Moved(status[<<p, g>>], status'[<<p, g>>])
    <3>1. <<p, g>> \in Attempts
      BY <1>0, ConstantFacts DEF Attempts, Plans, Subjects
    <3> QED
      BY <3>1, LaterMoves
  <2>2. /\ Asked(status', snapshot, planned, g, v, Open)
             \in SUBSET Asked(status, snapshot, planned, g, v, Open)
        /\ Asked(status', snapshot, planned, g, v, Tried)
             \in SUBSET Asked(status, snapshot, planned, g, v, Tried)
    BY <2>1 DEF Asked, Moved, Open, Tried
  <2>3. /\ Cardinality(Asked(status', snapshot, planned, g, v, Open))
             <= Cardinality(Asked(status, snapshot, planned, g, v, Open))
        /\ Cardinality(Asked(status', snapshot, planned, g, v, Tried))
             <= Cardinality(Asked(status, snapshot, planned, g, v, Tried))
    BY <1>0, <2>2, AskedFinite, FS_Subset
  <2>4. /\ Cardinality(Asked(status, snapshot, planned, g, v, Open)) <= 1
        /\ Cardinality(Asked(status, snapshot, planned, g, v, Tried)) <= 2
    BY <1>0 DEF NeverTwice
  <2>5. /\ Cardinality(Asked(status, snapshot, planned, g, v, Open)) \in Nat
        /\ Cardinality(Asked(status, snapshot, planned, g, v, Tried)) \in Nat
        /\ Cardinality(Asked(status', snapshot, planned, g, v, Open)) \in Nat
        /\ Cardinality(Asked(status', snapshot, planned, g, v, Tried)) \in Nat
    BY <1>0, AskedFinite
  <2> QED
    BY <2>3, <2>4, <2>5
<1>2. NeverTwice(status', snapshot', planned')
  BY <1>0, <1>1 DEF NeverTwice
<1> QED
  BY <1>2, AskedOnceIs

LEMMA AskedOncePlan ==
    ASSUME AssistAssumption, AssistInv, PlanForJob
    PROVE  AskedOnce'
<1> DEFINE n == planned + 1
<1>0. /\ planned \in Nat /\ n \in Plans /\ planned' = n
      /\ NeverTwice(status, snapshot, planned)
      /\ snapshot \in [Plans -> [Kinds -> 0..1]]
      /\ "terminology" \in Kinds
  BY PlanForJobPlanTypes, AskedOnceIs, ConstantFacts
  DEF AssistInv, PlanTypes, Kinds
<1>1. snapshot' = [snapshot EXCEPT ![n] = input]
  BY DEF PlanForJob
<1>2. PICK work \in Works, R \in SUBSET Subjects :
        /\ R \subseteq Eligible(work)
        /\ status' = [a \in Attempts |->
                        IF a[1] # n \/ a[2] \notin Eligible(work) THEN status[a]
                        ELSE IF a[2] \in R THEN "reserved" ELSE "exhausted"]
  BY PlanIs
<1>3. \A p \in 1..n : p \in Plans /\ (p = n \/ p \in 1..planned)
  BY <1>0, ConstantFacts DEF Plans
<1>4. \A p \in 1..planned : p \in 1..n /\ p # n
  BY <1>0
<1>5. ASSUME NEW g \in Groups, NEW p \in 1..planned
      PROVE  status'[<<p, g>>] = status[<<p, g>>] /\ snapshot'[p] = snapshot[p]
  <2>1. <<p, g>> \in Attempts /\ p # n /\ p \in Plans
    BY <1>3, <1>4 DEF Attempts, Subjects
  <2> QED
    BY <1>0, <1>1, <1>2, <2>1
<1>6. \A g \in Groups : <<n, g>> \in Attempts
  BY <1>0 DEF Attempts, Subjects
<1>7. snapshot'[n] = input
  BY <1>0, <1>1
<1> HIDE DEF n
<1>8. ASSUME NEW g \in Groups, NEW v \in 0..1
      PROVE  /\ Cardinality(Asked(status', snapshot', n, g, v, Open)) <= 1
             /\ Cardinality(Asked(status', snapshot', n, g, v, Tried)) <= 2
  <2>1. /\ Cardinality(Asked(status, snapshot, planned, g, v, Open)) <= 1
        /\ Cardinality(Asked(status, snapshot, planned, g, v, Tried)) <= 2
    BY <1>0 DEF NeverTwice
  <2>2. status'[<<n, g>>] \in {"none", "exhausted", "reserved"}
    BY <1>6, PlanMoves DEF n
  <2>3. CASE input["terminology"] # v \/ status'[<<n, g>>] # "reserved"
    <3>1. /\ Asked(status', snapshot', n, g, v, Open)
               = Asked(status, snapshot, planned, g, v, Open)
          /\ Asked(status', snapshot', n, g, v, Tried)
               = Asked(status, snapshot, planned, g, v, Tried)
      BY <1>3, <1>4, <1>5, <1>7, <2>2, <2>3 DEF Asked, Open, Tried
    <3> QED
      BY <2>1, <3>1
  <2>4. CASE input["terminology"] = v /\ status'[<<n, g>>] = "reserved"
    <3> DEFINE again == Asked(status, snapshot, planned, g, v,
                              {"transient", "skipped"})
    <3>1. Retryable(g)
      <4>1. g \in R
        <5>1. status[<<n, g>>] # "reserved"
          BY <1>6, PlanMoves DEF n
        <5> QED
          BY <1>2, <1>6, <2>4, <5>1
      <4>2. g \notin Cards
        BY DEF AssistAssumption
      <4> QED
        BY <1>2, <4>1, <4>2 DEF Eligible
    <3>2. /\ EarlierWith(g, {"transient", "skipped"}) = again
          /\ EarlierWith(g, Open) = Asked(status, snapshot, planned, g, v, Open)
      BY <2>4 DEF EarlierWith, Earlier, Asked
    <3>3. Asked(status, snapshot, planned, g, v, Open) = {} /\ Cardinality(again) < 2
      BY <3>1, <3>2 DEF Retryable, Open
    <3>4. /\ Asked(status', snapshot', n, g, v, Open) = {n}
          /\ Asked(status', snapshot', n, g, v, Tried) = again \cup {n}
          /\ n \notin again
      <4>1. \A p \in 1..planned : snapshot[p]["terminology"] = v
                                    => status[<<p, g>>] \notin Open
        BY <3>3 DEF Asked
      <4>2. n \in 1..n
        BY <1>0 DEF n
      <4> QED
        BY <1>3, <1>4, <1>5, <1>7, <2>4, <4>1, <4>2 DEF Asked, Open, Tried
    <3>5. IsFiniteSet(again) /\ Cardinality(again) \in Nat
      BY <1>0, AskedFinite
    <3> HIDE DEF again
    <3>6. Cardinality({n}) = 1 /\ Cardinality(again \cup {n}) = Cardinality(again) + 1
      BY <3>4, <3>5, FS_Singleton, FS_AddElement
    <3> QED
      BY <3>3, <3>4, <3>5, <3>6
  <2> QED
    BY <2>2, <2>3, <2>4
<1>9. NeverTwice(status', snapshot', planned')
  BY <1>0, <1>8 DEF NeverTwice
<1> QED
  BY <1>9, AskedOnceIs

\* Once its plan is made, a kind that starved stays so, and no other joins it.
LEMMA StarvedStays ==
    ASSUME AssistAssumption, AssistInv, Next, NEW p \in Plans, p <= planned,
           NEW k \in Kinds
    PROVE  Starved(status', p, k) <=> Starved(status, p, k)
<1>1. \A s \in Of(k) : <<p, s>> \in Attempts
  BY DEF Of, Attempts, Subjects
<1>2. \A s \in Of(k) : Moved(status[<<p, s>>], status'[<<p, s>>])
  <2>1. CASE PlanForJob
    <3>1. p # planned + 1
      BY ConstantFacts DEF AssistInv, PlanTypes
    <3> QED
      BY <1>1, <2>1, <3>1, PlanMoves DEF Moved
  <2>2. CASE Later
    BY <1>1, <2>2, LaterMoves
  <2> QED
    BY <2>1, <2>2 DEF Next, Later
<1> QED
  BY <1>2 DEF Starved, Moved

LEMMA TwoKinds ==
    /\ Kinds = {"explanation", "terminology"}
    /\ Cardinality(Kinds) = 2
    /\ Of("explanation") = Cards /\ Of("terminology") = Groups
<1>1. /\ IsFiniteSet({"explanation"}) /\ Cardinality({"explanation"}) = 1
  BY FS_Singleton
<1>2. Kinds = {"explanation"} \cup {"terminology"}
      /\ "terminology" \notin {"explanation"}
  BY DEF Kinds
<1>3. Cardinality(Kinds) = Cardinality({"explanation"}) + 1
  BY <1>1, <1>2, FS_AddElement
<1> QED
  BY <1>1, <1>3 DEF Kinds, Of

\* A plan that leaves a kind out had too small a quota, did not have that kind
\* first, and has it first in the next.
LEMMA StarvedByPlan ==
    ASSUME AssistAssumption, AssistInv, PlanForJob, NEW k \in Kinds,
           Starved(status', planned + 1, k)
    PROVE  quota < Cardinality(Kinds) /\ first # k /\ first' = k
<1> DEFINE n == planned + 1
<1>0. /\ planned \in Nat /\ n \in Plans /\ quota \in Nat /\ quota > 0
      /\ first \in Kinds
  BY PlanForJobPlanTypes, ConstantFacts DEF AssistInv, PlanTypes
<1>1. PICK work \in Works, R \in SUBSET Subjects :
        /\ R \subseteq Eligible(work) /\ Eligible(work) # {}
        /\ Cardinality(R) = Min({Cardinality(Eligible(work)), quota})
        /\ Shares(R, Eligible(work))
        /\ Rotate(R)
        /\ status' = [a \in Attempts |->
                        IF a[1] # n \/ a[2] \notin Eligible(work) THEN status[a]
                        ELSE IF a[2] \in R THEN "reserved" ELSE "exhausted"]
  BY PlanIs
<1> DEFINE wanted == Eligible(work)
<1>2. /\ wanted \in SUBSET Subjects /\ IsFiniteSet(wanted) /\ IsFiniteSet(R)
      /\ Cardinality(wanted) \in Nat /\ Cardinality(R) \in Nat
  <2>1. wanted \in SUBSET Subjects
    BY DEF Eligible, Subjects
  <2> HIDE DEF wanted
  <2> QED
    BY <2>1, ConstantFacts, FS_Subset, FS_CardinalityType
<1>3. Cardinality(wanted) # 0
  BY <1>1, <1>2, FS_EmptySet
<1>4. /\ Cardinality(R) \in {Cardinality(wanted), quota}
  <2> DEFINE both == {Cardinality(wanted), quota}
  <2>1. both \subseteq Nat /\ both # {}
    BY <1>0, <1>2
  <2>2. Min(both) \in both
    BY <2>1, MinOfNumbers
  <2> QED
    BY <1>1, <2>2
<1>5. R # {}
  <2>1. Cardinality(R) # 0
    BY <1>0, <1>3, <1>4
  <2> QED
    BY <2>1, FS_EmptySet
\* The kind is wanted and has nothing.
<1>6. R \cap Of(k) = {} /\ wanted \cap Of(k) # {}
  <2>1. \A s \in Of(k) : <<n, s>> \in Attempts /\ status[<<n, s>>] = "none"
    <3>1. \A s \in Of(k) : <<n, s>> \in Attempts
      BY <1>0 DEF Of, Attempts, Subjects
    <3> QED
      BY <3>1, PlanMoves DEF n
  <2>2. \A s \in Of(k) :
          status'[<<n, s>>] = IF s \notin wanted THEN "none"
                              ELSE IF s \in R THEN "reserved" ELSE "exhausted"
    BY <1>1, <2>1
  <2>3. /\ \E s \in Of(k) : status'[<<n, s>>] = "exhausted"
        /\ \A s \in Of(k) : status'[<<n, s>>] \in {"none", "exhausted"}
    BY DEF Starved, n
  <2> HIDE DEF wanted
  <2>4. R \subseteq wanted
    BY <1>1 DEF wanted
  <2> QED
    BY <2>2, <2>3, <2>4
\* The other kind has all there is.
<1>7. PICK j \in Kinds : j # k
  BY TwoKinds
<1>8. Kinds = {k, j} /\ Subjects = Of(k) \cup Of(j) /\ Of(k) \cap Of(j) = {}
  BY <1>7, TwoKinds DEF Subjects, AssistAssumption
<1>9. R \subseteq Of(j) /\ R \cap Of(j) = R
  BY <1>6, <1>8
<1>10. /\ \A i \in Before(j) : R \cap Of(i) # {} \/ wanted \cap Of(i) \subseteq R
       /\ Cardinality(R \cap Of(j)) > 1
            => \A i \in Kinds : R \cap Of(i) # {} \/ wanted \cap Of(i) \subseteq R
  BY <1>1, <1>5, <1>9 DEF Shares
<1> HIDE DEF wanted
<1>11. ~(R \cap Of(k) # {} \/ wanted \cap Of(k) \subseteq R)
  BY <1>6
<1>12. first = j
  <2>1. k \notin Before(j)
    BY <1>10, <1>11
  <2> QED
    BY <1>0, <1>7, <1>8, <2>1 DEF Before
<1>13. first' = k
  <2>1. first' = CHOOSE i \in Kinds : i # j
    BY <1>1, <1>5, <1>9, <1>12 DEF Rotate
  <2> QED
    BY <1>7, <1>8, <2>1
<1>14. quota < 2
  <2>1. ~(Cardinality(R) > 1)
    BY <1>9, <1>10, <1>11
  <2>2. CASE Cardinality(R) = quota
    BY <1>0, <2>1, <2>2
  <2>3. CASE Cardinality(R) = Cardinality(wanted)
    <3>1. R \in SUBSET wanted
      BY <1>1 DEF wanted
    <3>2. R = wanted
      BY <1>2, <2>3, <3>1, FS_Subset
    <3> QED
      BY <1>11, <3>2
  <2> QED
    BY <1>4, <2>2, <2>3
<1> QED
  BY <1>7, <1>12, <1>13, <1>14, TwoKinds

LEMMA NoKindStarvesIs ==
    /\ NoKindStarves <=>
         \A p \in 1..planned, k \in Kinds : Starved(status, p, k) =>
            /\ quota < Cardinality(Kinds)
            /\ p < planned => ~Starved(status, p + 1, k)
    /\ NoKindStarves' <=>
         \A p \in 1..planned', k \in Kinds : Starved(status', p, k) =>
            /\ quota' < Cardinality(Kinds)
            /\ p < planned' => ~Starved(status', p + 1, k)
  BY DEF NoKindStarves, Starved

LEMMA StarvesStep ==
    ASSUME AssistAssumption, AssistInv, Next
    PROVE  TurnOK' /\ NoKindStarves'
<1>0. /\ TurnOK /\ NoKindStarves /\ planned \in Nat /\ planned <= MaxCalls
      /\ 1..planned \subseteq Plans
  BY ConstantFacts DEF AssistInv, PlanTypes, Plans
<1>1. \A p \in 1..planned, k \in Kinds :
        Starved(status', p, k) <=> Starved(status, p, k)
  BY <1>0, StarvedStays
<1>2. \A p \in 1..planned, k \in Kinds : Starved(status, p, k) =>
        /\ quota < Cardinality(Kinds)
        /\ p < planned => ~Starved(status, p + 1, k)
  BY <1>0, NoKindStarvesIs
<1>3. CASE Later
  <2>1. planned' = planned /\ quota' = quota /\ first' = first
    BY <1>3, LaterKeepsPlan DEF plan, config
  <2>2. TurnOK'
    <3>1. planned > 0 => planned \in 1..planned
      BY <1>0
    <3> QED
      BY <1>0, <1>1, <2>1, <3>1 DEF TurnOK
  <2>3. \A p \in 1..planned : p < planned => p + 1 \in 1..planned
    BY <1>0
  <2> QED
    BY <1>1, <1>2, <2>1, <2>2, <2>3, NoKindStarvesIs
<1>4. CASE PlanForJob
  <2> DEFINE n == planned + 1
  <2>1. planned' = n /\ quota' = quota /\ n \in Nat /\ n # 0
    BY <1>0, <1>4 DEF PlanForJob, config
  <2>2. \A k \in Kinds : Starved(status', n, k) =>
          quota < Cardinality(Kinds) /\ first # k /\ first' = k
    BY <1>4, StarvedByPlan
  <2>3. TurnOK'
    BY <2>1, <2>2 DEF TurnOK
  <2>4. ASSUME NEW p \in 1..n, NEW k \in Kinds, Starved(status', p, k)
        PROVE  quota < Cardinality(Kinds) /\ (p < n => ~Starved(status', p + 1, k))
    <3>1. CASE p = n
      BY <2>2, <2>4, <3>1
    <3>2. CASE p # n
      <4>1. p \in 1..planned /\ p \in Nat
        BY <1>0, <3>2
      <4>2. Starved(status, p, k) /\ quota < Cardinality(Kinds)
        BY <1>1, <1>2, <2>4, <4>1
      <4>3. CASE p = planned
        <5>1. first = k
          BY <1>0, <4>1, <4>2, <4>3 DEF TurnOK
        <5> QED
          BY <2>2, <4>2, <4>3, <5>1
      <4>4. CASE p # planned
        <5>1. p < planned /\ p + 1 \in 1..planned
          BY <1>0, <4>1, <4>4
        <5> QED
          BY <1>1, <1>2, <4>1, <4>2, <5>1
      <4> QED
        BY <4>3, <4>4
    <3> QED
      BY <3>1, <3>2
  <2> HIDE DEF n
  <2>5. NoKindStarves'
    BY <2>1, <2>4, NoKindStarvesIs
  <2> QED
    BY <2>3, <2>5
<1> QED
  BY <1>3, <1>4 DEF Next, Later

-----------------------------------------------------------------------------
(* The results.                                                            *)

LEMMA AssistInit ==
    ASSUME AssistAssumption, Init
    PROVE  AssistInv
<1>1. PlanTypes
  BY ConstantFacts DEF Init, PlanTypes, Kinds
<1>2. RowTypes /\ ProductTypes
  BY ConstantFacts
  DEF Init, RowTypes, ProductTypes, Statuses, Runs, Gates, Workers
<1>3. NoneYet /\ GateOK
  BY DEF Init, NoneYet, GateOK
<1>4. CountOK
  <2>1. InStatus({"in_flight"}) = {} /\ Holders = {}
    BY DEF Init, InStatus, Holders
  <2>2. Cardinality({}) = 0
    BY FS_EmptySet
  <2>3. active = 0 /\ 0 \in 0..Limit /\ 0 <= Limit
    BY ConstantFacts DEF Init
  <2> QED
    BY <2>1, <2>2, <2>3 DEF CountOK, SlotsHonest
<1>5. AskedOnce
  <2>1. planned = 0 /\ 1..0 = {}
    BY DEF Init
  <2>2. \A g, v, set : Asked(status, snapshot, planned, g, v, set) = {}
    BY <2>1 DEF Asked
  <2>3. Cardinality({}) = 0 /\ 0 <= 1 /\ 0 <= 2
    BY FS_EmptySet
  <2>4. NeverTwice(status, snapshot, planned)
    BY <2>2, <2>3 DEF NeverTwice
  <2> QED
    BY <2>4, AskedOnceIs
<1>6. TurnOK /\ NoKindStarves
  <2>1. planned = 0 /\ 1..0 = {}
    BY DEF Init
  <2> QED
    BY <2>1, NoKindStarvesIs DEF TurnOK
<1> QED
  BY <1>1, <1>2, <1>3, <1>4, <1>5, <1>6 DEF AssistInv

LEMMA AssistStep ==
    ASSUME AssistAssumption, AssistInv, Next
    PROVE  AssistInv'
<1>1. PlanTypes'
  BY PlanForJobPlanTypes, LaterPlanTypes DEF Next, Later
<1>2. AskedOnce'
  BY AskedOncePlan, AskedOnceLater DEF Next, Later
<1> QED
  BY <1>1, <1>2, RowTypesStep, ProductStep, NoneYetStep, SlotStep, StarvesStep
  DEF AssistInv

LEMMA AssistStutter ==
    ASSUME AssistInv, UNCHANGED vars
    PROVE  AssistInv'
<1>1. /\ UNCHANGED <<quota, registered, planned, snapshot, first, gate, active,
                    applied, shown>>
      /\ UNCHANGED <<input, over, fresh, status, lease, run, worker, changes>>
  BY DEF vars, config, plan, slots, product
<1>2. PlanTypes' /\ RowTypes' /\ ProductTypes' /\ NoneYet'
  BY <1>1 DEF AssistInv, PlanTypes, RowTypes, ProductTypes, NoneYet
<1>3. GateOK' /\ CountOK'
  BY <1>1, SlotPartsAre DEF AssistInv
<1>4. AskedOnce'
  BY <1>1, AskedOnceIs DEF AssistInv
<1>5. TurnOK' /\ NoKindStarves'
  BY <1>1, NoKindStarvesIs DEF AssistInv, TurnOK
<1> QED
  BY <1>2, <1>3, <1>4, <1>5 DEF AssistInv

\* The invariant the others rest on: types, rows that match the slots of the
\* counter, what was asked, and whose turn it is.
THEOREM AssistInvariant == Spec => []AssistInv
<1>1. Init => AssistInv
  BY AssistInit, AssistAssumption
<1>2. AssistInv /\ [Next]_vars => AssistInv'
  BY AssistStep, AssistStutter, AssistAssumption
<1> QED
  BY <1>1, <1>2, PTL DEF Spec

\* Every variable keeps its type, for any bounds.  In particular the counter stays
\* within its limit and no outcome is written back twice.
THEOREM AssistTypeCorrect == Spec => []TypeOK
<1>1. AssistInv => TypeOK
  BY DEF AssistInv, PlanTypes, RowTypes, ProductTypes, CountOK, TypeOK,
         Statuses, Runs, Gates, Workers
<1> QED
  BY <1>1, AssistInvariant, PTL

\* Where the space has a counter it is the number of calls in flight, however a
\* call ended; and with or without one there are at most Limit live calls.
THEOREM AssistSlotsHonest == Spec => []SlotsHonest
<1>1. AssistInv => SlotsHonest
  BY DEF AssistInv, CountOK
<1> QED
  BY <1>1, AssistInvariant, PTL

\* For one input of a group at most one attempt is open or answered, and at most
\* two were ever made.
THEOREM AssistAsksOnce == Spec => []AskedOnce
<1>1. AssistInv => AskedOnce
  BY DEF AssistInv
<1> QED
  BY <1>1, AssistInvariant, PTL

\* No kind of call is left out of two plans in a row that had work for it, nor of
\* one whose quota reaches for every kind.
THEOREM AssistStarvesNone == Spec => []NoKindStarves
<1>1. AssistInv => NoKindStarves
  BY DEF AssistInv
<1> QED
  BY <1>1, AssistInvariant, PTL

\* An attempt that was given up keeps its outcome, and is never written back.
THEOREM AssistIgnoresLateAnswers == Spec => LateAnswersIgnored
<1>1. AssistInv /\ [Next]_vars
        => [\A a \in InStatus({"unknown", "skipped", "failed", "transient"}) :
              status'[a] = status[a] /\ applied'[a] = applied[a]]_vars
  <2>1. ASSUME AssistInv, Next,
               NEW a \in InStatus({"unknown", "skipped", "failed", "transient"})
        PROVE  status'[a] = status[a] /\ applied'[a] = applied[a]
    <3>1. /\ a \in Attempts
          /\ status[a] \in {"unknown", "skipped", "failed", "transient"}
      BY DEF InStatus
    <3>2. applied'[a] = applied[a]
      BY <2>1, <3>1, ProductStep, AssistAssumption DEF Unapplied
    <3>3. CASE PlanForJob
      <4>1. a[1] # planned + 1
        BY <2>1, <3>1, <3>3, PlanMoves, AssistAssumption
      <4> QED
        BY <2>1, <3>1, <3>2, <3>3, <4>1, PlanMoves, AssistAssumption
    <3>4. CASE Later
      <4>1. Moved(status[a], status'[a])
        BY <2>1, <3>1, <3>4, LaterMoves, AssistAssumption
      <4> QED
        BY <3>1, <3>2, <4>1 DEF Moved
    <3> QED
      BY <2>1, <3>2, <3>3, <3>4 DEF Next, Later
  <2> QED
    BY <2>1
<1> QED
  BY <1>1, AssistInvariant, PTL DEF Spec, LateAnswersIgnored
=============================================================================
