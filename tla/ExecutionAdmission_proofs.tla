---------------------- MODULE ExecutionAdmission_proofs ----------------------
(***************************************************************************)
(* What TLAPS proves about ExecutionAdmission, for any calls, tenants and  *)
(* capacities: the slots are accounted for, no waiter is left with an      *)
(* empty pool, and the reserve for waiting tenants is kept.                *)
(***************************************************************************)
EXTENDS ExecutionAdmission, FiniteNumbers, FiniteSetTheorems, TLAPS

-----------------------------------------------------------------------------
(* Queues.                                                                 *)

\* Removing an element leaves the sequence as it is, or drops one place of it.
LEMMA RemoveFirstIs ==
    ASSUME NEW S, NEW s \in Seq(S), NEW e
    PROVE  \/ RemoveFirst(s, e) = s /\ \A i \in 1..Len(s) : s[i] # e
           \/ \E k \in 1..Len(s) : s[k] = e /\ RemoveFirst(s, e) = RemoveAt(s, k)
<1>1. CASE \A i \in 1..Len(s) : s[i] # e
  BY <1>1 DEF RemoveFirst
<1>2. CASE \E i \in 1..Len(s) : s[i] = e
  <2> DEFINE I == {i \in 1..Len(s) : s[i] = e}
             k == Min(I)
  <2>1. SelectInSeq(s, LAMBDA v : v = e) = k
    BY <1>2 DEF SelectInSeq
  <2>2. k \in I
    <3>1. I \subseteq Nat /\ I # {}
      BY <1>2
    <3> HIDE DEF I
    <3> QED
      BY <3>1, MinOfNumbers
  <2> HIDE DEF k
  <2> QED
    BY <1>2, <2>1, <2>2 DEF RemoveFirst
<1> QED
  BY <1>1, <1>2

LEMMA Concatenation ==
    ASSUME NEW S, NEW a \in Seq(S), NEW b \in Seq(S)
    PROVE  a \o b \in Seq(S) /\ Len(a \o b) = Len(a) + Len(b)
  OBVIOUS

LEMMA RemoveAtIs ==
    ASSUME NEW S, NEW s \in Seq(S), NEW k \in 1..Len(s)
    PROVE  /\ RemoveAt(s, k) \in Seq(S)
           /\ Len(RemoveAt(s, k)) = Len(s) - 1
           /\ \A i \in 1..Len(s) - 1 :
                RemoveAt(s, k)[i] = IF i < k THEN s[i] ELSE s[i + 1]
<1> DEFINE a == SubSeq(s, 1, k - 1)
           b == SubSeq(s, k + 1, Len(s))
<1>0. Len(s) \in Nat /\ k \in Nat /\ 1 <= k /\ k <= Len(s)
  OBVIOUS
<1>1. /\ a \in Seq(S) /\ Len(a) = k - 1
      /\ \A i \in 1..k - 1 : a[i] = s[i]
  BY <1>0
<1>2. /\ b \in Seq(S) /\ Len(b) = Len(s) - k
      /\ \A i \in 1..Len(s) - k : b[i] = s[k + i]
  BY <1>0
<1>3. RemoveAt(s, k) = a \o b
  BY DEF RemoveAt
<1> HIDE DEF a, b
<1>4. a \o b \in Seq(S) /\ Len(a \o b) = Len(s) - 1
  <2>1. a \o b \in Seq(S) /\ Len(a \o b) = Len(a) + Len(b)
    BY <1>1, <1>2, Concatenation
  <2> QED
    BY <1>0, <1>1, <1>2, <2>1
<1>5. \A i \in 1..Len(s) - 1 : (a \o b)[i] = IF i < k THEN s[i] ELSE s[i + 1]
  BY <1>0, <1>1, <1>2
<1> QED
  BY <1>3, <1>4, <1>5

Distinct(s) == \A i, j \in 1..Len(s) : s[i] = s[j] => i = j

\* What is left of a queue without repetitions after a call left it.
LEMMA LeftQueue ==
    ASSUME NEW S, NEW s \in Seq(S), NEW e
    PROVE  LET rest == RemoveFirst(s, e) IN
           /\ rest \in Seq(S)
           /\ Distinct(s) =>
                /\ Distinct(rest)
                /\ \A i \in 1..Len(rest) :
                     rest[i] # e /\ \E j \in 1..Len(s) : rest[i] = s[j]
<1> DEFINE rest == RemoveFirst(s, e)
<1>1. CASE rest = s /\ \A i \in 1..Len(s) : s[i] # e
  BY <1>1
<1>2. ASSUME NEW k \in 1..Len(s), s[k] = e, rest = RemoveAt(s, k)
      PROVE  /\ rest \in Seq(S)
             /\ Distinct(s) =>
                  /\ Distinct(rest)
                  /\ \A i \in 1..Len(rest) :
                       rest[i] # e /\ \E j \in 1..Len(s) : rest[i] = s[j]
  <2>1. /\ rest \in Seq(S) /\ Len(rest) = Len(s) - 1
        /\ \A i \in 1..Len(s) - 1 : rest[i] = IF i < k THEN s[i] ELSE s[i + 1]
    BY <1>2, RemoveAtIs
  <2> HIDE DEF rest
  <2>2. Len(s) \in Nat
    OBVIOUS
  <2>3. ASSUME NEW i \in 1..Len(rest)
        PROVE  \E j \in 1..Len(s) : /\ rest[i] = s[j] /\ j # k
                                    /\ j = IF i < k THEN i ELSE i + 1
    BY <2>1, <2>2
  <2>4. ASSUME Distinct(s), NEW i \in 1..Len(rest), NEW j \in 1..Len(rest),
               rest[i] = rest[j]
        PROVE  i = j
    <3>1. PICK m \in 1..Len(s) : rest[i] = s[m] /\ m = IF i < k THEN i ELSE i + 1
      BY <2>3
    <3>2. PICK n \in 1..Len(s) : rest[j] = s[n] /\ n = IF j < k THEN j ELSE j + 1
      BY <2>3
    <3>3. m = n
      BY <2>4, <3>1, <3>2 DEF Distinct
    <3>4. i \in Int /\ j \in Int /\ k \in Int
      BY <2>1
    <3> QED
      BY <3>1, <3>2, <3>3, <3>4
  <2>5. ASSUME Distinct(s), NEW i \in 1..Len(rest)
        PROVE  rest[i] # e /\ \E j \in 1..Len(s) : rest[i] = s[j]
    BY <1>2, <2>3, <2>5 DEF Distinct
  <2> QED
    BY <2>1, <2>4, <2>5 DEF Distinct
<1> QED
  BY <1>1, <1>2, RemoveFirstIs

-----------------------------------------------------------------------------
(* Counting calls and slots.                                               *)

\* The calls of X whose phase, in ph, is one of S.
N(ph, X, S) == Cardinality({c \in X : ph[c] \in S})
CallsOf(t) == {c \in Calls : TenantOf[c] = t}

\* Only the phase of c may differ.
Moves(ph, after, c) == \A d \in Calls : d # c => after[d] = ph[d]

\* A count changes by the one call whose phase changes.
LEMMA CountMoves ==
    ASSUME AdmissionAssumption, NEW ph, NEW after,
           NEW X \in SUBSET Calls, NEW S, NEW c \in Calls, Moves(ph, after, c)
    PROVE  /\ N(ph, X, S) \in Nat /\ N(after, X, S) \in Nat
           /\ c \notin X => N(after, X, S) = N(ph, X, S)
           /\ (after[c] \in S <=> ph[c] \in S) => N(after, X, S) = N(ph, X, S)
           /\ c \in X /\ ph[c] \notin S /\ after[c] \in S
                => N(after, X, S) = N(ph, X, S) + 1
           /\ c \in X /\ ph[c] \in S /\ after[c] \notin S
                => N(ph, X, S) = N(after, X, S) + 1
<1> DEFINE A == {d \in X : ph[d] \in S}
           B == {d \in X : after[d] \in S}
<1>1. IsFiniteSet(A) /\ IsFiniteSet(B)
  <2>1. IsFiniteSet(Calls) /\ A \in SUBSET Calls /\ B \in SUBSET Calls
    BY DEF AdmissionAssumption
  <2> QED
    BY <2>1, FS_Subset
<1>2. Cardinality(A) \in Nat /\ Cardinality(B) \in Nat
  BY <1>1, FS_CardinalityType
<1>3. \A d \in Calls : d # c => after[d] = ph[d]
  BY DEF Moves
<1>4. CASE c \notin X \/ (after[c] \in S <=> ph[c] \in S)
  <2>1. A = B
    BY <1>3, <1>4
  <2> QED
    BY <1>2, <1>4, <2>1 DEF N
<1>5. CASE c \in X /\ ph[c] \notin S /\ after[c] \in S
  <2>1. B = A \cup {c} /\ c \notin A
    BY <1>3, <1>5
  <2> HIDE DEF A, B
  <2>2. Cardinality(B) = Cardinality(A) + 1
    BY <1>1, <2>1, FS_AddElement
  <2> QED
    BY <1>2, <1>5, <2>2 DEF N, A, B
<1>6. CASE c \in X /\ ph[c] \in S /\ after[c] \notin S
  <2>1. B = A \ {c} /\ c \in A
    BY <1>3, <1>6
  <2> HIDE DEF A, B
  <2>2. Cardinality(B) = Cardinality(A) - 1
    BY <1>1, <2>1, FS_RemoveElement
  <2>3. Cardinality(A) = Cardinality(B) + 1
    BY <1>2, <2>2
  <2> QED
    BY <1>2, <1>6, <2>3 DEF N, A, B
<1> QED
  BY <1>4, <1>5, <1>6

\* The same for all calls, and for those of each tenant.
LEMMA CountsMove ==
    ASSUME AdmissionAssumption, NEW ph, NEW after, NEW S,
           NEW c \in Calls, Moves(ph, after, c)
    PROVE  /\ N(ph, Calls, S) \in Nat /\ N(after, Calls, S) \in Nat
           /\ (after[c] \in S <=> ph[c] \in S) =>
                /\ N(after, Calls, S) = N(ph, Calls, S)
                /\ \A t : N(after, CallsOf(t), S) = N(ph, CallsOf(t), S)
           /\ ph[c] \notin S /\ after[c] \in S => N(after, Calls, S) = N(ph, Calls, S) + 1
           /\ ph[c] \in S /\ after[c] \notin S => N(ph, Calls, S) = N(after, Calls, S) + 1
           /\ \A t :
                /\ N(ph, CallsOf(t), S) \in Nat /\ N(after, CallsOf(t), S) \in Nat
                /\ t # TenantOf[c] =>
                     N(after, CallsOf(t), S) = N(ph, CallsOf(t), S)
                /\ t = TenantOf[c] /\ ph[c] \notin S /\ after[c] \in S =>
                     N(after, CallsOf(t), S) = N(ph, CallsOf(t), S) + 1
                /\ t = TenantOf[c] /\ ph[c] \in S /\ after[c] \notin S =>
                     N(ph, CallsOf(t), S) = N(after, CallsOf(t), S) + 1
<1>1. Calls \in SUBSET Calls
  OBVIOUS
<1>2. ASSUME NEW t
      PROVE  CallsOf(t) \in SUBSET Calls /\ (c \in CallsOf(t) <=> t = TenantOf[c])
  BY DEF CallsOf
<1>3. /\ N(ph, Calls, S) \in Nat /\ N(after, Calls, S) \in Nat
      /\ (after[c] \in S <=> ph[c] \in S) => N(after, Calls, S) = N(ph, Calls, S)
      /\ ph[c] \notin S /\ after[c] \in S => N(after, Calls, S) = N(ph, Calls, S) + 1
      /\ ph[c] \in S /\ after[c] \notin S => N(ph, Calls, S) = N(after, Calls, S) + 1
  BY <1>1, CountMoves
<1>4. ASSUME NEW t
      PROVE  /\ N(ph, CallsOf(t), S) \in Nat /\ N(after, CallsOf(t), S) \in Nat
             /\ t # TenantOf[c] \/ (after[c] \in S <=> ph[c] \in S) =>
                  N(after, CallsOf(t), S) = N(ph, CallsOf(t), S)
             /\ t = TenantOf[c] /\ ph[c] \notin S /\ after[c] \in S =>
                  N(after, CallsOf(t), S) = N(ph, CallsOf(t), S) + 1
             /\ t = TenantOf[c] /\ ph[c] \in S /\ after[c] \notin S =>
                  N(ph, CallsOf(t), S) = N(after, CallsOf(t), S) + 1
  BY <1>2, CountMoves
<1> QED
  BY <1>3, <1>4

\* A count that is not zero has a call.
LEMMA CountPositive ==
    ASSUME AdmissionAssumption, NEW ph, NEW X \in SUBSET Calls, NEW S
    PROVE  /\ N(ph, X, S) \in Nat
           /\ N(ph, X, S) # 0 <=> \E c \in X : ph[c] \in S
<1> DEFINE A == {d \in X : ph[d] \in S}
<1>1. IsFiniteSet(A)
  BY FS_Subset DEF AdmissionAssumption
<1>2. Cardinality(A) \in Nat /\ (Cardinality(A) = 0 <=> A = {})
  <2> HIDE DEF A
  <2> QED
    BY <1>1, FS_CardinalityType, FS_EmptySet
<1> QED
  BY <1>2 DEF N

SlotCounts == [Tenants -> 0..Global]

LEMMA UpTo ==
    ASSUME NEW n \in Nat
    PROVE  IsFiniteSet(1..n) /\ Cardinality(1..n) = n
<1>1. 1 \in Int /\ n \in Int
  OBVIOUS
<1>2. /\ IsFiniteSet(1..n)
      /\ Cardinality(1..n) = IF 1 > n THEN 0 ELSE n - 1 + 1
  BY <1>1, FS_Interval
<1> QED
  BY <1>2

\* The slots of all tenants are a finite set, and a tenant's are among them.
LEMMA TotalBounds ==
    ASSUME AdmissionAssumption, NEW act \in SlotCounts
    PROVE  /\ IsFiniteSet(SlotsOf(act)) /\ Total(act) \in Nat
           /\ \A t \in Tenants : act[t] <= Total(act)
<1>0. Global \in Nat
  BY DEF AdmissionAssumption
<1>1. IsFiniteSet(SlotsOf(act))
  <2>1. IsFiniteSet(Tenants \X (1..Global))
    BY <1>0, UpTo, FS_Product DEF AdmissionAssumption
  <2> QED
    BY <2>1, FS_Subset DEF SlotsOf
<1>2. ASSUME NEW t \in Tenants
      PROVE  act[t] <= Total(act)
  <2>1. act[t] \in Nat /\ act[t] <= Global
    BY <1>0 DEF SlotCounts
  <2> DEFINE own == {t} \X (1..act[t])
  <2>2. IsFiniteSet({t}) /\ Cardinality({t}) = 1
    BY FS_Singleton
  <2>3. IsFiniteSet(1..act[t]) /\ Cardinality(1..act[t]) = act[t]
    BY <2>1, UpTo
  <2>4. Cardinality(own) = act[t]
    <3>1. Cardinality(own) = Cardinality({t}) * Cardinality(1..act[t])
      BY <2>2, <2>3, FS_Product
    <3> HIDE DEF own
    <3> QED
      BY <2>1, <2>2, <2>3, <3>1
  <2>5. own \subseteq SlotsOf(act)
    BY <1>0, <2>1 DEF SlotsOf
  <2> HIDE DEF own
  <2> QED
    BY <1>1, <2>4, <2>5, FS_Subset DEF Total
<1> QED
  BY <1>1, <1>2, FS_CardinalityType DEF Total

\* One more slot of one tenant is one more of all.
LEMMA TotalUp ==
    ASSUME AdmissionAssumption, NEW act \in SlotCounts, NEW t \in Tenants,
           act[t] < Global
    PROVE  LET more == [act EXCEPT ![t] = act[t] + 1] IN
           more \in SlotCounts /\ Total(more) = Total(act) + 1
<1> DEFINE more == [act EXCEPT ![t] = act[t] + 1]
           slot == <<t, act[t] + 1>>
<1>0. Global \in Nat /\ act[t] \in 0..Global
  BY DEF AdmissionAssumption, SlotCounts
<1>1. act[t] + 1 \in 0..Global
  BY <1>0
<1>2. more \in SlotCounts
  BY <1>1 DEF SlotCounts
<1>3. SlotsOf(more) = SlotsOf(act) \cup {slot}
  <2>1. ASSUME NEW s \in Tenants, NEW i \in 1..Global
        PROVE  i <= more[s] <=> i <= act[s] \/ <<s, i>> = slot
    <3>1. CASE s = t
      <4>1. more[s] = act[t] + 1
        BY <3>1 DEF SlotCounts
      <4> QED
        BY <1>0, <3>1, <4>1
    <3>2. CASE s # t
      BY <3>2 DEF SlotCounts
    <3> QED
      BY <3>1, <3>2
  <2>2. slot \in Tenants \X (1..Global)
    BY <1>0
  <2> HIDE DEF more, slot
  <2> QED
    BY <2>1, <2>2 DEF SlotsOf
<1>4. slot \notin SlotsOf(act)
  BY <1>0 DEF SlotsOf
<1> HIDE DEF more, slot
<1>5. Total(more) = Total(act) + 1
  BY <1>3, <1>4, TotalBounds, FS_AddElement DEF Total
<1> QED
  BY <1>2, <1>5 DEF more

\* A slot given back: one less of all, if the tenant had any.
LEMMA TotalDown ==
    ASSUME AdmissionAssumption, NEW act \in SlotCounts, NEW t \in Tenants
    PROVE  /\ Less(act, t) \in SlotCounts
           /\ \A s \in Tenants :
                Less(act, t)[s] = IF s = t /\ act[s] > 0 THEN act[s] - 1 ELSE act[s]
           /\ act[t] > 0 => Total(act) = Total(Less(act, t)) + 1
<1> DEFINE less == Less(act, t)
<1>0. Global \in Nat /\ \A s \in Tenants : act[s] \in 0..Global
  BY DEF AdmissionAssumption, SlotCounts
<1>1. less = [act EXCEPT ![t] = IF act[t] = 0 THEN 0 ELSE act[t] - 1]
  BY DEF Less
<1>2. (IF act[t] = 0 THEN 0 ELSE act[t] - 1) \in 0..Global
  BY <1>0
<1>3. less \in SlotCounts
  BY <1>1, <1>2 DEF SlotCounts
<1>4. /\ less[t] = IF act[t] = 0 THEN 0 ELSE act[t] - 1
      /\ \A s \in Tenants \ {t} : less[s] = act[s]
  BY <1>1 DEF SlotCounts
<1> HIDE DEF less
<1>5. \A s \in Tenants :
        less[s] = IF s = t /\ act[s] > 0 THEN act[s] - 1 ELSE act[s]
  BY <1>0, <1>4
<1>6. ASSUME act[t] > 0
      PROVE  Total(act) = Total(less) + 1
  <2>1. less[t] < Global /\ less[t] + 1 = act[t]
    BY <1>0, <1>4, <1>6
  <2>2. [less EXCEPT ![t] = less[t] + 1] = act
    BY <1>3, <1>4, <2>1 DEF SlotCounts
  <2> QED
    BY <1>3, <2>1, <2>2, TotalUp
<1> QED
  BY <1>3, <1>5, <1>6 DEF less

-----------------------------------------------------------------------------
(* The inductive invariant.                                                *)

\* The limiter's counts, for given phases, slots and lost slots.  The total of
\* the tenants' slots is what the fast path and the hand-over compare with the
\* capacity; it bounds each tenant's count and the number of holders.
Fits(ph, act, lo) ==
    /\ ph \in [Calls -> Phases]
    /\ act \in SlotCounts
    /\ lo \in [Tenants -> Nat]
    /\ \A t \in Tenants : act[t] = lo[t] + N(ph, CallsOf(t), HoldsSlot)
    /\ N(ph, Calls, HoldsSlot) <= Total(act)
    /\ Total(act) <= Global

\* The cluster counter, for given phases, returns under way and lost slots.
ClusterFits(ph, cl, ret, lc) ==
    /\ cl \in [ClusterDims -> 0..ClusterCapacity]
    /\ ret \in Nat /\ lc \in Nat
    /\ \A d \in ClusterDims : cl[d] = lc + ret + N(ph, Calls, HoldsCluster)

\* The tool semaphore: each waiting call has one place in its queue.
ToolFits(ph, q) ==
    /\ q \in Seq(Calls)
    /\ \A i \in 1..Len(q) : ph[q[i]] = "toolwait"
    /\ Distinct(q)
    /\ N(ph, Calls, Working) <= ToolSlots

AdmissionInv ==
    /\ Fits(phase, active, lost.tenant)
    /\ ClusterFits(phase, cluster, returning, lost.cluster)
    /\ ToolFits(phase, toolQueue)
    /\ waiters \in Seq(Calls)
    /\ lost \in [tenant : [Tenants -> Nat], cluster : Nat]
    /\ NobodyWaitsOnAnEmptyPool

-----------------------------------------------------------------------------
(* Moves of the limiter.                                                   *)

LEMMA Grant ==
    ASSUME AdmissionAssumption, NEW ph, NEW act, NEW lo, Fits(ph, act, lo),
           NEW c \in Calls, ph[c] \notin HoldsSlot, NEW v \in HoldsSlot,
           Total(act) < Global
    PROVE  Fits([ph EXCEPT ![c] = v],
                [act EXCEPT ![TenantOf[c]] = act[TenantOf[c]] + 1], lo)
<1> DEFINE t == TenantOf[c]
           after == [ph EXCEPT ![c] = v]
           more == [act EXCEPT ![t] = act[t] + 1]
<1>1. t \in Tenants /\ Global \in Nat
  BY DEF AdmissionAssumption
<1>2. /\ ph \in [Calls -> Phases] /\ act \in SlotCounts /\ lo \in [Tenants -> Nat]
      /\ N(ph, Calls, HoldsSlot) <= Total(act)
      /\ \A s \in Tenants : act[s] = lo[s] + N(ph, CallsOf(s), HoldsSlot)
  BY DEF Fits
<1>3. after \in [Calls -> Phases] /\ after[c] = v
      /\ Moves(ph, after, c)
  BY <1>2 DEF HoldsSlot, Phases, Moves
<1> HIDE DEF after
<1>4. Total(act) \in Nat /\ act[t] <= Total(act) /\ act[t] \in Nat
  BY <1>1, <1>2, TotalBounds DEF SlotCounts
<1>5. more \in SlotCounts /\ Total(more) = Total(act) + 1
  <2>1. act[t] < Global
    BY <1>1, <1>4
  <2> QED
    BY <1>1, <1>2, <2>1, TotalUp
<1>6. N(after, Calls, HoldsSlot) = N(ph, Calls, HoldsSlot) + 1
      /\ N(ph, Calls, HoldsSlot) \in Nat
  BY <1>3, CountsMove
<1>7. ASSUME NEW s \in Tenants
      PROVE  more[s] = lo[s] + N(after, CallsOf(s), HoldsSlot)
  <2>2. /\ N(ph, CallsOf(s), HoldsSlot) \in Nat
        /\ s # t => N(after, CallsOf(s), HoldsSlot) = N(ph, CallsOf(s), HoldsSlot)
        /\ s = t => N(after, CallsOf(s), HoldsSlot)
                      = N(ph, CallsOf(s), HoldsSlot) + 1
    BY <1>3, CountsMove
  <2>3. more[s] = IF s = t THEN act[s] + 1 ELSE act[s]
    BY <1>2 DEF SlotCounts
  <2>4. lo[s] \in Nat /\ act[s] = lo[s] + N(ph, CallsOf(s), HoldsSlot)
    BY <1>2
  <2> HIDE DEF t, more
  <2> QED
    BY <2>2, <2>3, <2>4
<1> HIDE DEF t, more
<1>8. N(after, Calls, HoldsSlot) <= Total(more) /\ Total(more) <= Global
  BY <1>1, <1>2, <1>4, <1>5, <1>6
<1>9. Fits(after, more, lo)
  BY <1>2, <1>3, <1>5, <1>7, <1>8 DEF Fits
<1> QED
  BY <1>9 DEF after, more, t

LEMMA GiveBack ==
    ASSUME AdmissionAssumption, NEW ph, NEW act, NEW lo, Fits(ph, act, lo),
           NEW c \in Calls, ph[c] \in HoldsSlot,
           NEW v \in Phases, v \notin HoldsSlot
    PROVE  Fits([ph EXCEPT ![c] = v], Less(act, TenantOf[c]), lo)
<1> DEFINE t == TenantOf[c]
           after == [ph EXCEPT ![c] = v]
           fewer == Less(act, t)
<1>1. t \in Tenants /\ Global \in Nat
  BY DEF AdmissionAssumption
<1>2. /\ ph \in [Calls -> Phases] /\ act \in SlotCounts /\ lo \in [Tenants -> Nat]
      /\ N(ph, Calls, HoldsSlot) <= Total(act) /\ Total(act) <= Global
      /\ \A s \in Tenants : act[s] = lo[s] + N(ph, CallsOf(s), HoldsSlot)
  BY DEF Fits
<1>3. after \in [Calls -> Phases] /\ after[c] = v
      /\ Moves(ph, after, c)
  BY <1>2 DEF Moves
<1> HIDE DEF after
<1>4. \A s \in Tenants : act[s] \in Nat
  BY <1>1, <1>2 DEF SlotCounts
<1>5. \A s \in Tenants :
        /\ N(ph, CallsOf(s), HoldsSlot) \in Nat
        /\ N(after, CallsOf(s), HoldsSlot) \in Nat
        /\ s # t => N(after, CallsOf(s), HoldsSlot) = N(ph, CallsOf(s), HoldsSlot)
        /\ s = t => N(ph, CallsOf(s), HoldsSlot)
                      = N(after, CallsOf(s), HoldsSlot) + 1
  BY <1>3, CountsMove
<1>6. N(ph, Calls, HoldsSlot) = N(after, Calls, HoldsSlot) + 1
      /\ N(after, Calls, HoldsSlot) \in Nat
  BY <1>3, CountsMove
<1>7. act[t] > 0
  <2>1. /\ act[t] = lo[t] + N(ph, CallsOf(t), HoldsSlot) /\ lo[t] \in Nat
        /\ N(ph, CallsOf(t), HoldsSlot) = N(after, CallsOf(t), HoldsSlot) + 1
        /\ N(after, CallsOf(t), HoldsSlot) \in Nat
    BY <1>1, <1>2, <1>5
  <2> HIDE DEF t
  <2> QED
    BY <2>1
<1>8. /\ fewer \in SlotCounts /\ Total(act) = Total(fewer) + 1
      /\ \A s \in Tenants :
           fewer[s] = IF s = t /\ act[s] > 0 THEN act[s] - 1 ELSE act[s]
  BY <1>1, <1>2, <1>7, TotalDown
<1>9. Total(fewer) \in Nat /\ Total(act) \in Nat
  BY <1>2, <1>8, TotalBounds
<1> HIDE DEF fewer, t
<1>10. ASSUME NEW s \in Tenants
       PROVE  fewer[s] = lo[s] + N(after, CallsOf(s), HoldsSlot)
  <2>1. lo[s] \in Nat /\ act[s] = lo[s] + N(ph, CallsOf(s), HoldsSlot)
    BY <1>2
  <2>2. CASE s = t
    BY <1>5, <1>7, <1>8, <2>1, <2>2
  <2>3. CASE s # t
    BY <1>5, <1>8, <2>1, <2>3
  <2> QED
    BY <2>2, <2>3
<1>11. N(after, Calls, HoldsSlot) <= Total(fewer) /\ Total(fewer) <= Global
  BY <1>1, <1>2, <1>6, <1>8, <1>9
<1>12. Fits(after, fewer, lo)
  BY <1>2, <1>3, <1>8, <1>10, <1>11 DEF Fits
<1> QED
  BY <1>12 DEF after, fewer, t

LEMMA Relabel ==
    ASSUME AdmissionAssumption, NEW ph, NEW act, NEW lo, Fits(ph, act, lo),
           NEW c \in Calls, NEW v \in Phases,
           v \in HoldsSlot <=> ph[c] \in HoldsSlot
    PROVE  Fits([ph EXCEPT ![c] = v], act, lo)
<1> DEFINE after == [ph EXCEPT ![c] = v]
<1>1. /\ ph \in [Calls -> Phases] /\ after \in [Calls -> Phases]
      /\ after[c] = v /\ Moves(ph, after, c)
  BY DEF Fits, Moves
<1> HIDE DEF after
<1>2. N(after, Calls, HoldsSlot) = N(ph, Calls, HoldsSlot)
  BY <1>1, CountsMove
<1>3. \A s \in Tenants :
        N(after, CallsOf(s), HoldsSlot) = N(ph, CallsOf(s), HoldsSlot)
  BY <1>1, CountsMove
<1>4. Fits(after, act, lo)
  BY <1>1, <1>2, <1>3 DEF Fits
<1> QED
  BY <1>4 DEF after

\* A holder leaves without giving its slot back.
LEMMA Lose ==
    ASSUME AdmissionAssumption, NEW ph, NEW act, NEW lo, Fits(ph, act, lo),
           NEW c \in Calls, ph[c] \in HoldsSlot
    PROVE  Fits([ph EXCEPT ![c] = "idle"], act,
                [lo EXCEPT ![TenantOf[c]] = lo[TenantOf[c]] + 1])
<1> DEFINE t == TenantOf[c]
           after == [ph EXCEPT ![c] = "idle"]
           more == [lo EXCEPT ![t] = lo[t] + 1]
<1>1. t \in Tenants /\ Global \in Nat /\ "idle" \notin HoldsSlot
  BY DEF AdmissionAssumption, HoldsSlot
<1>2. /\ ph \in [Calls -> Phases] /\ act \in SlotCounts /\ lo \in [Tenants -> Nat]
      /\ N(ph, Calls, HoldsSlot) <= Total(act) /\ Total(act) <= Global
      /\ \A s \in Tenants : act[s] = lo[s] + N(ph, CallsOf(s), HoldsSlot)
  BY DEF Fits
<1>3. /\ after \in [Calls -> Phases] /\ more \in [Tenants -> Nat]
      /\ after[c] = "idle" /\ Moves(ph, after, c)
  BY <1>1, <1>2 DEF Phases, Moves
<1> HIDE DEF after
<1>4. Total(act) \in Nat
  BY <1>2, TotalBounds
<1>5. ASSUME NEW s \in Tenants
      PROVE  act[s] = more[s] + N(after, CallsOf(s), HoldsSlot)
  <2>2. /\ N(ph, CallsOf(s), HoldsSlot) \in Nat
        /\ N(after, CallsOf(s), HoldsSlot) \in Nat
        /\ s # t => N(after, CallsOf(s), HoldsSlot) = N(ph, CallsOf(s), HoldsSlot)
        /\ s = t => N(ph, CallsOf(s), HoldsSlot)
                      = N(after, CallsOf(s), HoldsSlot) + 1
    BY <1>1, <1>3, CountsMove
  <2>3. more[s] = IF s = t THEN lo[s] + 1 ELSE lo[s]
    BY <1>2
  <2>4. lo[s] \in Nat /\ act[s] = lo[s] + N(ph, CallsOf(s), HoldsSlot)
    BY <1>2
  <2> HIDE DEF t, more
  <2> QED
    BY <2>2, <2>3, <2>4
<1>6. N(ph, Calls, HoldsSlot) = N(after, Calls, HoldsSlot) + 1
      /\ N(after, Calls, HoldsSlot) \in Nat
  BY <1>1, <1>3, CountsMove
<1> HIDE DEF t, more
<1>7. N(after, Calls, HoldsSlot) <= Total(act)
  BY <1>2, <1>4, <1>6
<1>8. Fits(after, act, more)
  BY <1>2, <1>3, <1>5, <1>7 DEF Fits
<1> QED
  BY <1>8 DEF after, more, t

\* With nothing lost, a refusal means that some call holds a slot.
LEMMA RefusedByHolders ==
    ASSUME AdmissionAssumption, NEW ph, NEW act, NEW lo, Fits(ph, act, lo),
           \A s \in Tenants : lo[s] = 0,
           NEW t \in Tenants, ~HasRoom(act, ph, t)
    PROVE  \E c \in Calls : ph[c] \in HoldsSlot
<1>1. /\ act \in SlotCounts /\ \A s \in Tenants : act[s] \in Nat
      /\ \A s \in Tenants : act[s] = 0 + N(ph, CallsOf(s), HoldsSlot)
  BY DEF Fits, SlotCounts, AdmissionAssumption
<1>2. \E s \in Tenants : act[s] # 0
  <2>1. /\ Global \in Nat /\ Global > 0 /\ PerTenant \in Nat /\ PerTenant > 0
        /\ Total(act) \in Nat
    BY <1>1, TotalBounds DEF AdmissionAssumption
  <2>2. Total(act) # 0 \/ act[t] # 0
    BY <1>1, <2>1 DEF HasRoom
  <2>3. CASE Total(act) # 0
    <3>1. SlotsOf(act) # {}
      BY <2>3, FS_EmptySet DEF Total
    <3>2. PICK slot \in SlotsOf(act) : TRUE
      BY <3>1
    <3>3. slot \in Tenants \X (1..Global) /\ slot[2] <= act[slot[1]]
      BY DEF SlotsOf
    <3>4. slot[1] \in Tenants /\ slot[2] \in 1..Global
      BY <3>3
    <3> QED
      BY <1>1, <3>3, <3>4
  <2> QED
    BY <2>2, <2>3
<1>3. PICK s \in Tenants : act[s] # 0
  BY <1>2
<1>4. CallsOf(s) \in SUBSET Calls
  BY DEF CallsOf
<1>5. N(ph, CallsOf(s), HoldsSlot) \in Nat
  BY <1>4, CountPositive
<1>6. N(ph, CallsOf(s), HoldsSlot) # 0
  BY <1>1, <1>3, <1>5
<1> QED
  BY <1>4, <1>6, CountPositive

-----------------------------------------------------------------------------
(* Moves of the cluster counter and of the tool semaphore.                 *)

\* The calls in some phases grow by one, shrink by one or stay as many.
LEMMA AllMove ==
    ASSUME AdmissionAssumption, NEW ph, NEW after, NEW S,
           NEW c \in Calls, Moves(ph, after, c)
    PROVE  /\ N(ph, Calls, S) \in Nat /\ N(after, Calls, S) \in Nat
           /\ \/ /\ after[c] \in S /\ ph[c] \notin S
                 /\ N(after, Calls, S) = N(ph, Calls, S) + 1
              \/ /\ after[c] \notin S /\ ph[c] \in S
                 /\ N(ph, Calls, S) = N(after, Calls, S) + 1
              \/ /\ after[c] \in S <=> ph[c] \in S
                 /\ N(after, Calls, S) = N(ph, Calls, S)
<1>1. Calls \in SUBSET Calls
  OBVIOUS
<1>2. /\ N(ph, Calls, S) \in Nat /\ N(after, Calls, S) \in Nat
      /\ (after[c] \in S <=> ph[c] \in S) => N(after, Calls, S) = N(ph, Calls, S)
      /\ ph[c] \notin S /\ after[c] \in S
           => N(after, Calls, S) = N(ph, Calls, S) + 1
      /\ ph[c] \in S /\ after[c] \notin S
           => N(ph, Calls, S) = N(after, Calls, S) + 1
  BY <1>1, CountMoves
<1> QED
  BY <1>2

LEMMA DimsAre ==
    ASSUME AdmissionAssumption
    PROVE  /\ IsFiniteSet(ClusterDims) /\ Cardinality(ClusterDims) \in Nat
           /\ \A d \in ClusterDims : Cardinality(ClusterDims) = 1
           /\ ClusterCapacity \in Nat
<1>1. CASE Bootstrapped
  <2>1. ClusterDims = {"cluster_tool"} /\ ClusterCapacity \in Nat
    BY <1>1 DEF ClusterDims, AdmissionAssumption
  <2>2. IsFiniteSet(ClusterDims) /\ Cardinality(ClusterDims) = 1
    BY <2>1, FS_Singleton
  <2> QED
    BY <2>1, <2>2
<1>2. CASE ~Bootstrapped
  BY <1>2, FS_EmptySet DEF ClusterDims, AdmissionAssumption
<1> QED
  BY <1>1, <1>2

LEMMA ClusterKept ==
    ASSUME AdmissionAssumption, NEW ph, NEW after, NEW cl, NEW ret, NEW lc,
           ClusterFits(ph, cl, ret, lc),
           NEW c \in Calls, Moves(ph, after, c),
           after[c] \in HoldsCluster <=> ph[c] \in HoldsCluster
    PROVE  ClusterFits(after, cl, ret, lc)
<1>1. N(after, Calls, HoldsCluster) = N(ph, Calls, HoldsCluster)
  BY AllMove
<1> QED
  BY <1>1 DEF ClusterFits

\* A call past the counter leaves, and its slot is owed or lost.
LEMMA ClusterLeft ==
    ASSUME AdmissionAssumption, NEW ph, NEW after, NEW cl, NEW ret, NEW lc,
           ClusterFits(ph, cl, ret, lc),
           NEW c \in Calls, Moves(ph, after, c),
           after[c] \notin HoldsCluster, ph[c] \in HoldsCluster
    PROVE  /\ ClusterFits(after, cl, ret + Cardinality(ClusterDims), lc)
           /\ ClusterFits(after, cl, ret, lc + 1)
<1>1. /\ N(ph, Calls, HoldsCluster) = N(after, Calls, HoldsCluster) + 1
      /\ N(after, Calls, HoldsCluster) \in Nat
  BY AllMove
<1>2. /\ cl \in [ClusterDims -> 0..ClusterCapacity] /\ ret \in Nat /\ lc \in Nat
      /\ \A d \in ClusterDims : cl[d] = lc + ret + N(ph, Calls, HoldsCluster)
  BY DEF ClusterFits
<1>3. ret + Cardinality(ClusterDims) \in Nat /\ lc + 1 \in Nat
  BY <1>2, DimsAre
<1>4. ASSUME NEW d \in ClusterDims
      PROVE  /\ cl[d] = lc + (ret + Cardinality(ClusterDims))
                          + N(after, Calls, HoldsCluster)
             /\ cl[d] = (lc + 1) + ret + N(after, Calls, HoldsCluster)
  <2>1. Cardinality(ClusterDims) = 1
    BY DimsAre
  <2>2. cl[d] = lc + ret + N(ph, Calls, HoldsCluster)
    BY <1>2
  <2> QED
    BY <1>1, <1>2, <2>1, <2>2
<1> QED
  BY <1>2, <1>3, <1>4 DEF ClusterFits

\* The counter grants a slot: to a call, or to one that is no longer there.
LEMMA ClusterTaken ==
    ASSUME AdmissionAssumption, NEW ph, NEW after, NEW cl, NEW ret, NEW lc,
           ClusterFits(ph, cl, ret, lc), CanAcquire(cl, ClusterLimit, ClusterDims),
           NEW c \in Calls, Moves(ph, after, c), ph[c] \notin HoldsCluster
    PROVE  /\ after[c] \in HoldsCluster =>
                ClusterFits(after, Acquired(cl, ClusterDims), ret, lc)
           /\ after[c] \notin HoldsCluster =>
                ClusterFits(after, Acquired(cl, ClusterDims), ret, lc + 1)
<1> DEFINE more == Acquired(cl, ClusterDims)
<1>1. /\ N(ph, Calls, HoldsCluster) \in Nat
      /\ after[c] \in HoldsCluster => N(after, Calls, HoldsCluster)
                                        = N(ph, Calls, HoldsCluster) + 1
      /\ after[c] \notin HoldsCluster => N(after, Calls, HoldsCluster)
                                           = N(ph, Calls, HoldsCluster)
  BY AllMove
<1>2. /\ cl \in [ClusterDims -> 0..ClusterCapacity] /\ ret \in Nat /\ lc \in Nat
      /\ lc + 1 \in Nat
      /\ \A d \in ClusterDims : cl[d] = lc + ret + N(ph, Calls, HoldsCluster)
  BY DEF ClusterFits
<1>3. \A d \in ClusterDims : cl[d] \in Nat /\ cl[d] < ClusterCapacity
  BY <1>2, DimsAre DEF CanAcquire, ClusterLimit
<1>4. more = [d \in ClusterDims |-> cl[d] + 1]
  BY <1>2 DEF Acquired
<1> HIDE DEF more
<1>5. more \in [ClusterDims -> 0..ClusterCapacity]
  <2>1. \A d \in ClusterDims : cl[d] + 1 \in 0..ClusterCapacity
    BY <1>3, DimsAre
  <2> QED
    BY <1>4, <2>1
<1>6. ASSUME NEW d \in ClusterDims
      PROVE  /\ more[d] = lc + ret + (N(ph, Calls, HoldsCluster) + 1)
             /\ more[d] = (lc + 1) + ret + N(ph, Calls, HoldsCluster)
  <2>1. more[d] = cl[d] + 1 /\ cl[d] = lc + ret + N(ph, Calls, HoldsCluster)
    BY <1>2, <1>4
  <2> QED
    BY <1>1, <1>2, <2>1
<1>7. /\ after[c] \in HoldsCluster => ClusterFits(after, more, ret, lc)
      /\ after[c] \notin HoldsCluster => ClusterFits(after, more, ret, lc + 1)
  BY <1>1, <1>2, <1>5, <1>6 DEF ClusterFits
<1> QED
  BY <1>7 DEF more

LEMMA ClusterReturned ==
    ASSUME AdmissionAssumption, NEW ph, NEW cl, NEW ret, NEW lc,
           ClusterFits(ph, cl, ret, lc), ret > 0
    PROVE  ClusterFits(ph, Released(cl, ClusterDims), ret - 1, lc)
<1> DEFINE fewer == Released(cl, ClusterDims)
<1>1. /\ cl \in [ClusterDims -> 0..ClusterCapacity] /\ ret \in Nat /\ lc \in Nat
      /\ ret - 1 \in Nat
      /\ \A d \in ClusterDims : cl[d] = lc + ret + N(ph, Calls, HoldsCluster)
  BY DEF ClusterFits
<1>2. N(ph, Calls, HoldsCluster) \in Nat
  BY CountPositive
<1>3. ASSUME NEW d \in ClusterDims
      PROVE  /\ cl[d] > 0 /\ cl[d] - 1 \in 0..ClusterCapacity
             /\ cl[d] - 1 = lc + (ret - 1) + N(ph, Calls, HoldsCluster)
  <2>1. cl[d] \in 0..ClusterCapacity
        /\ cl[d] = lc + ret + N(ph, Calls, HoldsCluster)
    BY <1>1
  <2> QED
    BY <1>1, <1>2, <2>1, DimsAre
<1>4. fewer = [d \in ClusterDims |-> cl[d] - 1]
  BY <1>1, <1>3 DEF Released
<1> HIDE DEF fewer
<1>5. /\ fewer \in [ClusterDims -> 0..ClusterCapacity]
      /\ \A d \in ClusterDims : fewer[d] = cl[d] - 1
  BY <1>3, <1>4
<1>6. ClusterFits(ph, fewer, ret - 1, lc)
  BY <1>1, <1>3, <1>5 DEF ClusterFits
<1> QED
  BY <1>6 DEF fewer

\* A call outside the semaphore changes nothing there.
LEMMA ToolKept ==
    ASSUME AdmissionAssumption, NEW ph, NEW after, NEW q, ToolFits(ph, q),
           NEW c \in Calls, Moves(ph, after, c), ph[c] # "toolwait",
           after[c] \in Working => ph[c] \in Working
    PROVE  ToolFits(after, q)
<1>1. /\ q \in Seq(Calls) /\ \A i \in 1..Len(q) : ph[q[i]] = "toolwait"
      /\ Distinct(q) /\ N(ph, Calls, Working) <= ToolSlots
  BY DEF ToolFits
<1>2. \A i \in 1..Len(q) : after[q[i]] = "toolwait"
  <2>1. \A i \in 1..Len(q) : q[i] \in Calls /\ q[i] # c
    BY <1>1
  <2> QED
    BY <1>1, <2>1 DEF Moves
<1>3. N(after, Calls, Working) <= ToolSlots
  <2>1. /\ N(ph, Calls, Working) \in Nat /\ N(after, Calls, Working) \in Nat
        /\ \/ N(after, Calls, Working) = N(ph, Calls, Working)
           \/ N(ph, Calls, Working) = N(after, Calls, Working) + 1
    <3>1. CASE after[c] \in Working <=> ph[c] \in Working
      BY <3>1, AllMove
    <3>2. CASE after[c] \notin Working /\ ph[c] \in Working
      BY <3>2, AllMove
    <3> QED
      BY <3>1, <3>2
  <2>2. ToolSlots \in Nat
    BY DEF AdmissionAssumption
  <2> QED
    BY <1>1, <2>1, <2>2
<1> QED
  BY <1>1, <1>2, <1>3 DEF ToolFits

LEMMA ToolTaken ==
    ASSUME AdmissionAssumption, NEW ph, NEW after, NEW q, ToolFits(ph, q),
           NEW c \in Calls, Moves(ph, after, c), ph[c] # "toolwait",
           ph[c] \notin Working, N(ph, Calls, Working) < ToolSlots
    PROVE  ToolFits(after, q)
<1>1. /\ q \in Seq(Calls) /\ \A i \in 1..Len(q) : ph[q[i]] = "toolwait"
      /\ Distinct(q)
  BY DEF ToolFits
<1>2. \A i \in 1..Len(q) : after[q[i]] = "toolwait"
  <2>1. \A i \in 1..Len(q) : q[i] \in Calls /\ q[i] # c
    BY <1>1
  <2> QED
    BY <1>1, <2>1 DEF Moves
<1>3. N(after, Calls, Working) <= ToolSlots
  <2>1. /\ N(ph, Calls, Working) \in Nat
        /\ \/ N(after, Calls, Working) = N(ph, Calls, Working)
           \/ N(after, Calls, Working) = N(ph, Calls, Working) + 1
    BY AllMove
  <2>2. ToolSlots \in Nat
    BY DEF AdmissionAssumption
  <2> QED
    BY <2>1, <2>2
<1> QED
  BY <1>1, <1>2, <1>3 DEF ToolFits

LEMMA ToolQueued ==
    ASSUME AdmissionAssumption, NEW ph, NEW after, NEW q, ToolFits(ph, q),
           NEW c \in Calls, Moves(ph, after, c), ph[c] # "toolwait",
           ph[c] \notin Working, after[c] = "toolwait"
    PROVE  ToolFits(after, Append(q, c))
<1> DEFINE new == Append(q, c)
<1>1. /\ q \in Seq(Calls) /\ \A i \in 1..Len(q) : ph[q[i]] = "toolwait"
      /\ Distinct(q) /\ N(ph, Calls, Working) <= ToolSlots
  BY DEF ToolFits
<1>2. /\ new \in Seq(Calls) /\ Len(new) = Len(q) + 1 /\ Len(q) \in Nat
      /\ new[Len(q) + 1] = c
      /\ \A i \in 1..Len(q) : new[i] = q[i]
  BY <1>1
<1> HIDE DEF new
<1>3. \A i \in 1..Len(q) : q[i] \in Calls /\ q[i] # c
  BY <1>1
<1>4. \A i \in 1..Len(new) : i \in 1..Len(q) \/ i = Len(q) + 1
  BY <1>2
<1>5. \A i \in 1..Len(new) : after[new[i]] = "toolwait"
  BY <1>1, <1>2, <1>3, <1>4 DEF Moves
<1>6. Distinct(new)
  BY <1>1, <1>2, <1>3, <1>4 DEF Distinct
<1>7. N(after, Calls, Working) = N(ph, Calls, Working)
  <2>1. after[c] \notin Working
    BY DEF Working
  <2> QED
    BY <2>1, AllMove
<1>8. ToolFits(after, new)
  BY <1>1, <1>2, <1>5, <1>6, <1>7 DEF ToolFits
<1> QED
  BY <1>8 DEF new

LEMMA ToolLeft ==
    ASSUME AdmissionAssumption, NEW ph, NEW after, NEW q, ToolFits(ph, q),
           NEW c \in Calls, Moves(ph, after, c), ph[c] = "toolwait",
           after[c] \notin Working
    PROVE  ToolFits(after, RemoveFirst(q, c))
<1> DEFINE rest == RemoveFirst(q, c)
<1>1. /\ q \in Seq(Calls) /\ \A i \in 1..Len(q) : ph[q[i]] = "toolwait"
      /\ Distinct(q) /\ N(ph, Calls, Working) <= ToolSlots
  BY DEF ToolFits
<1>2. /\ rest \in Seq(Calls) /\ Distinct(rest)
      /\ \A i \in 1..Len(rest) :
           rest[i] # c /\ \E j \in 1..Len(q) : rest[i] = q[j]
  BY <1>1, LeftQueue
<1> HIDE DEF rest
<1>3. \A i \in 1..Len(rest) : after[rest[i]] = "toolwait"
  <2>1. \A i \in 1..Len(rest) :
          rest[i] \in Calls /\ rest[i] # c /\ ph[rest[i]] = "toolwait"
    BY <1>1, <1>2
  <2> QED
    BY <2>1 DEF Moves
<1>4. N(after, Calls, Working) = N(ph, Calls, Working)
  <2>1. ph[c] \notin Working
    BY DEF Working
  <2> QED
    BY <2>1, AllMove
<1>5. ToolFits(after, rest)
  BY <1>1, <1>2, <1>3, <1>4 DEF ToolFits
<1> QED
  BY <1>5 DEF rest

\* The slot of a call that ends passes to the head of the queue.
LEMMA ToolPassed ==
    ASSUME AdmissionAssumption, NEW ph, NEW after, NEW last, NEW q,
           ToolFits(ph, q), q # <<>>,
           NEW c \in Calls, ph[c] \in Working,
           Moves(ph, after, c), after[c] = "idle",
           Moves(after, last, Head(q))
    PROVE  /\ Head(q) \in Calls /\ ph[Head(q)] = "toolwait" /\ Head(q) # c
           /\ ToolFits(last, Tail(q))
<1> DEFINE h == Head(q)
           rest == Tail(q)
<1>1. /\ q \in Seq(Calls) /\ \A i \in 1..Len(q) : ph[q[i]] = "toolwait"
      /\ Distinct(q) /\ N(ph, Calls, Working) <= ToolSlots
  BY DEF ToolFits
<1>2. /\ rest \in Seq(Calls) /\ Len(rest) = Len(q) - 1
      /\ Len(q) \in Nat /\ Len(q) > 0 /\ h = q[1]
      /\ \A i \in 1..Len(q) - 1 : rest[i] = q[i + 1]
  BY <1>1
<1> HIDE DEF h, rest
<1>3. h \in Calls /\ ph[h] = "toolwait" /\ h # c /\ after[h] = "toolwait"
  <2>1. 1 \in 1..Len(q)
    BY <1>2
  <2>2. h \in Calls /\ ph[h] = "toolwait"
    BY <1>1, <1>2, <2>1
  <2>3. h # c
    BY <2>2 DEF Working
  <2> QED
    BY <2>2, <2>3 DEF Moves
<1>4. \A i \in 1..Len(rest) : /\ i + 1 \in 1..Len(q) /\ i + 1 # 1
                              /\ rest[i] = q[i + 1]
  BY <1>2
<1>5. Distinct(rest)
  <2>1. ASSUME NEW i \in 1..Len(rest), NEW j \in 1..Len(rest), rest[i] = rest[j]
        PROVE  i = j
    <3>1. i + 1 = j + 1
      BY <1>1, <1>4, <2>1 DEF Distinct
    <3> QED
      BY <1>2, <3>1
  <2> QED
    BY <2>1 DEF Distinct
<1>6. \A i \in 1..Len(rest) : last[rest[i]] = "toolwait"
  <2>1. ASSUME NEW i \in 1..Len(rest)
        PROVE  last[rest[i]] = "toolwait"
    <3>1. 1 \in 1..Len(q)
      BY <1>2
    <3>2. rest[i] # h
      BY <1>1, <1>2, <1>4, <3>1 DEF Distinct
    <3>3. rest[i] \in Calls /\ ph[rest[i]] = "toolwait"
      BY <1>1, <1>4
    <3>4. rest[i] # c
      BY <3>3 DEF Working
    <3>5. after[rest[i]] = "toolwait"
      BY <3>3, <3>4 DEF Moves
    <3> QED
      BY <3>2, <3>3, <3>5 DEF Moves, h
  <2> QED
    BY <2>1
<1>7. N(last, Calls, Working) <= ToolSlots
  <2>1. /\ N(ph, Calls, Working) = N(after, Calls, Working) + 1
        /\ N(after, Calls, Working) \in Nat
    <3>1. after[c] \notin Working
      BY DEF Working
    <3> QED
      BY <3>1, AllMove
  <2>2. \/ N(last, Calls, Working) = N(after, Calls, Working)
        \/ N(last, Calls, Working) = N(after, Calls, Working) + 1
    <3>1. after[h] \notin Working /\ h \in Calls
      BY <1>3 DEF Working
    <3>2. Moves(after, last, h)
      BY DEF h
    <3> QED
      BY <3>1, <3>2, AllMove
  <2>3. ToolSlots \in Nat
    BY DEF AdmissionAssumption
  <2> QED
    BY <1>1, <2>1, <2>2, <2>3
<1>8. ToolFits(last, rest)
  BY <1>1, <1>2, <1>5, <1>6, <1>7 DEF ToolFits
<1> QED
  BY <1>3, <1>8 DEF h, rest

-----------------------------------------------------------------------------
(* The hand-over, and the steps.                                           *)

Hold(ph) == {c \in Calls : ph[c] \in HoldsSlot}

\* While calls wait and no slot is lost, some call holds one.
Cared(ph, lo) ==
    Pending(ph) # {} /\ (\A t \in Tenants : lo[t] = 0) => Hold(ph) # {}

\* A tenant gets a slot beyond its share only if no other tenant waits.
Reserved(act, more, ph) ==
    \A t \in Tenants :
        more[t] > act[t] /\ more[t] > PerTenant => ~OthersWait(ph, t)

\* A call that has room is given a slot.
LEMMA Given ==
    ASSUME AdmissionAssumption, NEW ph, NEW act, NEW lo, Fits(ph, act, lo),
           NEW c \in Calls, ph[c] \notin HoldsSlot, NEW v \in HoldsSlot,
           HasRoom(act, ph, TenantOf[c]),
           NEW after, after = [ph EXCEPT ![c] = v],
           NEW more, more = [act EXCEPT ![TenantOf[c]] = act[TenantOf[c]] + 1]
    PROVE  /\ Fits(after, more, lo)
           /\ Cared(after, lo)
           /\ Reserved(act, more, after)
<1>1. Total(act) < Global /\ TenantOf[c] \in Tenants /\ PerTenant \in Nat
  BY DEF HasRoom, AdmissionAssumption
<1>2. Fits(after, more, lo)
  BY <1>1, Grant
<1>3. Cared(after, lo)
  <2>1. after[c] \in HoldsSlot
    BY DEF Fits
  <2> QED
    BY <2>1 DEF Cared, Hold
<1>4. ASSUME NEW t \in Tenants, more[t] > act[t], more[t] > PerTenant
      PROVE  ~OthersWait(after, t)
  <2>1. act \in [Tenants -> Nat]
    BY DEF Fits, SlotCounts, AdmissionAssumption
  <2>2. t = TenantOf[c]
    BY <1>4, <2>1
  <2>3. ~(act[t] < PerTenant)
    BY <1>1, <1>4, <2>1, <2>2
  <2>4. ~OthersWait(ph, t)
    BY <2>2, <2>3 DEF HasRoom
  <2>5. Pending(after) \subseteq Pending(ph)
    BY DEF Pending, HoldsSlot, Fits
  <2> QED
    BY <2>4, <2>5 DEF OthersWait
<1> QED
  BY <1>2, <1>3, <1>4 DEF Reserved

\* What release does, when the slot's holder is already gone from ph.
LEMMA HandOver ==
    ASSUME AdmissionAssumption, NEW ph, NEW lo, NEW t \in Tenants,
           active \in SlotCounts, waiters \in Seq(Calls),
           Fits(ph, Less(active, t), lo), Release(t, ph)
    PROVE  /\ Fits(phase', active', lo)
           /\ waiters' \in Seq(Calls)
           /\ Cared(phase', lo)
           /\ Reserved(active, active', phase')
           /\ \/ phase' = ph
              \/ \E c \in Calls : /\ ph[c] = "pending"
                                  /\ phase' = [ph EXCEPT ![c] = "granted"]
<1> DEFINE act == Less(active, t)
           next == Candidates(act, ph)
<1>1. \A s \in Tenants : active[s] \in Nat /\ act[s] \in Nat /\ act[s] <= active[s]
  <2>1. \A s \in Tenants : active[s] \in Nat
    BY DEF SlotCounts, AdmissionAssumption
  <2> HIDE DEF act
  <2>2. \A s \in Tenants :
          act[s] = IF s = t /\ active[s] > 0 THEN active[s] - 1 ELSE active[s]
    BY TotalDown DEF act
  <2> QED
    BY <2>1, <2>2
<1>2. CASE next = {}
  <2>1. active' = act /\ phase' = ph /\ waiters' = waiters
    BY <1>2 DEF Release
  <2> HIDE DEF act
  <2>2. Cared(ph, lo)
    <3>1. SUFFICES ASSUME Pending(ph) # {}, \A s \in Tenants : lo[s] = 0
                   PROVE  Hold(ph) # {}
      BY DEF Cared
    <3>2. PICK c \in Calls : ph[c] = "pending"
      BY <3>1 DEF Pending
    <3>3. ~HasRoom(act, ph, TenantOf[c])
      BY <1>2, <3>2 DEF Candidates, Pending
    <3>4. TenantOf[c] \in Tenants /\ Fits(ph, act, lo)
      BY DEF AdmissionAssumption, act
    <3>5. \E d \in Calls : ph[d] \in HoldsSlot
      BY <3>1, <3>3, <3>4, RefusedByHolders
    <3> QED
      BY <3>5 DEF Hold
  <2>3. Reserved(active, act, ph)
    BY <1>1 DEF Reserved
  <2> QED
    BY <2>1, <2>2, <2>3 DEF act
<1>3. CASE next # {}
  <2>1. PICK c \in next :
          /\ active' = [act EXCEPT ![TenantOf[c]] = act[TenantOf[c]] + 1]
          /\ phase' = [ph EXCEPT ![c] = "granted"]
          /\ waiters' = RemoveFirst(waiters, c)
    BY <1>3 DEF Release
  <2>2. /\ c \in Calls /\ ph[c] = "pending" /\ HasRoom(act, ph, TenantOf[c])
        /\ ph[c] \notin HoldsSlot /\ "granted" \in HoldsSlot
    BY DEF Candidates, Pending, HoldsSlot
  <2>3. waiters' \in Seq(Calls)
    BY <2>1, LeftQueue
  <2>4. Fits(ph, act, lo)
    OBVIOUS
  <2> HIDE DEF act, next
  <2>5. /\ Fits(phase', active', lo) /\ Cared(phase', lo)
        /\ Reserved(act, active', phase')
    BY <2>1, <2>2, <2>4, Given
  <2>6. Reserved(active, active', phase')
    <3>1. active' \in [Tenants -> Nat]
      BY <2>5 DEF Fits, SlotCounts, AdmissionAssumption
    <3>2. ASSUME NEW s \in Tenants, active'[s] > active[s]
          PROVE  active'[s] > act[s]
      <4>1. active'[s] \in Nat
        BY <3>1
      <4> QED
        BY <1>1, <3>2, <4>1
    <3> QED
      BY <2>5, <3>2 DEF Reserved
  <2> QED
    BY <2>1, <2>2, <2>3, <2>5, <2>6
<1> QED
  BY <1>2, <1>3

\* Only the calls of the limiter move in a hand-over.
LEMMA HandOverElsewhere ==
    ASSUME AdmissionAssumption, NEW ph \in [Calls -> Phases], NEW after,
           NEW cl, NEW ret, NEW lc, NEW q,
           ClusterFits(ph, cl, ret, lc), ToolFits(ph, q),
           \/ after = ph
           \/ \E c \in Calls : /\ ph[c] = "pending"
                               /\ after = [ph EXCEPT ![c] = "granted"]
    PROVE  ClusterFits(after, cl, ret, lc) /\ ToolFits(after, q)
<1>1. CASE after = ph
  BY <1>1
<1>2. ASSUME NEW c \in Calls, ph[c] = "pending",
             after = [ph EXCEPT ![c] = "granted"]
      PROVE  ClusterFits(after, cl, ret, lc) /\ ToolFits(after, q)
  <2>1. Moves(ph, after, c) /\ after[c] = "granted"
    BY <1>2 DEF Moves
  <2>2. /\ after[c] \notin HoldsCluster /\ ph[c] \notin HoldsCluster
        /\ after[c] \notin Working /\ ph[c] # "toolwait"
    BY <1>2, <2>1 DEF HoldsCluster, Working
  <2> QED
    BY <2>1, <2>2, ClusterKept, ToolKept
<1> QED
  BY <1>1, <1>2

\* The phases before the counter and the semaphore.
Early == {"idle", "pending", "granted", "lapsed", "cluster"}

\* A call that stays before the counter changes nothing there or after.
LEMMA EarlyMove ==
    ASSUME AdmissionAssumption, NEW ph \in [Calls -> Phases], NEW after,
           NEW cl, NEW ret, NEW lc, NEW q,
           ClusterFits(ph, cl, ret, lc), ToolFits(ph, q),
           NEW c \in Calls, ph[c] \in Early, NEW v \in Early,
           after = [ph EXCEPT ![c] = v]
    PROVE  ClusterFits(after, cl, ret, lc) /\ ToolFits(after, q)
<1>1. Moves(ph, after, c) /\ after[c] = v
  BY DEF Moves
<1>2. /\ after[c] \notin HoldsCluster /\ ph[c] \notin HoldsCluster
      /\ after[c] \notin Working /\ ph[c] # "toolwait"
  BY <1>1 DEF Early, HoldsCluster, Working
<1> QED
  BY <1>1, <1>2, ClusterKept, ToolKept

\* No new waiter and no holder less.
LEMMA StillCared ==
    ASSUME NEW ph \in [Calls -> Phases], NEW after, NEW lo, Cared(ph, lo),
           NEW c \in Calls, NEW v, after = [ph EXCEPT ![c] = v],
           v # "pending", ph[c] \in HoldsSlot => v \in HoldsSlot
    PROVE  Cared(after, lo)
<1>1. Pending(after) \subseteq Pending(ph)
  BY DEF Pending
<1>2. Hold(ph) \subseteq Hold(after)
  BY DEF Hold
<1> QED
  BY <1>1, <1>2 DEF Cared

\* The parts of the invariant in a state, by name.
LEMMA Parts ==
    ASSUME AdmissionInv
    PROVE  /\ phase \in [Calls -> Phases] /\ active \in SlotCounts
           /\ waiters \in Seq(Calls)
           /\ lost \in [tenant : [Tenants -> Nat], cluster : Nat]
           /\ Fits(phase, active, lost.tenant)
           /\ ClusterFits(phase, cluster, returning, lost.cluster)
           /\ ToolFits(phase, toolQueue)
           /\ Cared(phase, lost.tenant)
<1>1. Cared(phase, lost.tenant)
  BY DEF AdmissionInv, NobodyWaitsOnAnEmptyPool, NothingLost, InPhase, Cared, Hold
<1> QED
  BY <1>1 DEF AdmissionInv, Fits

\* The invariant from its parts, and the reserve.
StepGoal == AdmissionInv' /\ Reserved(active, active', phase')

LEMMA FromParts ==
    ASSUME waiters' \in Seq(Calls),
           lost' \in [tenant : [Tenants -> Nat], cluster : Nat],
           Fits(phase', active', lost'.tenant),
           ClusterFits(phase', cluster', returning', lost'.cluster),
           ToolFits(phase', toolQueue'),
           Cared(phase', lost'.tenant)
    PROVE  AdmissionInv'
<1>1. NobodyWaitsOnAnEmptyPool'
  BY DEF NobodyWaitsOnAnEmptyPool, NothingLost, InPhase, Cared, Hold, Pending
<1> QED
  BY <1>1 DEF AdmissionInv

LEMMA NoSlotMore ==
    ASSUME AdmissionAssumption, AdmissionInv, active' = active
    PROVE  Reserved(active, active', phase')
<1>1. \A t \in Tenants : active[t] \in Nat
  BY Parts DEF SlotCounts, AdmissionAssumption
<1> QED
  BY <1>1 DEF Reserved

-----------------------------------------------------------------------------
(* One lemma per handler.                                                  *)

LEMMA AcquireStep ==
    ASSUME AdmissionAssumption, AdmissionInv, NEW c \in Calls, Acquire(c)
    PROVE  StepGoal
<1>1. /\ phase[c] = "idle" /\ phase[c] \in Early /\ phase[c] \notin HoldsSlot
      /\ cluster' = cluster /\ returning' = returning /\ lost' = lost
      /\ toolQueue' = toolQueue
  BY DEF Acquire, Early, HoldsSlot
<1>2. CASE HasRoom(active, phase, TenantOf[c])
  <2>1. /\ active' = [active EXCEPT ![TenantOf[c]] = active[TenantOf[c]] + 1]
        /\ phase' = [phase EXCEPT ![c] = "cluster"] /\ waiters' = waiters
    BY <1>2 DEF Acquire
  <2>2. "cluster" \in HoldsSlot /\ "cluster" \in Early
    BY DEF HoldsSlot, Early
  <2>3. /\ Fits(phase', active', lost.tenant) /\ Cared(phase', lost.tenant)
        /\ Reserved(active, active', phase')
    BY <1>1, <1>2, <2>1, <2>2, Parts, Given
  <2>4. ClusterFits(phase', cluster, returning, lost.cluster)
        /\ ToolFits(phase', toolQueue)
    BY <1>1, <2>1, <2>2, Parts, EarlyMove
  <2> QED
    BY <1>1, <2>1, <2>3, <2>4, Parts, FromParts DEF StepGoal
<1>3. CASE ~HasRoom(active, phase, TenantOf[c])
  <2>1. /\ waiters' = Append(waiters, c) /\ active' = active
        /\ phase' = [phase EXCEPT ![c] = "pending"]
    BY <1>3 DEF Acquire
  <2>2. /\ "pending" \in Phases /\ "pending" \notin HoldsSlot
        /\ "pending" \in Early
    BY DEF HoldsSlot, Early, Phases
  <2>3. Fits(phase', active, lost.tenant)
    BY <1>1, <2>1, <2>2, Parts, Relabel
  <2>4. ClusterFits(phase', cluster, returning, lost.cluster)
        /\ ToolFits(phase', toolQueue)
    BY <1>1, <2>1, <2>2, Parts, EarlyMove
  <2>5. Cared(phase', lost.tenant)
    <3>1. SUFFICES ASSUME \A s \in Tenants : lost.tenant[s] = 0
                   PROVE  Hold(phase') # {}
      BY DEF Cared
    <3>2. TenantOf[c] \in Tenants
      BY DEF AdmissionAssumption
    <3>3. PICK d \in Calls : phase[d] \in HoldsSlot
      BY <1>3, <3>1, <3>2, Parts, RefusedByHolders
    <3>4. phase'[d] \in HoldsSlot
      BY <1>1, <2>1, <3>3, Parts
    <3> QED
      BY <3>4 DEF Hold
  <2>6. waiters' \in Seq(Calls)
    BY <2>1, Parts
  <2> QED
    BY <1>1, <2>1, <2>3, <2>4, <2>5, <2>6, Parts, FromParts, NoSlotMore
    DEF StepGoal
<1> QED
  BY <1>2, <1>3

\* The steps of a waiter that move no slot.
LEMMA WaiterStep ==
    ASSUME AdmissionAssumption, AdmissionInv, NEW c \in Calls,
           Resume(c) \/ Lapse(c) \/ LeaveQueue(c)
    PROVE  StepGoal
<1>1. PICK v \in {"cluster", "lapsed", "idle"} :
        /\ phase' = [phase EXCEPT ![c] = v]
        /\ phase[c] \in Early /\ v \in Early
        /\ v \in HoldsSlot <=> phase[c] \in HoldsSlot
        /\ waiters' = waiters \/ waiters' = RemoveFirst(waiters, c)
        /\ active' = active /\ cluster' = cluster /\ returning' = returning
        /\ lost' = lost /\ toolQueue' = toolQueue
  <2>1. CASE Resume(c)
    BY <2>1 DEF Resume, Early, HoldsSlot
  <2>2. CASE Lapse(c)
    BY <2>2 DEF Lapse, Early, HoldsSlot
  <2>3. CASE LeaveQueue(c)
    BY <2>3 DEF LeaveQueue, Early, HoldsSlot
  <2> QED
    BY <2>1, <2>2, <2>3
<1>2. v \in Phases /\ v # "pending"
  BY DEF Phases
<1>3. Fits(phase', active, lost.tenant)
  BY <1>1, <1>2, Parts, Relabel
<1>4. ClusterFits(phase', cluster, returning, lost.cluster)
      /\ ToolFits(phase', toolQueue)
  BY <1>1, Parts, EarlyMove
<1>5. Cared(phase', lost.tenant)
  BY <1>1, <1>2, Parts, StillCared
<1>6. waiters' \in Seq(Calls)
  BY <1>1, Parts, LeftQueue
<1> QED
  BY <1>1, <1>3, <1>4, <1>5, <1>6, Parts, FromParts, NoSlotMore DEF StepGoal

\* A slot given back without having passed the counter.
LEMMA GiveBackStep ==
    ASSUME AdmissionAssumption, AdmissionInv, NEW c \in Calls,
           CancelGranted(c) \/ ClusterRefused(c)
    PROVE  StepGoal
<1> DEFINE ph == [phase EXCEPT ![c] = "idle"]
<1>1. /\ phase[c] \in Early /\ phase[c] \in HoldsSlot
      /\ Release(TenantOf[c], ph)
      /\ cluster' = cluster /\ returning' = returning
      /\ lost' = lost /\ toolQueue' = toolQueue
  BY DEF CancelGranted, ClusterRefused, Early, HoldsSlot
<1>2. /\ "idle" \in Phases /\ "idle" \notin HoldsSlot /\ "idle" \in Early
      /\ TenantOf[c] \in Tenants
  BY DEF Phases, HoldsSlot, Early, AdmissionAssumption
<1>3. Fits(ph, Less(active, TenantOf[c]), lost.tenant)
  BY <1>1, <1>2, Parts, GiveBack
<1>4. /\ ph \in [Calls -> Phases]
      /\ ClusterFits(ph, cluster, returning, lost.cluster)
      /\ ToolFits(ph, toolQueue)
  BY <1>1, <1>2, Parts, EarlyMove
<1> HIDE DEF ph
<1>5. /\ Fits(phase', active', lost.tenant)
      /\ waiters' \in Seq(Calls)
      /\ Cared(phase', lost.tenant)
      /\ Reserved(active, active', phase')
      /\ \/ phase' = ph
         \/ \E d \in Calls : /\ ph[d] = "pending"
                             /\ phase' = [ph EXCEPT ![d] = "granted"]
  BY <1>1, <1>2, <1>3, Parts, HandOver
<1>6. ClusterFits(phase', cluster, returning, lost.cluster)
      /\ ToolFits(phase', toolQueue)
  BY <1>4, <1>5, HandOverElsewhere
<1> QED
  BY <1>1, <1>5, <1>6, Parts, FromParts DEF StepGoal

LEMMA ClusterGrantedStep ==
    ASSUME AdmissionAssumption, AdmissionInv, NEW c \in Calls, ClusterGranted(c)
    PROVE  StepGoal
<1>1. /\ phase[c] = "cluster" /\ CanAcquire(cluster, ClusterLimit, ClusterDims)
      /\ cluster' = Acquired(cluster, ClusterDims)
      /\ active' = active /\ waiters' = waiters
      /\ returning' = returning /\ lost' = lost
      /\ EnterTool(c)
  BY DEF ClusterGranted
<1>2. PICK v \in {"running", "toolwait"} :
        /\ phase' = [phase EXCEPT ![c] = v]
        /\ \/ /\ v = "running" /\ toolQueue' = toolQueue
              /\ N(phase, Calls, Working) < ToolSlots
           \/ v = "toolwait" /\ toolQueue' = Append(toolQueue, c)
  BY <1>1 DEF EnterTool, ToolFree, InPhase, N
<1>3. /\ v \in Phases /\ v \in HoldsSlot /\ phase[c] \in HoldsSlot
      /\ v \in HoldsCluster /\ phase[c] \notin HoldsCluster
      /\ phase[c] # "toolwait" /\ phase[c] \notin Working /\ v # "pending"
  BY <1>1 DEF Phases, HoldsSlot, HoldsCluster, Working
<1>4. Moves(phase, phase', c) /\ phase'[c] = v
  BY <1>2, Parts DEF Moves
<1>5. Fits(phase', active, lost.tenant)
  BY <1>2, <1>3, Parts, Relabel
<1>6. ClusterFits(phase', cluster', returning, lost.cluster)
  BY <1>1, <1>3, <1>4, Parts, ClusterTaken
<1>7. ToolFits(phase', toolQueue')
  <2>1. CASE /\ v = "running" /\ toolQueue' = toolQueue
             /\ N(phase, Calls, Working) < ToolSlots
    BY <1>3, <1>4, <2>1, Parts, ToolTaken
  <2>2. CASE v = "toolwait" /\ toolQueue' = Append(toolQueue, c)
    BY <1>3, <1>4, <2>2, Parts, ToolQueued
  <2> QED
    BY <1>2, <2>1, <2>2
<1>8. Cared(phase', lost.tenant)
  BY <1>2, <1>3, Parts, StillCared
<1> QED
  BY <1>1, <1>5, <1>6, <1>7, <1>8, Parts, FromParts, NoSlotMore DEF StepGoal

\* What a lost slot is in the history.
LEMMA LeftIs ==
    ASSUME AdmissionAssumption, AdmissionInv, NEW c \in Calls, NEW n \in Nat,
           lost' = Left(c, n)
    PROVE  /\ lost' \in [tenant : [Tenants -> Nat], cluster : Nat]
           /\ lost'.tenant = [lost.tenant EXCEPT ![TenantOf[c]]
                                = lost.tenant[TenantOf[c]] + 1]
           /\ lost'.cluster = lost.cluster + n
           /\ \A ph : Cared(ph, lost'.tenant)
<1>1. /\ TenantOf[c] \in Tenants
      /\ lost.tenant \in [Tenants -> Nat] /\ lost.cluster \in Nat
  BY Parts DEF AdmissionAssumption
<1>2. /\ lost'.tenant = [lost.tenant EXCEPT ![TenantOf[c]]
                           = lost.tenant[TenantOf[c]] + 1]
      /\ lost'.cluster = lost.cluster + n
      /\ lost' = [tenant |-> lost'.tenant, cluster |-> lost'.cluster]
  BY DEF Left
<1>3. lost'.tenant \in [Tenants -> Nat] /\ lost'.cluster \in Nat
  BY <1>1, <1>2
<1>4. lost'.tenant[TenantOf[c]] # 0
  BY <1>1, <1>2
<1> QED
  BY <1>1, <1>2, <1>3, <1>4 DEF Cared

LEMMA CancelAtClusterStep ==
    ASSUME AdmissionAssumption, AdmissionInv, NEW c \in Calls, CancelAtCluster(c)
    PROVE  StepGoal
<1>1. /\ phase[c] = "cluster" /\ phase' = [phase EXCEPT ![c] = "idle"]
      /\ active' = active /\ waiters' = waiters
      /\ toolQueue' = toolQueue /\ returning' = returning
  BY DEF CancelAtCluster
<1>2. PICK n \in {0, 1} :
        /\ lost' = Left(c, n)
        /\ \/ /\ n = 1 /\ CanAcquire(cluster, ClusterLimit, ClusterDims)
              /\ cluster' = Acquired(cluster, ClusterDims)
           \/ n = 0 /\ cluster' = cluster
  BY DEF CancelAtCluster
<1>3. /\ n \in Nat /\ phase[c] \in HoldsSlot
      /\ phase[c] \notin HoldsCluster /\ phase[c] # "toolwait"
      /\ "idle" \notin HoldsCluster /\ "idle" \notin Working
  BY <1>1 DEF HoldsSlot, HoldsCluster, Working
<1>4. Moves(phase, phase', c) /\ phase'[c] = "idle"
  BY <1>1, Parts DEF Moves
<1>5. /\ lost' \in [tenant : [Tenants -> Nat], cluster : Nat]
      /\ lost'.tenant = [lost.tenant EXCEPT ![TenantOf[c]]
                           = lost.tenant[TenantOf[c]] + 1]
      /\ lost'.cluster = lost.cluster + n
      /\ Cared(phase', lost'.tenant)
  BY <1>2, <1>3, LeftIs
<1>6. Fits(phase', active, lost'.tenant)
  <2>1. Fits([phase EXCEPT ![c] = "idle"], active,
             [lost.tenant EXCEPT ![TenantOf[c]] = lost.tenant[TenantOf[c]] + 1])
    BY <1>1, <1>3, Parts, Lose
  <2> QED
    BY <1>1, <1>3, <1>5, <2>1
<1>7. ClusterFits(phase', cluster', returning, lost'.cluster)
  <2>1. CASE /\ n = 1 /\ CanAcquire(cluster, ClusterLimit, ClusterDims)
             /\ cluster' = Acquired(cluster, ClusterDims)
    BY <1>3, <1>4, <1>5, <2>1, Parts, ClusterTaken
  <2>2. CASE n = 0 /\ cluster' = cluster
    <3>1. lost'.cluster = lost.cluster
      BY <1>5, <2>2, Parts
    <3> QED
      BY <1>3, <1>4, <2>2, <3>1, Parts, ClusterKept
  <2> QED
    BY <1>2, <2>1, <2>2
<1>8. ToolFits(phase', toolQueue)
  BY <1>3, <1>4, Parts, ToolKept
<1> QED
  BY <1>1, <1>5, <1>6, <1>7, <1>8, Parts, FromParts, NoSlotMore DEF StepGoal

LEMMA CancelAtToolStep ==
    ASSUME AdmissionAssumption, AdmissionInv, NEW c \in Calls, CancelAtTool(c)
    PROVE  StepGoal
<1>1. /\ phase[c] = "toolwait" /\ phase' = [phase EXCEPT ![c] = "idle"]
      /\ toolQueue' = RemoveFirst(toolQueue, c) /\ lost' = Left(c, 1)
      /\ active' = active /\ waiters' = waiters
      /\ cluster' = cluster /\ returning' = returning
  BY DEF CancelAtTool
<1>2. /\ 1 \in Nat /\ phase[c] \in HoldsSlot /\ phase[c] \in HoldsCluster
      /\ "idle" \notin HoldsCluster /\ "idle" \notin Working
  BY <1>1 DEF HoldsSlot, HoldsCluster, Working
<1>3. Moves(phase, phase', c) /\ phase'[c] = "idle"
  BY <1>1, Parts DEF Moves
<1>4. /\ lost' \in [tenant : [Tenants -> Nat], cluster : Nat]
      /\ lost'.tenant = [lost.tenant EXCEPT ![TenantOf[c]]
                           = lost.tenant[TenantOf[c]] + 1]
      /\ lost'.cluster = lost.cluster + 1
      /\ Cared(phase', lost'.tenant)
  BY <1>1, <1>2, LeftIs
<1>5. Fits(phase', active, lost'.tenant)
  <2>1. Fits([phase EXCEPT ![c] = "idle"], active,
             [lost.tenant EXCEPT ![TenantOf[c]] = lost.tenant[TenantOf[c]] + 1])
    BY <1>1, <1>2, Parts, Lose
  <2> QED
    BY <1>1, <1>2, <1>4, <2>1
<1>6. ClusterFits(phase', cluster, returning, lost'.cluster)
  <2>1. ClusterFits(phase', cluster, returning, lost.cluster + 1)
    BY <1>2, <1>3, Parts, ClusterLeft
  <2> QED
    BY <1>4, <2>1
<1>7. ToolFits(phase', toolQueue')
  BY <1>1, <1>2, <1>3, Parts, ToolLeft
<1> QED
  BY <1>1, <1>4, <1>5, <1>6, <1>7, Parts, FromParts, NoSlotMore DEF StepGoal

LEMMA DetachStep ==
    ASSUME AdmissionAssumption, AdmissionInv, NEW c \in Calls, Detach(c)
    PROVE  StepGoal
<1>1. /\ phase[c] = "running" /\ phase' = [phase EXCEPT ![c] = "detached"]
      /\ active' = active /\ waiters' = waiters /\ toolQueue' = toolQueue
      /\ cluster' = cluster /\ returning' = returning /\ lost' = lost
  BY DEF Detach
<1>2. /\ "detached" \in Phases /\ "detached" \in HoldsSlot
      /\ "detached" \in HoldsCluster
      /\ phase[c] \in HoldsSlot /\ phase[c] \in HoldsCluster
      /\ phase[c] \in Working /\ phase[c] # "toolwait" /\ "detached" # "pending"
  BY <1>1 DEF Phases, HoldsSlot, HoldsCluster, Working
<1>3. Moves(phase, phase', c) /\ phase'[c] = "detached"
  BY <1>1, Parts DEF Moves
<1>4. Fits(phase', active, lost.tenant)
  BY <1>1, <1>2, Parts, Relabel
<1>5. ClusterFits(phase', cluster, returning, lost.cluster)
      /\ ToolFits(phase', toolQueue)
  BY <1>2, <1>3, Parts, ClusterKept, ToolKept
<1>6. Cared(phase', lost.tenant)
  BY <1>1, <1>2, Parts, StillCared
<1> QED
  BY <1>1, <1>4, <1>5, <1>6, Parts, FromParts, NoSlotMore DEF StepGoal

LEMMA WorkDoneStep ==
    ASSUME AdmissionAssumption, AdmissionInv, NEW c \in Calls, WorkDone(c)
    PROVE  StepGoal
<1> DEFINE ph == PassToolSlot(c)
           alone == [phase EXCEPT ![c] = "idle"]
<1>1. /\ phase[c] \in Working /\ Release(TenantOf[c], ph)
      /\ toolQueue' = IF toolQueue = <<>> THEN <<>> ELSE Tail(toolQueue)
      /\ returning' = returning + Cardinality(ClusterDims)
      /\ cluster' = cluster /\ lost' = lost
  BY DEF WorkDone
<1>2. /\ "idle" \in Phases /\ "idle" \notin HoldsSlot
      /\ "idle" \notin HoldsCluster /\ "idle" \notin Working
      /\ phase[c] \in HoldsSlot /\ phase[c] \in HoldsCluster
      /\ phase[c] # "toolwait" /\ TenantOf[c] \in Tenants
  BY <1>1 DEF Phases, HoldsSlot, HoldsCluster, Working, AdmissionAssumption
<1>3. /\ Moves(phase, alone, c) /\ alone[c] = "idle"
      /\ alone \in [Calls -> Phases]
  BY <1>2, Parts DEF Moves
<1>4. Fits(alone, Less(active, TenantOf[c]), lost.tenant)
  BY <1>2, Parts, GiveBack
<1> HIDE DEF alone
<1>5. ClusterFits(alone, cluster, returning', lost.cluster)
  BY <1>1, <1>2, <1>3, Parts, ClusterLeft
<1>6. /\ Fits(ph, Less(active, TenantOf[c]), lost.tenant)
      /\ ClusterFits(ph, cluster, returning', lost.cluster)
      /\ ToolFits(ph, toolQueue')
      /\ ph \in [Calls -> Phases]
  <2>1. CASE toolQueue = <<>>
    <3>1. ph = alone /\ toolQueue' = toolQueue
      BY <1>1, <2>1 DEF PassToolSlot, alone
    <3>2. ToolFits(alone, toolQueue)
      BY <1>2, <1>3, Parts, ToolKept
    <3> QED
      BY <1>3, <1>4, <1>5, <3>1, <3>2
  <2>2. CASE toolQueue # <<>>
    <3> DEFINE h == Head(toolQueue)
    <3>1. ph = [alone EXCEPT ![h] = "running"] /\ toolQueue' = Tail(toolQueue)
      BY <1>1, <2>2 DEF PassToolSlot, alone
    <3> HIDE DEF ph
    <3>2. Moves(alone, ph, h)
      BY <1>3, <3>1 DEF Moves
    <3>3. /\ h \in Calls /\ phase[h] = "toolwait" /\ h # c
          /\ ToolFits(ph, Tail(toolQueue))
      BY <1>1, <1>3, <2>2, <3>2, Parts, ToolPassed
    <3> HIDE DEF h
    <3>4. alone[h] = "toolwait" /\ ph[h] = "running"
      BY <1>3, <3>1, <3>3 DEF Moves
    <3>5. /\ "running" \in Phases /\ "running" \in HoldsSlot
          /\ "running" \in HoldsCluster
          /\ alone[h] \in HoldsSlot /\ alone[h] \in HoldsCluster
      BY <3>4 DEF Phases, HoldsSlot, HoldsCluster
    <3>6. Fits(ph, Less(active, TenantOf[c]), lost.tenant)
      BY <1>4, <3>1, <3>3, <3>5, Relabel
    <3>7. ClusterFits(ph, cluster, returning', lost.cluster)
      BY <1>5, <3>2, <3>3, <3>4, <3>5, ClusterKept
    <3> QED
      BY <3>1, <3>3, <3>6, <3>7 DEF Fits
  <2> QED
    BY <2>1, <2>2
<1> HIDE DEF ph
<1>7. /\ Fits(phase', active', lost.tenant)
      /\ waiters' \in Seq(Calls)
      /\ Cared(phase', lost.tenant)
      /\ Reserved(active, active', phase')
      /\ \/ phase' = ph
         \/ \E d \in Calls : /\ ph[d] = "pending"
                             /\ phase' = [ph EXCEPT ![d] = "granted"]
  BY <1>1, <1>2, <1>6, Parts, HandOver
<1>8. ClusterFits(phase', cluster, returning', lost.cluster)
      /\ ToolFits(phase', toolQueue')
  BY <1>6, <1>7, HandOverElsewhere
<1> QED
  BY <1>1, <1>7, <1>8, Parts, FromParts DEF StepGoal

LEMMA ReturnClusterStep ==
    ASSUME AdmissionAssumption, AdmissionInv, ReturnCluster
    PROVE  StepGoal
<1>1. /\ returning > 0 /\ returning' = returning - 1
      /\ cluster' = Released(cluster, ClusterDims)
      /\ phase' = phase /\ active' = active /\ waiters' = waiters
      /\ toolQueue' = toolQueue /\ lost' = lost
  BY DEF ReturnCluster
<1>2. ClusterFits(phase', cluster', returning', lost.cluster)
  BY <1>1, Parts, ClusterReturned
<1> QED
  BY <1>1, <1>2, Parts, FromParts, NoSlotMore DEF StepGoal

LEMMA AdmissionStep ==
    ASSUME AdmissionAssumption, AdmissionInv, Next
    PROVE  StepGoal
  BY AcquireStep, WaiterStep, GiveBackStep, ClusterGrantedStep,
     CancelAtClusterStep, CancelAtToolStep, DetachStep, WorkDoneStep,
     ReturnClusterStep
  DEF Next

LEMMA AdmissionInit ==
    ASSUME AdmissionAssumption, Init
    PROVE  AdmissionInv
<1>1. /\ phase = [c \in Calls |-> "idle"] /\ active = [t \in Tenants |-> 0]
      /\ waiters = <<>> /\ toolQueue = <<>>
      /\ cluster = [d \in ClusterDims |-> 0] /\ returning = 0
      /\ lost = [tenant |-> [t \in Tenants |-> 0], cluster |-> 0]
      /\ Global \in Nat /\ ToolSlots \in Nat
  BY DEF Init, AdmissionAssumption
<1>2. phase \in [Calls -> Phases] /\ active \in SlotCounts
      /\ lost \in [tenant : [Tenants -> Nat], cluster : Nat]
  BY <1>1 DEF Phases, SlotCounts
<1>3. ASSUME NEW X \in SUBSET Calls, NEW S, "idle" \notin S
      PROVE  N(phase, X, S) = 0
  <2>1. ~(\E c \in X : phase[c] \in S)
    BY <1>1, <1>3
  <2> QED
    BY <2>1, CountPositive
<1>4. Total(active) = 0
  <2>1. SlotsOf(active) = {}
    BY <1>1 DEF SlotsOf
  <2> QED
    BY <2>1, FS_EmptySet DEF Total
<1>5. N(phase, Calls, HoldsSlot) = 0 /\ N(phase, Calls, HoldsCluster) = 0
      /\ N(phase, Calls, Working) = 0
  BY <1>3 DEF HoldsSlot, HoldsCluster, Working
<1>6. Fits(phase, active, lost.tenant)
  <2>1. ASSUME NEW t \in Tenants
        PROVE  active[t] = lost.tenant[t] + N(phase, CallsOf(t), HoldsSlot)
    <3>1. CallsOf(t) \in SUBSET Calls /\ "idle" \notin HoldsSlot
      BY DEF CallsOf, HoldsSlot
    <3>2. N(phase, CallsOf(t), HoldsSlot) = 0
      BY <1>3, <3>1
    <3> QED
      BY <1>1, <3>2
  <2>2. lost.tenant \in [Tenants -> Nat]
    BY <1>2
  <2> QED
    BY <1>1, <1>2, <1>4, <1>5, <2>1, <2>2 DEF Fits
<1>7. ClusterFits(phase, cluster, returning, lost.cluster)
  <2>1. cluster \in [ClusterDims -> 0..ClusterCapacity]
    BY <1>1, DimsAre
  <2> QED
    BY <1>1, <1>5, <2>1 DEF ClusterFits
<1>8. ToolFits(phase, toolQueue)
  BY <1>1, <1>5 DEF ToolFits, Distinct
<1>9. NobodyWaitsOnAnEmptyPool
  BY <1>1 DEF NobodyWaitsOnAnEmptyPool, Pending
<1> QED
  BY <1>1, <1>2, <1>6, <1>7, <1>8, <1>9 DEF AdmissionInv

-----------------------------------------------------------------------------
(* The results.                                                            *)

\* The invariant the others rest on: the limiter's counts, the counter row, the
\* semaphore and its queue fit the phases of the calls in every state.
THEOREM AdmissionInvariant == Spec => []AdmissionInv
<1>1. Init => AdmissionInv
  BY AdmissionInit, AdmissionAssumption
<1>2. AdmissionInv /\ [Next]_vars => AdmissionInv'
  <2>1. ASSUME AdmissionInv, Next
        PROVE  AdmissionInv'
    BY <2>1, AdmissionAssumption, AdmissionStep DEF StepGoal
  <2>2. ASSUME AdmissionInv, UNCHANGED vars
        PROVE  AdmissionInv'
    BY <2>2, Parts, FromParts DEF vars
  <2> QED
    BY <2>1, <2>2
<1> QED
  BY <1>1, <1>2, PTL DEF Spec

\* Every variable keeps its type: no tenant's count leaves 0..Global and the
\* counter row never exceeds its capacity, for any capacities.
THEOREM AdmissionTypeCorrect == Spec => []TypeOK
<1>1. AdmissionInv => TypeOK
  <2>1. ASSUME AdmissionInv
        PROVE  TypeOK
    BY <2>1, Parts DEF TypeOK, SlotCounts, ClusterFits, ToolFits
  <2> QED
    BY <2>1
<1> QED
  BY <1>1, AdmissionInvariant, PTL

\* Every limiter slot and every cluster slot in use belongs to a call that will
\* give it back, to a return under way, or to a caller cancelled at one of the
\* two awaits where execute_tool leaves it behind; and neither the process's
\* capacity nor the tool semaphore's is ever exceeded.
THEOREM SlotsAreAccounted == Spec => []SlotsAccounted
<1>1. AdmissionInv => SlotsAccounted
  <2>1. SUFFICES ASSUME AdmissionInv
                 PROVE  SlotsAccounted
    OBVIOUS
  <2>2. /\ Fits(phase, active, lost.tenant) /\ ToolFits(phase, toolQueue)
        /\ ClusterFits(phase, cluster, returning, lost.cluster)
    BY <2>1, Parts
  <2>3. ASSUME NEW t \in Tenants
        PROVE  active[t] = lost.tenant[t]
                 + Cardinality({c \in InPhase(HoldsSlot) : TenantOf[c] = t})
    <3>1. active[t] = lost.tenant[t] + N(phase, CallsOf(t), HoldsSlot)
      BY <2>2 DEF Fits
    <3>2. {c \in InPhase(HoldsSlot) : TenantOf[c] = t}
            = {c \in CallsOf(t) : phase[c] \in HoldsSlot}
      BY DEF InPhase, CallsOf
    <3> QED
      BY <3>1, <3>2 DEF N
  <2>4. \A d \in ClusterDims :
          cluster[d] = lost.cluster + returning + Cardinality(InPhase(HoldsCluster))
    BY <2>2 DEF ClusterFits, N, InPhase
  <2>5. N(phase, Calls, HoldsSlot) <= Global
    <3>1. /\ N(phase, Calls, HoldsSlot) <= Total(active)
          /\ Total(active) <= Global /\ active \in SlotCounts
      BY <2>2 DEF Fits
    <3>2. /\ N(phase, Calls, HoldsSlot) \in Nat /\ Total(active) \in Nat
          /\ Global \in Nat
      BY <3>1, AdmissionAssumption, CountPositive, TotalBounds
      DEF AdmissionAssumption
    <3> QED
      BY <3>1, <3>2
  <2>6. N(phase, Calls, Working) <= ToolSlots
    BY <2>2 DEF ToolFits
  <2> QED
    BY <2>3, <2>4, <2>5, <2>6 DEF SlotsAccounted, InPhase, N
<1> QED
  BY <1>1, AdmissionInvariant, PTL

\* While calls wait in the limiter and no slot was lost, some call holds a slot,
\* so a release that serves the queue is still to come.
THEOREM WaitersAreCaredFor == Spec => []NobodyWaitsOnAnEmptyPool
<1>1. AdmissionInv => NobodyWaitsOnAnEmptyPool
  BY DEF AdmissionInv
<1> QED
  BY <1>1, AdmissionInvariant, PTL

\* On the fast path and on hand-over alike, a tenant is given more than its
\* share only in a step after which no other tenant waits.
THEOREM ReserveIsKept == Spec => ReserveKept
<1>1. AdmissionInv /\ [Next]_vars
        => [\A t \in Tenants :
              active'[t] > active[t] /\ active'[t] > PerTenant
                => ~OthersWait(phase', t)]_vars
  <2>1. ASSUME AdmissionInv, Next
        PROVE  Reserved(active, active', phase')
    BY <2>1, AdmissionAssumption, AdmissionStep DEF StepGoal
  <2> QED
    BY <2>1 DEF Reserved
<1> QED
  BY <1>1, AdmissionInvariant, PTL DEF Spec, ReserveKept
=============================================================================
