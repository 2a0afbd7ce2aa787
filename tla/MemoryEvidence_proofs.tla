----------------------- MODULE MemoryEvidence_proofs -----------------------
(* Types, decisions and evidence of MemoryEvidence, for any number of      *)
(* candidates and builds and without its bounds on requests and faults.    *)
EXTENDS MemoryEvidence, FiniteSetTheorems, TLAPS

N == Cardinality(Candidates)

---------------------------------------------------------------------------
(* The inductive invariant, by the part of the state it is about.          *)

StateOK ==
    /\ candidate \in [Candidates -> {"pending", "confirmed", "dismissed"}]
    /\ memory \in [Memories -> {"absent", "active", "withdrawn"}]
    /\ by \in [Memories -> 0..N]
    /\ document \in [Memories -> Dead \cup {"none", "active", "index_superseded"}]
    /\ \A m \in Memories : memory[m] = "absent" => document[m] = "none"
    /\ rag \in BOOLEAN

\* A request that confirms has claimed its candidate, alone.
RequestsOK ==
    /\ \A r \in requests :
        /\ r.from \in Candidates \cup {None}
        /\ r.olds \subseteq Memories
        /\ r.new \in 0..N
        /\ r.from # None => candidate[r.from] = "pending"
    /\ \A r, q \in requests : r.from = q.from /\ r.from # None => r = q

\* A batch writes documents of confirmed memories only.
Batch == [cursor : Nat, upper : 0..N, docs : SUBSET Memories,
          witnesses : SUBSET Memories, failed : SUBSET Memories,
          retired : SUBSET Memories, checked : BOOLEAN]
MaintenanceOK ==
    /\ round \in [cursor : Nat, upper : 0..N]
    /\ round.cursor <= round.upper
    /\ waiting \subseteq Memories
    /\ batch # None =>
        /\ batch \in Batch
        /\ batch.cursor <= batch.upper
        /\ \A m \in batch.docs \cup batch.retired : memory[m] # "absent"

\* A build that was noticed is invalid.
EvidenceOK ==
    /\ build \in [Builds -> [items : SUBSET Memories, valid : BOOLEAN] \cup {None}]
    /\ cited \in [Builds -> SUBSET Memories]
    /\ noticed \subseteq Builds
    /\ \A b \in noticed : build[b] # None /\ build[b].valid = FALSE

MemoryInv == StateOK /\ RequestsOK /\ MaintenanceOK /\ EvidenceOK

---------------------------------------------------------------------------
\* Memories are finitely many, and those confirmed are no more than all.
LEMMA Counts ==
    /\ N \in Nat /\ Memories = 1..N
    /\ Cardinality(Confirmed) \in 0..N
<1>1. N \in Nat
  BY MemoryAssumption, FS_CardinalityType DEF N
<1>2. IsFiniteSet(Memories) /\ Cardinality(Memories) = N
  BY <1>1, FS_Interval DEF Memories, N
<1>3. Cardinality(Confirmed) \in Nat /\ Cardinality(Confirmed) <= N
  BY <1>2, FS_Subset, FS_CardinalityType DEF Confirmed
<1> QED
  BY <1>1, <1>3 DEF Memories, N

LEMMA InvInit == Init => MemoryInv
<1> SUFFICES ASSUME Init PROVE MemoryInv
  OBVIOUS
<1>1. StateOK
  BY Counts DEF Init, StateOK
<1>2. RequestsOK
  BY DEF Init, RequestsOK
<1>3. MaintenanceOK
  BY Counts DEF Init, MaintenanceOK
<1>4. EvidenceOK
  BY DEF Init, EvidenceOK
<1> QED
  BY <1>1, <1>2, <1>3, <1>4 DEF MemoryInv

---------------------------------------------------------------------------
(* The commands of the author.                                             *)

\* What is tombstoned or invalidated keeps its type, and what is absent stays.
LEMMA DocumentsKept ==
    ASSUME StateOK, NEW ms
    PROVE  /\ Tombstoned(document, ms) \in [Memories -> Dead \cup {"none", "active", "index_superseded"}]
           /\ Invalidated(document, ms) \in [Memories -> Dead \cup {"none", "active", "index_superseded"}]
           /\ \A m \in Memories : document[m] = "none" =>
                 /\ Tombstoned(document, ms)[m] = "none"
                 /\ Invalidated(document, ms)[m] = "none"
  BY DEF StateOK, Tombstoned, Invalidated, Dead

\* The state of candidates, memories and documents keeps its type, and what was
\* confirmed stays.
LEMMA StateStep ==
    ASSUME MemoryInv, [Next]_vars
    PROVE  StateOK' /\ \A m \in Memories : memory[m] # "absent" => memory'[m] # "absent"
<1> DEFINE Goal == StateOK' /\ \A m \in Memories : memory[m] # "absent" => memory'[m] # "absent"
<1> USE DEF MemoryInv
<1>0. UNCHANGED <<state, rag>> => Goal
  BY DEF StateOK, state
<1>1. ASSUME NEW r \in requests, ConfirmCommit(r) PROVE Goal
  <2> DEFINE new == Cardinality(Confirmed) + 1
  <2>1. r.from \in Candidates /\ new \in 1..N /\ new \in Memories
    BY <1>1, Counts DEF ConfirmCommit, RequestsOK
  <2>2. candidate' \in [Candidates -> {"pending", "confirmed", "dismissed"}]
    BY <1>1 DEF ConfirmCommit, StateOK
  <2>3. memory' = [memory EXCEPT ![new] = "active"]
    BY <1>1 DEF ConfirmCommit
  <2>4. by' \in [Memories -> 0..N]
    BY <1>1, <2>1, Counts DEF ConfirmCommit, StateOK
  <2>5. document' = [Tombstoned(document, r.olds) EXCEPT
                       ![new] = IF rag THEN "active" ELSE "none"]
    BY <1>1 DEF ConfirmCommit
  <2>6. document' \in [Memories -> Dead \cup {"none", "active", "index_superseded"}]
    BY <2>5, DocumentsKept
  <2>7. \A m \in Memories : memory'[m] = "absent" => document'[m] = "none"
    BY <2>1, <2>3, <2>5, DocumentsKept DEF StateOK
  <2>8. memory' \in [Memories -> {"absent", "active", "withdrawn"}]
    BY <2>3 DEF StateOK
  <2>9. rag' \in BOOLEAN
    BY <1>1 DEF ConfirmCommit, StateOK
  <2>10. \A m \in Memories : memory[m] # "absent" => memory'[m] # "absent"
    BY <2>3 DEF StateOK
  <2> QED
    BY <2>2, <2>4, <2>6, <2>7, <2>8, <2>9, <2>10 DEF StateOK
<1>2. ASSUME NEW c \in Candidates, Dismiss(c) PROVE Goal
  BY <1>2 DEF Dismiss, StateOK
<1>3. ASSUME NEW r \in requests, SupersedeCommit(r) PROVE Goal
  <2>1. by' \in [Memories -> 0..N]
    BY <1>3 DEF SupersedeCommit, StateOK, RequestsOK
  <2> QED
    BY <1>3, <2>1, DocumentsKept DEF SupersedeCommit, StateOK
<1>4. ASSUME NEW m \in Memories, Restore(m) PROVE Goal
  <2>1. by' \in [Memories -> 0..N]
    BY <1>4, Counts DEF Restore, StateOK
  <2>2. document' \in [Memories -> Dead \cup {"none", "active", "index_superseded"}]
    BY <1>4 DEF Restore, StateOK
  <2>3. \A k \in Memories : memory'[k] = "absent" => document'[k] = "none"
    BY <1>4 DEF Restore, StateOK, Live
  <2> QED
    BY <1>4, <2>1, <2>2, <2>3 DEF Restore, StateOK
<1>5. ASSUME NEW ms, Withdraw(ms) PROVE Goal
  <2>1. memory' \in [Memories -> {"absent", "active", "withdrawn"}]
    BY <1>5 DEF Withdraw, StateOK
  <2>2. \A m \in Memories : memory'[m] = "absent" => memory[m] = "absent"
    BY <1>5 DEF Withdraw
  <2>3. \A m \in Memories : memory[m] # "absent" => memory'[m] # "absent"
    BY <2>2
  <2> QED
    BY <1>5, <2>1, <2>2, <2>3, DocumentsKept DEF Withdraw, StateOK
<1>6. ASSUME Toggle PROVE Goal
  BY <1>6 DEF Toggle, StateOK, state
<1>7. ASSUME BatchCommit PROVE Goal
  <2>1. batch \in Batch /\ \A m \in batch.docs \cup batch.retired : memory[m] # "absent"
    BY <1>7 DEF BatchCommit, MaintenanceOK
  <2>2. document' \in [Memories -> Dead \cup {"none", "active", "index_superseded"}]
    BY <1>7 DEF BatchCommit, StateOK, Written, Dead
  <2>3. \A m \in Memories : memory[m] = "absent" => document'[m] = "none"
    BY <1>7, <2>1 DEF BatchCommit, StateOK, Written
  <2> QED
    BY <1>7, <2>2, <2>3 DEF BatchCommit, StateOK
<1>8. CASE UNCHANGED vars
  BY <1>0, <1>8 DEF vars
<1>9. CASE User
  <2>1. ASSUME NEW c \in Candidates, NEW olds \in SUBSET Memories, ConfirmBegin(c, olds)
        PROVE  Goal
    BY <1>0, <2>1 DEF ConfirmBegin
  <2>2. ASSUME NEW old \in Memories, NEW new \in Memories, SupersedeBegin(old, new)
        PROVE  Goal
    BY <1>0, <2>2 DEF SupersedeBegin
  <2>3. ASSUME NEW r \in requests, Abort(r) PROVE Goal
    BY <1>0, <2>3 DEF Abort
  <2> QED
    BY <1>9, <1>1, <1>2, <1>3, <1>4, <1>5, <1>6, <2>1, <2>2, <2>3
    DEF User, Delete, ExpireDue
<1>10. CASE Maintenance
  <2>1. ~BatchCommit => UNCHANGED <<state, rag>>
    BY <1>10 DEF Maintenance, BatchBegin, ScanSkip, ScanIndex, ScanFail, BatchCheck,
       BatchReject, BatchCrash, RetryDue
  <2> QED
    BY <1>0, <1>7, <2>1
<1>11. CASE Answers
  BY <1>0, <1>11 DEF Answers, BuildContext, Replay, Cite
<1> QED
  BY <1>8, <1>9, <1>10, <1>11 DEF Next

\* A candidate is decided only by the request that holds it, so the claims of the
\* others stand.
LEMMA RequestsStep ==
    ASSUME MemoryInv, [Next]_vars
    PROVE  /\ RequestsOK'
           /\ \A c \in Candidates :
                candidate[c] # "pending" => candidate'[c] = candidate[c]
<1> DEFINE Goal == /\ RequestsOK'
                   /\ \A c \in Candidates :
                        candidate[c] # "pending" => candidate'[c] = candidate[c]
<1> USE DEF MemoryInv
<1>0. UNCHANGED <<candidate, requests>> => Goal
  BY DEF RequestsOK
<1>1. ASSUME NEW c \in Candidates, NEW olds \in SUBSET Memories, ConfirmBegin(c, olds)
      PROVE  Goal
  <2> DEFINE r == [from |-> c, olds |-> olds, new |-> 0]
  <2>1. requests' = requests \cup {r} /\ candidate' = candidate
    BY <1>1 DEF ConfirmBegin, state
  <2>2. candidate[c] = "pending" /\ \A q \in requests : q.from # c
    BY <1>1 DEF ConfirmBegin, Claimable
  <2>3. r.from = c /\ r.olds = olds /\ r.new = 0 /\ 0 \in 0..N
    BY Counts
  <2>4. \A q \in requests' : q \in requests \/ q = r
    BY <2>1
  <2> HIDE DEF r
  <2>5. \A q \in requests' :
            /\ q.from \in Candidates \cup {None}
            /\ q.olds \subseteq Memories
            /\ q.new \in 0..N
            /\ q.from # None => candidate'[q.from] = "pending"
    BY <2>1, <2>2, <2>3, <2>4 DEF RequestsOK
  <2>6. \A p, q \in requests' : p.from = q.from /\ p.from # None => p = q
    BY <2>2, <2>3, <2>4 DEF RequestsOK
  <2>7. RequestsOK'
    BY <2>5, <2>6 DEF RequestsOK
  <2> QED
    BY <2>1, <2>7
<1>2. ASSUME NEW r \in requests, ConfirmCommit(r) PROVE Goal
  <2>1. /\ requests' = requests \ {r}
        /\ candidate' = [candidate EXCEPT ![r.from] = "confirmed"]
        /\ r.from \in Candidates /\ candidate[r.from] = "pending"
    BY <1>2 DEF ConfirmCommit, RequestsOK
  <2>2. \A q \in requests' : q.from # r.from
    BY <1>2, <2>1 DEF ConfirmCommit, RequestsOK
  <2> QED
    BY <2>1, <2>2 DEF RequestsOK, StateOK
<1>3. ASSUME NEW c \in Candidates, Dismiss(c) PROVE Goal
  <2>1. /\ requests' = requests /\ candidate' = [candidate EXCEPT ![c] = "dismissed"]
        /\ candidate[c] = "pending" /\ \A q \in requests : q.from # c
    BY <1>3 DEF Dismiss, Claimable
  <2> QED
    BY <2>1 DEF RequestsOK, StateOK
<1>4. ASSUME NEW old \in Memories, NEW new \in Memories, SupersedeBegin(old, new)
      PROVE  Goal
  <2> DEFINE r == [from |-> None, olds |-> {old}, new |-> new]
  <2>1. requests' = requests \cup {r} /\ candidate' = candidate
    BY <1>4 DEF SupersedeBegin, state
  <2> QED
    BY <2>1, Counts DEF RequestsOK
<1>5. ASSUME NEW r \in requests, SupersedeCommit(r) \/ Abort(r) PROVE Goal
  <2>1. requests' = requests \ {r} /\ candidate' = candidate
    BY <1>5 DEF SupersedeCommit, Abort, state
  <2> QED
    BY <2>1 DEF RequestsOK
<1>6. CASE UNCHANGED vars
  BY <1>0, <1>6 DEF vars, state
<1>7. CASE User
  <2>1. (\E m \in Memories : Restore(m) \/ Delete(m)) \/ ExpireDue \/ Toggle
            => UNCHANGED <<candidate, requests>>
    BY DEF Restore, Delete, ExpireDue, Withdraw, Toggle, state
  <2> QED
    BY <1>0, <1>1, <1>2, <1>3, <1>4, <1>5, <1>7, <2>1 DEF User
<1>8. CASE Maintenance
  BY <1>0, <1>8 DEF Maintenance, BatchBegin, ScanSkip, ScanIndex, ScanFail,
     BatchCheck, BatchReject, BatchCommit, BatchCrash, RetryDue, state
<1>9. CASE Answers
  BY <1>0, <1>9 DEF Answers, BuildContext, Replay, Cite, state
<1> QED
  BY <1>6, <1>7, <1>8, <1>9 DEF Next

---------------------------------------------------------------------------
\* The maintenance scans within its round and touches what is confirmed.
LEMMA MaintenanceStep ==
    ASSUME MemoryInv, [Next]_vars
    PROVE  MaintenanceOK'
<1> USE DEF MemoryInv
<1>a. \A m \in Memories : memory[m] # "absent" => memory'[m] # "absent"
  BY StateStep
<1>0. UNCHANGED maintenance => MaintenanceOK'
  BY <1>a DEF maintenance, MaintenanceOK, Batch
<1>1. ASSUME BatchBegin PROVE MaintenanceOK'
  <2>1. batch' = [cursor |-> round.cursor,
                  upper |-> IF round.upper = 0 THEN Cardinality(Confirmed)
                                               ELSE round.upper,
                  docs |-> {}, witnesses |-> {}, failed |-> {}, retired |-> {},
                  checked |-> FALSE]
    BY <1>1 DEF BatchBegin
  <2>2. UNCHANGED <<round, waiting>>
    BY <1>1 DEF BatchBegin
  <2> QED
    BY <2>1, <2>2, Counts DEF MaintenanceOK, Batch
<1>2. ASSUME Scanning PROVE Scanned \in Memories /\ Scanned \in Nat /\ Scanned <= batch.upper
  BY <1>2, Counts DEF Scanning, Scanned, MaintenanceOK, Batch
<1>3. ASSUME ScanSkip PROVE MaintenanceOK'
  <2>1. batch \in Batch /\ batch' = [batch EXCEPT !.cursor = Scanned] /\ Scanning
        /\ UNCHANGED <<round, waiting, memory>>
    BY <1>3 DEF ScanSkip, Scanning, MaintenanceOK, state
  <2> QED
    BY <1>2, <2>1 DEF MaintenanceOK, Batch, Scanning
<1>4. ASSUME ScanIndex PROVE MaintenanceOK'
  <2>1. /\ batch \in Batch /\ Scanning
        /\ batch' = [batch EXCEPT
                    !.cursor = Scanned,
                    !.witnesses = @ \cup {Scanned},
                    !.docs = IF document[Scanned] = "active" THEN @
                                                             ELSE @ \cup {Scanned}]
        /\ UNCHANGED <<round, waiting, memory>>
    BY <1>4 DEF ScanIndex, Scanning, MaintenanceOK, state
  <2>2. memory[Scanned] # "absent"
    BY <1>4 DEF ScanIndex, Current, Live
  <2> QED
    BY <1>2, <2>1, <2>2 DEF MaintenanceOK, Batch, Scanning
<1>5. ASSUME ScanFail PROVE MaintenanceOK'
  <2>1. /\ batch \in Batch /\ Scanning
        /\ batch' = [batch EXCEPT !.cursor = Scanned, !.failed = @ \cup {Scanned}]
        /\ UNCHANGED <<round, waiting, memory>>
    BY <1>5 DEF ScanFail, Scanning, MaintenanceOK, state
  <2> QED
    BY <1>2, <2>1 DEF MaintenanceOK, Batch, Scanning
<1>6. ASSUME BatchCheck PROVE MaintenanceOK'
  <2>1. /\ batch \in Batch /\ batch # None
        /\ batch' = [batch EXCEPT !.checked = TRUE, !.retired = Unreachable(Written)]
        /\ UNCHANGED <<round, waiting, memory>>
    BY <1>6 DEF BatchCheck, MaintenanceOK, state
  <2>2. \A m \in Unreachable(Written) : m \in Memories /\ memory[m] # "absent"
    BY <2>1 DEF Unreachable, Written, MaintenanceOK, StateOK
  <2> QED
    BY <2>1, <2>2 DEF MaintenanceOK, Batch
<1>7. ASSUME BatchReject \/ BatchCrash PROVE MaintenanceOK'
  BY <1>7 DEF BatchReject, BatchCrash, MaintenanceOK
<1>8. ASSUME BatchCommit PROVE MaintenanceOK'
  <2>1. batch \in Batch /\ batch.cursor <= batch.upper
    BY <1>8 DEF BatchCommit, MaintenanceOK
  <2>2. /\ batch' = None /\ waiting' = waiting \cup batch.failed
        /\ round' = Progress(batch)
    BY <1>8 DEF BatchCommit
  <2>3. round' \in [cursor : Nat, upper : 0..N] /\ round'.cursor <= round'.upper
    BY <2>1, <2>2, Counts DEF Progress, Batch
  <2> QED
    BY <2>1, <2>2, <2>3 DEF MaintenanceOK, Batch
<1>9. ASSUME NEW m \in Memories, RetryDue(m) PROVE MaintenanceOK'
  BY <1>9, <1>a DEF RetryDue, MaintenanceOK, Batch
<1>10. CASE UNCHANGED vars
  BY <1>0, <1>10 DEF vars
<1>11. CASE User
  BY <1>0, <1>11 DEF User, ConfirmBegin, ConfirmCommit, Dismiss, SupersedeBegin,
     SupersedeCommit, Abort, Restore, Delete, ExpireDue, Withdraw, Toggle
<1>12. CASE Maintenance
  BY <1>12, <1>1, <1>3, <1>4, <1>5, <1>6, <1>7, <1>8, <1>9 DEF Maintenance
<1>13. CASE Answers
  BY <1>0, <1>13 DEF Answers, BuildContext, Replay, Cite
<1> QED
  BY <1>10, <1>11, <1>12, <1>13 DEF Next

---------------------------------------------------------------------------
\* What was noticed stays noticed and invalid, and gets no further citation; what is
\* cited is live.
LEMMA EvidenceStep ==
    ASSUME MemoryInv, [Next]_vars
    PROVE  /\ EvidenceOK'
           /\ \A b \in noticed : cited'[b] = cited[b]
           /\ \A b \in Builds : cited'[b] \ cited[b] \subseteq Live
<1> DEFINE Goal == /\ EvidenceOK'
                   /\ \A b \in noticed : cited'[b] = cited[b]
                   /\ \A b \in Builds : cited'[b] \ cited[b] \subseteq Live
<1> USE DEF MemoryInv
<1>0. UNCHANGED evidence => Goal
  BY DEF evidence, EvidenceOK
<1>1. ASSUME NEW b \in Builds, BuildContext(b) PROVE Goal
  <2>1. build' = [build EXCEPT ![b] = [items |-> Hits, valid |-> TRUE]]
        /\ build[b] = None /\ UNCHANGED <<cited, noticed>>
    BY <1>1 DEF BuildContext
  <2>2. Hits \subseteq Memories
    BY DEF Hits, Current, Live
  <2>3. b \notin noticed
    BY <2>1 DEF EvidenceOK
  <2> QED
    BY <2>1, <2>2, <2>3 DEF EvidenceOK
<1>2. ASSUME NEW b \in Builds, build[b] # None,
             Invalidate(b, TRUE), noticed' = noticed \cup {b}
      PROVE  /\ build' \in [Builds -> [items : SUBSET Memories, valid : BOOLEAN] \cup {None}]
             /\ noticed' \subseteq Builds
             /\ \A d \in noticed' : build'[d] # None /\ build'[d].valid = FALSE
  <2>1. build[b] \in [items : SUBSET Memories, valid : BOOLEAN]
    BY <1>2 DEF EvidenceOK
  <2>2. build'[b] = [build[b] EXCEPT !.valid = FALSE]
    BY <1>2 DEF EvidenceOK, Invalidate
  <2>3. build'[b] \in [items : SUBSET Memories, valid : BOOLEAN] /\ build'[b].valid = FALSE
    BY <2>1, <2>2
  <2>4. \A d \in Builds \ {b} : build'[d] = build[d]
    BY <1>2 DEF EvidenceOK, Invalidate
  <2>5. build'[b] # None
    BY <2>3, MemoryAssumption
  <2>6. build' \in [Builds -> [items : SUBSET Memories, valid : BOOLEAN] \cup {None}]
    <3>1. build' = [d \in Builds |-> build'[d]]
      BY <1>2 DEF EvidenceOK, Invalidate
    <3>2. \A d \in Builds :
              build'[d] \in [items : SUBSET Memories, valid : BOOLEAN] \cup {None}
      BY <2>3, <2>4 DEF EvidenceOK
    <3> QED
      BY <3>1, <3>2
  <2> QED
    BY <1>2, <2>3, <2>4, <2>5, <2>6 DEF EvidenceOK
<1>3. ASSUME NEW b \in Builds, Replay(b) PROVE Goal
  <2>1. build[b] # None /\ Invalidate(b, TRUE) /\ noticed' = noticed \cup {b}
        /\ cited' = cited
    BY <1>3 DEF Replay
  <2> QED
    BY <1>2, <2>1 DEF EvidenceOK
<1>4. ASSUME NEW b \in Builds, NEW ms \in SUBSET Memories, NEW accepted \in BOOLEAN,
             Cite(b, ms, accepted)
      PROVE  Goal
  <2>1. /\ build[b] # None
        /\ cited' = IF accepted /\ Usable(b)
                      THEN [cited EXCEPT ![b] = @ \cup (ms \ Gone(ms))] ELSE cited
        /\ \/ Usable(b) /\ UNCHANGED <<build, noticed>>
           \/ Invalidate(b, TRUE) /\ noticed' = noticed \cup {b}
    BY <1>4 DEF Cite, Invalidate
  <2>2. ms \ Gone(ms) \subseteq Live /\ ms \ Gone(ms) \subseteq Memories
    BY DEF Gone, Readable, Live
  <2>3. cited' \in [Builds -> SUBSET Memories]
    BY <2>1, <2>2 DEF EvidenceOK
  <2>4. \A d \in Builds : cited'[d] \ cited[d] \subseteq Live
    BY <2>1, <2>2 DEF EvidenceOK
  <2>5. Usable(b) => b \notin noticed
    BY DEF Usable, EvidenceOK
  <2>6. \A d \in noticed : cited'[d] = cited[d]
    BY <2>1, <2>5 DEF EvidenceOK
  <2>7. EvidenceOK'
    BY <1>2, <2>1, <2>3 DEF EvidenceOK
  <2> QED
    BY <2>4, <2>6, <2>7
<1>5. CASE UNCHANGED vars
  BY <1>0, <1>5 DEF vars
<1>6. CASE User
  BY <1>0, <1>6 DEF User, ConfirmBegin, ConfirmCommit, Dismiss, SupersedeBegin,
     SupersedeCommit, Abort, Restore, Delete, ExpireDue, Withdraw, Toggle
<1>7. CASE Maintenance
  BY <1>0, <1>7 DEF Maintenance, BatchBegin, ScanSkip, ScanIndex, ScanFail,
     BatchCheck, BatchReject, BatchCommit, BatchCrash, RetryDue
<1>8. CASE Answers
  BY <1>1, <1>3, <1>4, <1>8 DEF Answers
<1> QED
  BY <1>5, <1>6, <1>7, <1>8 DEF Next

---------------------------------------------------------------------------
LEMMA MemoryInvStep == MemoryInv /\ [Next]_vars => MemoryInv'
  BY StateStep, RequestsStep, MaintenanceStep, EvidenceStep DEF MemoryInv

\* The invariant: claims are exclusive, batches stay among confirmed memories, and
\* what was noticed is invalid.
THEOREM MemoryInvariant == Spec => []MemoryInv
<1>1. Init => MemoryInv
  BY InvInit
<1>2. MemoryInv /\ [Next]_vars => MemoryInv'
  BY MemoryInvStep
<1> QED
  BY <1>1, <1>2, PTL DEF Spec

\* Types; and a memory has a document only once it was confirmed, though a batch
\* writes documents long after it read the memories (index_memory,
\* run_maintenance_batch).
THEOREM MemoryTypeCorrect == Spec => []TypeOK
<1>1. MemoryInv => TypeOK
  BY DEF MemoryInv, StateOK, MaintenanceOK, EvidenceOK, TypeOK, N
<1> QED
  BY <1>1, MemoryInvariant, PTL

\* A decision about a candidate is final (confirm_candidate, dismiss_candidate).
THEOREM DecidedForGood == Spec => DecidedOnce
<1>1. MemoryInv /\ [Next]_vars =>
        [\A c \in Candidates :
            candidate[c] # "pending" => candidate'[c] = candidate[c]]_vars
  BY RequestsStep
<1> QED
  BY <1>1, MemoryInvariant, PTL DEF Spec, DecidedOnce

\* A build the server found unusable is never cited from again (_replay,
\* _authenticate_citations, rollback_preserving_invalidation).
THEOREM FoundStaleIsNotCited == Spec => FoundStaleStaysStale
<1>1. MemoryInv /\ [Next]_vars => [\A b \in noticed : cited'[b] = cited[b]]_vars
  BY EvidenceStep
<1> QED
  BY <1>1, MemoryInvariant, PTL DEF Spec, FoundStaleStaysStale

\* An answer cites live memories only (read_exact_chunk).
THEOREM OnlyLiveIsCited == Spec => WithdrawnIsNotCited
<1>1. MemoryInv /\ [Next]_vars =>
        [\A b \in Builds : cited'[b] \ cited[b] \subseteq Live]_vars
  BY EvidenceStep
<1> QED
  BY <1>1, MemoryInvariant, PTL DEF Spec, WithdrawnIsNotCited
=============================================================================
