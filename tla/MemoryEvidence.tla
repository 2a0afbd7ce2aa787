--------------------------- MODULE MemoryEvidence ---------------------------
(***************************************************************************)
(* One author's memories, the documents they are retrieved by, and the     *)
(* evidence answers take from them (services/memory_rag.py,                *)
(* rag_maintenance.py, context_builder.py, agent_events.py).               *)
(*                                                                         *)
(* The database is PostgreSQL: a command reads what is committed, locks    *)
(* only the rows it writes, and there is no writer for the whole database. *)
(* Commands whose reads are acted on later have a step that begins them    *)
(* and one that commits.  A maintenance batch is one long transaction.     *)
(***************************************************************************)
EXTENDS Naturals, FiniteSets, FiniteSetsExt

CONSTANTS
    Candidates,     \* proposals of one author
    MaxRequests,    \* bound: transactions of the API in flight at once
    Builds,         \* contexts built, one for each attempt of a run
    None,
    MaxToggles,     \* bound: switches of the RAG feature
    MaxFaults,      \* bound: faults of the maintenance
    MaxRestores     \* bound: supersedings taken back

\* Memories are numbered in the order in which they are confirmed.
Memories == 1..Cardinality(Candidates)

ASSUME MemoryAssumption ==
    /\ IsFiniteSet(Candidates)
    /\ None \notin Candidates
    /\ {MaxRequests, MaxToggles, MaxFaults, MaxRestores} \subseteq Nat
    /\ None \notin [items : SUBSET Memories, valid : BOOLEAN]
\* How a document of a withdrawn memory ends; both take its chunks along, and
\* nothing brings such a document back.
Dead == {"source_invalidated", "source_retired"}

VARIABLES
    candidate,  \* "pending", "confirmed" or "dismissed"
    memory,     \* "absent", "active" or "withdrawn"
    by,         \* the memory that supersedes one, 0 for none
    document,   \* "none", "active", "index_superseded", or one of Dead
    requests,   \* the commands in flight
    round,      \* maintenance: where it is, and up to which memory it goes
    batch,      \* the batch in flight
    waiting,    \* memories whose index failed and is not yet retried
    rag,        \* whether RAG is enabled
    build,      \* the sources of a context, and whether it may still be used
    cited,      \* sources an answer has cited from a build
    noticed,    \* builds the server has found unusable
    toggles, faults, restores

state == <<candidate, memory, by, document>>
maintenance == <<round, batch, waiting>>
evidence == <<build, cited, noticed>>
counters == <<toggles, faults, restores>>
vars == <<state, requests, maintenance, rag, evidence, counters>>

Confirmed == {m \in Memories : memory[m] # "absent"}
Live == {m \in Memories : memory[m] = "active"}
Current == {m \in Live : by[m] = 0}

\* What a search may return.
Hits == {m \in Current : document[m] = "active"}
ReadableByDocument(m) == document[m] = "active"
\* Whether the chunk an answer refers to may still be read; the superseding
\* memory plays no part.
Readable(m) == document[m] = "active" /\ memory[m] = "active"

Init ==
    /\ candidate = [c \in Candidates |-> "pending"]
    /\ memory = [m \in Memories |-> "absent"]
    /\ by = [m \in Memories |-> 0]
    /\ document = [m \in Memories |-> "none"]
    /\ requests = {}
    /\ round = [cursor |-> 0, upper |-> 0]
    /\ batch = None
    /\ waiting = {}
    /\ rag = TRUE
    /\ build = [b \in Builds |-> None]
    /\ cited = [b \in Builds |-> {}]
    /\ noticed = {}
    /\ toggles = 0 /\ faults = 0 /\ restores = 0

---------------------------------------------------------------------------
(* The author's commands.                                                  *)

\* What is tombstoned with a memory, so that it can be brought back.
Tombstoned(doc, ms) ==
    [m \in Memories |->
        IF m \in ms /\ doc[m] = "active" THEN "index_superseded" ELSE doc[m]]
Invalidated(doc, ms) ==
    [m \in Memories |->
        IF m \in ms /\ doc[m] = "active" THEN "source_invalidated" ELSE doc[m]]

ClaimableUntilCommit(c) == candidate[c] = "pending"
\* A claim locks the candidate until its transaction ends.
Claimable(c) ==
    /\ candidate[c] = "pending"
    /\ \A r \in requests : r.from # c

\* A confirmation may name memories the new one supersedes.
ConfirmBegin(c, olds) ==
    /\ Cardinality(requests) < MaxRequests
    /\ Claimable(c)
    /\ olds \subseteq Current
    /\ requests' = requests \cup {[from |-> c, olds |-> olds, new |-> 0]}
    /\ UNCHANGED <<state, maintenance, rag, evidence, counters>>

ConfirmCommit(r) ==
    /\ r.from # None
    /\ LET new == Cardinality(Confirmed) + 1
           olds == r.olds
       IN /\ new \in Memories
          /\ candidate' = [candidate EXCEPT ![r.from] = "confirmed"]
          /\ memory' = [memory EXCEPT ![new] = "active"]
          /\ by' = [m \in Memories |-> IF m \in olds THEN new ELSE by[m]]
          /\ document' = [Tombstoned(document, olds) EXCEPT
                             ![new] = IF rag THEN "active" ELSE "none"]
    /\ requests' = requests \ {r}
    /\ UNCHANGED <<maintenance, rag, evidence, counters>>

Dismiss(c) ==
    /\ Claimable(c)
    /\ candidate' = [candidate EXCEPT ![c] = "dismissed"]
    /\ UNCHANGED <<memory, by, document, requests, maintenance, rag,
                   evidence, counters>>

SupersedeBegin(old, new) ==
    /\ Cardinality(requests) < MaxRequests
    /\ {old, new} \subseteq Live
    /\ new > old
    /\ by[old] = 0
    /\ requests' = requests \cup {[from |-> None, olds |-> {old}, new |-> new]}
    /\ UNCHANGED <<state, maintenance, rag, evidence, counters>>

SupersedeCommit(r) ==
    /\ r.from = None
    /\ by' = [m \in Memories |->
                IF m \in r.olds THEN r.new ELSE by[m]]
    /\ document' = Tombstoned(document, r.olds)
    /\ requests' = requests \ {r}
    /\ UNCHANGED <<candidate, memory, maintenance, rag, evidence,
                   counters>>

\* A request that fails, or loses its connection, leaves nothing.
Abort(r) ==
    /\ requests' = requests \ {r}
    /\ UNCHANGED <<state, maintenance, rag, evidence, counters>>

\* A document a batch writes is locked until the batch ends.
Locked(m) == batch # None /\ m \in batch.docs
Indexable(m) == document[m] \notin Dead

\* The index is part of the command: where it is refused, so is the command.
Restore(m) ==
    /\ restores < MaxRestores
    /\ restores' = restores + 1
    /\ m \in Live /\ by[m] # 0
    /\ rag => Indexable(m) /\ ~Locked(m)
    /\ by' = [by EXCEPT ![m] = 0]
    /\ document' = IF rag THEN [document EXCEPT ![m] = "active"] ELSE document
    /\ UNCHANGED <<candidate, memory, requests, maintenance, rag, evidence,
                   toggles, faults>>

\* What is deleted or revoked is never active again, and the revision revoke_memory
\* raises is never indexed: both are withdrawn here.
Withdraw(ms) ==
    /\ ms \subseteq Live
    /\ memory' = [m \in Memories |-> IF m \in ms THEN "withdrawn" ELSE memory[m]]
    /\ document' = Invalidated(document, ms)
    /\ UNCHANGED <<candidate, by, requests, maintenance, rag, evidence,
                   counters>>

Delete(m) == Withdraw({m})
\* Retention may be over for several; the next look at the list withdraws them.
ExpireDue == \E ms \in SUBSET Live : ms # {} /\ Withdraw(ms)

Toggle ==
    /\ toggles < MaxToggles
    /\ toggles' = toggles + 1
    /\ rag' = ~rag
    /\ UNCHANGED <<state, requests, maintenance, evidence, faults, restores>>

---------------------------------------------------------------------------
(* Maintenance: one transaction scans some memories, checks again what it  *)
(* has indexed, retires what can no longer be reached, and commits.        *)

BatchBegin ==
    /\ rag /\ batch = None /\ Confirmed # {}
    /\ batch' = [cursor |-> round.cursor,
                 upper |-> IF round.upper = 0 THEN Cardinality(Confirmed)
                                              ELSE round.upper,
                 docs |-> {}, witnesses |-> {}, failed |-> {}, retired |-> {},
                 checked |-> FALSE]
    /\ UNCHANGED <<state, requests, round, waiting, rag, evidence, counters>>

Scanning == batch # None /\ ~batch.checked /\ batch.cursor < batch.upper
Scanned == batch.cursor + 1

ScanSkip ==
    /\ Scanning
    /\ Scanned \in waiting \/ Scanned \notin Current
    /\ batch' = [batch EXCEPT !.cursor = Scanned]
    /\ UNCHANGED <<state, requests, round, waiting, rag, evidence, counters>>

ScanIndex ==
    /\ Scanning
    /\ Scanned \in Current \ waiting
    /\ Indexable(Scanned)
    /\ batch' = [batch EXCEPT
                    !.cursor = Scanned,
                    !.witnesses = @ \cup {Scanned},
                    !.docs = IF document[Scanned] = "active" THEN @
                                                             ELSE @ \cup {Scanned}]
    /\ UNCHANGED <<state, requests, round, waiting, rag, evidence, counters>>

ScanFail ==
    /\ Scanning
    /\ Scanned \in Current \ waiting
    /\ IF Indexable(Scanned)
         THEN faults < MaxFaults /\ faults' = faults + 1
         ELSE UNCHANGED faults
    /\ batch' = [batch EXCEPT !.cursor = Scanned, !.failed = @ \cup {Scanned}]
    /\ UNCHANGED <<state, requests, round, waiting, rag, evidence, toggles, restores>>

\* The documents as the batch sees them, with what it has written.
Written == [m \in Memories |-> IF batch # None /\ m \in batch.docs THEN "active"
                                                                   ELSE document[m]]
UnreachableWithdrawn(doc) == {m \in Memories : doc[m] = "active" /\ m \notin Live}
Unreachable(doc) == {m \in Memories : doc[m] = "active" /\ m \notin Current}
\* Whether a memory is still current is not asked again.
Validated ==
    /\ rag
    /\ \A m \in batch.witnesses : m \in Live /\ Written[m] = "active"

\* After any memory the time for a batch may be over.
BatchCheck ==
    /\ batch # None /\ ~batch.checked
    /\ batch.cursor > round.cursor
    /\ Validated
    /\ batch' = [batch EXCEPT !.checked = TRUE, !.retired = Unreachable(Written)]
    /\ UNCHANGED <<state, requests, round, waiting, rag, evidence, counters>>

BatchReject ==
    /\ batch # None /\ ~batch.checked
    /\ batch.cursor > round.cursor
    /\ ~Validated
    /\ batch' = None
    /\ UNCHANGED <<state, requests, round, waiting, rag, evidence, counters>>

ProgressKeepsCursor(b) ==
    [cursor |-> b.cursor, upper |-> IF b.cursor = b.upper THEN 0 ELSE b.upper]
\* A round ends with the memory that was the last when it began.
Progress(b) == IF b.cursor = b.upper THEN [cursor |-> 0, upper |-> 0]
                                     ELSE [cursor |-> b.cursor, upper |-> b.upper]

BatchCommit ==
    /\ batch # None /\ batch.checked
    /\ document' = [m \in Memories |->
                      IF m \in batch.retired THEN "source_retired" ELSE Written[m]]
    /\ waiting' = waiting \cup batch.failed
    /\ round' = Progress(batch)
    /\ batch' = None
    /\ UNCHANGED <<candidate, memory, by, requests, rag, evidence, counters>>

BatchCrash ==
    /\ batch # None
    /\ faults < MaxFaults
    /\ faults' = faults + 1
    /\ batch' = None
    /\ UNCHANGED <<state, requests, round, waiting, rag, evidence, toggles, restores>>

RetryDue(m) ==
    /\ m \in waiting
    /\ waiting' = waiting \ {m}
    /\ UNCHANGED <<state, requests, round, batch, rag, evidence, counters>>

---------------------------------------------------------------------------
(* Evidence: an attempt has one build; whatever uses it again asks for     *)
(* each source whether it may still be read.                               *)

\* Contexts without sources have nothing to cite and are left out.
BuildContext(b) ==
    /\ build[b] = None
    /\ rag /\ Hits # {}
    /\ build' = [build EXCEPT ![b] = [items |-> Hits, valid |-> TRUE]]
    /\ UNCHANGED <<state, requests, maintenance, rag, cited, noticed, counters>>

Gone(ms) == {m \in ms : ~Readable(m)}
Usable(b) == build[b].valid /\ rag
InvalidateWith(b, accepted) ==
    build' = IF accepted THEN [build EXCEPT ![b].valid = FALSE] ELSE build
\* A build that was found unusable stays so though the request is rolled back.
Invalidate(b, accepted) == build' = [build EXCEPT ![b].valid = FALSE]

\* The context is asked for again, as after a lost answer.
Replay(b) ==
    /\ build[b] # None
    /\ ~Usable(b) \/ Gone(build[b].items) # {}
    /\ Invalidate(b, TRUE)
    /\ noticed' = noticed \cup {b}
    /\ UNCHANGED <<state, requests, maintenance, rag, cited, counters>>

\* An answer that cites; other events of its batch may have the whole refused.
Cite(b, ms, accepted) ==
    /\ build[b] # None
    /\ ms \subseteq build[b].items /\ ms # {}
    /\ cited' = IF accepted /\ Usable(b)
                  THEN [cited EXCEPT ![b] = @ \cup (ms \ Gone(ms))] ELSE cited
    /\ IF Usable(b) /\ Gone(ms) = {}
         THEN UNCHANGED <<build, noticed>>
         ELSE Invalidate(b, accepted) /\ noticed' = noticed \cup {b}
    /\ UNCHANGED <<state, requests, maintenance, rag, counters>>

---------------------------------------------------------------------------
User ==
    \/ \E c \in Candidates, olds \in SUBSET Memories : ConfirmBegin(c, olds)
    \/ \E old, new \in Memories : SupersedeBegin(old, new)
    \/ \E r \in requests : ConfirmCommit(r) \/ SupersedeCommit(r) \/ Abort(r)
    \/ \E c \in Candidates : Dismiss(c)
    \/ \E m \in Memories : Restore(m) \/ Delete(m)
    \/ ExpireDue
    \/ Toggle

Maintenance ==
    \/ BatchBegin \/ ScanSkip \/ ScanIndex \/ ScanFail
    \/ BatchCheck \/ BatchReject \/ BatchCommit \/ BatchCrash
    \/ \E m \in Memories : RetryDue(m)

Answers ==
    \E b \in Builds :
        \/ BuildContext(b)
        \/ Replay(b)
        \/ \E ms \in SUBSET Memories, accepted \in BOOLEAN : Cite(b, ms, accepted)

Next == User \/ Maintenance \/ Answers

Spec == Init /\ [][Next]_vars

BatchRuns ==
    \/ BatchBegin \/ ScanSkip \/ ScanIndex \/ ScanFail
    \/ BatchCheck \/ BatchReject \/ BatchCommit
Fairness == WF_vars(BatchRuns) /\ \A m \in Memories : WF_vars(RetryDue(m))
FairSpec == Spec /\ Fairness

---------------------------------------------------------------------------
\* Type correctness of the state; a memory is active, and indexed, only once it
\* was confirmed (models Memory, MemoryCandidate, RAGDocument).
TypeOK ==
    /\ candidate \in [Candidates -> {"pending", "confirmed", "dismissed"}]
    /\ memory \in [Memories -> {"absent", "active", "withdrawn"}]
    /\ by \in [Memories -> 0..Cardinality(Candidates)]
    /\ document \in [Memories -> Dead \cup {"none", "active", "index_superseded"}]
    /\ \A m \in Memories : memory[m] = "absent" => document[m] = "none"
    /\ round.cursor <= round.upper
    /\ waiting \subseteq Memories
    /\ rag \in BOOLEAN
    /\ noticed \subseteq Builds

\* What the author decided of a candidate is not undone by a decision that was under
\* way: a candidate is confirmed once, or dismissed, or open (confirm_candidate,
\* dismiss_candidate).
DecidedOnce ==
    [][\A c \in Candidates :
        candidate[c] # "pending" => candidate'[c] = candidate[c]]_vars

\* Once the server has found that a build may not be used, no later answer cites
\* from it, though a source be restored, the feature be switched on again, or the
\* request in which it was found be refused (_replay, _authenticate_citations,
\* rollback_preserving_invalidation).
FoundStaleStaysStale ==
    [][\A b \in noticed : cited'[b] = cited[b]]_vars

\* An answer never cites a memory that its author has deleted or revoked, or whose
\* retention is over, not even between the end of the memory and the retirement of
\* a document a batch has just written for it (read_exact_chunk).
WithdrawnIsNotCited ==
    [][\A b \in Builds : cited'[b] \ cited[b] \subseteq Live]_vars

\* Once the author and the switches rest, maintenance gives every current memory its
\* document and takes away those of all others, except for documents that are dead
\* (run_maintenance_batch, retire_unreachable_documents).
IndexSettled ==
    \A m \in Memories :
        /\ m \in Current /\ Indexable(m) => document[m] = "active"
        /\ m \notin Current => document[m] # "active"
IndexSettles == <>[](rag => IndexSettled)

\* What the documentation of retire_unreachable_documents says: a superseding that
\* is taken back has the document built again.
CanBeRestored ==
    \A m \in Live : by[m] # 0 => document[m] \notin Dead
=============================================================================
