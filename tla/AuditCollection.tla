--------------------------- MODULE AuditCollection ---------------------------
(***************************************************************************)
(* The operator's collection of expired audit rows                         *)
(* (src/operator/audit-retention-gc-operator.mjs,                          *)
(* src/audit-retention-cleanup.mjs and the script of that name).  A run    *)
(* deletes the rows that had expired when it began, the oldest first, one  *)
(* transaction per batch, and notes every batch in a log before the next.  *)
(* Rows that have not expired are never chosen and are left out.           *)
(***************************************************************************)
EXTENDS Naturals, FiniteSets

CONSTANTS
  Collectors,      \* runs of the operator, which may overlap
  ExpiredRows,     \* number of rows that have expired, in the order of their age
  RowsPerBatch,    \* batchSize
  MaxBatches,      \* maxBatches of a run
  MaxGcFaults      \* bound: failing steps, answers that are lost, kills

ASSUME CollectionAssumption ==
  /\ ExpiredRows \in Nat /\ RowsPerBatch \in Nat \ {0} /\ MaxBatches \in Nat \ {0}
  /\ MaxGcFaults \in Nat

VARIABLES
  expiredRows,      \* rows in the table, as committed
  collector,    \* the process of each run
  purged,       \* rows each run has removed from the table
  gcLog,        \* what the operator log says of each run
  gcFaults

collectionVars == <<expiredRows, collector, purged, gcLog, gcFaults>>

Waiting == [at |-> "new", victims |-> {}, batches |-> 0, failed |-> FALSE]
NoEntry == [started |-> FALSE, deleted |-> 0, ended |-> "no"]

CollectionInit ==
  /\ expiredRows = 1..ExpiredRows
  /\ collector = [r \in Collectors |-> Waiting]
  /\ purged = [r \in Collectors |-> 0]
  /\ gcLog = [r \in Collectors |-> NoEntry]
  /\ gcFaults = 0

GcFault == gcFaults < MaxGcFaults /\ gcFaults' = gcFaults + 1
GcAt(r, step) == collector[r].at = step
GcGoto(r, step) == collector' = [collector EXCEPT ![r].at = step]

\* A failing step ends the loop; the end of the run is logged all the same.
GcFail(r) ==
  /\ GcFault
  /\ collector' = [collector EXCEPT ![r].at = "end", ![r].failed = TRUE]

\* Guards, attestation and free space are checked, and the start is logged,
\* before anything is deleted; otherwise the run is refused.
Begin(r) ==
  /\ GcAt(r, "new")
  /\ \/ /\ gcLog' = [gcLog EXCEPT ![r].started = TRUE]
        /\ GcGoto(r, "select") /\ UNCHANGED gcFaults
     \/ GcFault /\ GcGoto(r, "refused") /\ UNCHANGED gcLog
  /\ UNCHANGED <<expiredRows, purged>>

Eldest(rows) == {x \in rows : Cardinality({y \in rows : y < x}) < RowsPerBatch}

\* The victims are those of a snapshot.
Select(r) ==
  /\ GcAt(r, "select")
  /\ \/ /\ collector' = [collector EXCEPT ![r].at = "delete", ![r].victims = Eldest(expiredRows)]
        /\ UNCHANGED gcFaults
     \/ GcFail(r)
  /\ UNCHANGED <<expiredRows, purged, gcLog>>

\* The delete waits for the locks of another run's uncommitted batch, for as
\* long as lock_timeout says, and then passes over rows that are gone.
Delete(r) ==
  /\ GcAt(r, "delete")
  /\ \/ /\ \A s \in Collectors \ {r} :
             GcAt(s, "commit") => collector[s].victims \cap collector[r].victims = {}
        /\ collector' = [collector EXCEPT ![r].at = "commit", ![r].victims = @ \cap expiredRows]
        /\ UNCHANGED gcFaults
     \/ GcFail(r)
  /\ UNCHANGED <<expiredRows, purged, gcLog>>

Purge(r) ==
  /\ expiredRows' = expiredRows \ collector[r].victims
  /\ purged' = [purged EXCEPT ![r] = @ + Cardinality(collector[r].victims)]

\* A COMMIT without an answer fails the batch, whether it took effect or not.
Commit(r) ==
  /\ GcAt(r, "commit")
  /\ \/ Purge(r) /\ GcGoto(r, "record") /\ UNCHANGED gcFaults
     \/ GcFail(r) /\ (Purge(r) \/ UNCHANGED <<expiredRows, purged>>)
  /\ UNCHANGED gcLog

AfterBatch(r, n) ==
  IF collector[r].victims = {} \/ n = MaxBatches THEN "end" ELSE "select"

\* Mutant: the run goes on without the record.
RecordBatchOrGoOn(r) ==
  /\ GcAt(r, "record")
  /\ \E logged \in BOOLEAN :
       /\ gcLog' = IF ~logged THEN gcLog
                   ELSE [gcLog EXCEPT ![r].deleted = @ + Cardinality(collector[r].victims)]
       /\ IF logged THEN UNCHANGED gcFaults ELSE GcFault
       /\ collector' = [collector EXCEPT ![r].at = AfterBatch(r, collector[r].batches + 1),
                                      ![r].batches = @ + 1]
  /\ UNCHANGED <<expiredRows, purged>>

\* Free space is measured and the batch logged; a failing probe or VACUUM is part
\* of the record and ends the run after it, a record that cannot be written ends
\* the run at once.
RecordBatch(r) ==
  /\ GcAt(r, "record")
  /\ \E probed, logged \in BOOLEAN :
       /\ gcLog' = IF ~logged THEN gcLog
                   ELSE [gcLog EXCEPT ![r].deleted = @ + Cardinality(collector[r].victims)]
       /\ IF probed /\ logged
            THEN LET n == collector[r].batches + 1 IN
                 /\ collector' = [collector EXCEPT ![r].at = AfterBatch(r, n), ![r].batches = n]
                 /\ UNCHANGED gcFaults
            ELSE GcFail(r)
  /\ UNCHANGED <<expiredRows, purged>>

\* The end is logged; when that fails the run fails.
End(r) ==
  /\ GcAt(r, "end")
  /\ \/ /\ gcLog' = [gcLog EXCEPT ![r].ended = IF collector[r].failed THEN "stopped" ELSE "completed"]
        /\ GcGoto(r, "done") /\ UNCHANGED gcFaults
     \/ GcFault /\ UNCHANGED gcLog
        /\ collector' = [collector EXCEPT ![r].at = "done", ![r].failed = TRUE]
  /\ UNCHANGED <<expiredRows, purged>>

\* The process dies; PostgreSQL rolls back a transaction without COMMIT.
KillCollector(r) ==
  /\ collector[r].at \notin {"new", "refused", "done", "killed"}
  /\ GcFault /\ GcGoto(r, "killed")
  /\ UNCHANGED <<expiredRows, purged, gcLog>>

CollectionNext ==
  \E r \in Collectors :
    \/ Begin(r) \/ Select(r) \/ Delete(r) \/ Commit(r) \/ RecordBatch(r) \/ End(r)
    \/ KillCollector(r)

CollectionTypeOK ==
  /\ expiredRows \subseteq 1..ExpiredRows /\ gcFaults \in 0..MaxGcFaults
  /\ purged \in [Collectors -> 0..ExpiredRows]
  /\ collector \in [Collectors ->
       [at : {"new", "refused", "select", "delete", "commit", "record", "end", "done", "killed"},
        victims : SUBSET (1..ExpiredRows), batches : 0..MaxBatches, failed : BOOLEAN]]
  /\ gcLog \in [Collectors ->
       [started : BOOLEAN, deleted : Nat, ended : {"no", "stopped", "completed"}]]

(***************************************************************************)
(* Property                                                                *)
(***************************************************************************)

\* "A run with start but no end was interrupted: at most one committed batch after
\* the last batch record is unlogged" (docs/audit-retention-gc-operator-runbook.md):
\* the log of a run lags its deletions by one batch at most, it has a start before
\* any deletion, a run that completed is logged to the last row, and two runs
\* never count one row twice.
LogAccountsForDeletions ==
  /\ \A r \in Collectors :
       /\ gcLog[r].deleted <= purged[r] /\ purged[r] - gcLog[r].deleted <= RowsPerBatch
       /\ purged[r] > 0 => gcLog[r].started
       /\ gcLog[r].ended = "completed" => gcLog[r].deleted = purged[r]
  /\ \A r, s \in Collectors : r # s => purged[r] + purged[s] + Cardinality(expiredRows) <= ExpiredRows

=============================================================================
