----------------------------- MODULE AuditedRun ----------------------------
(***************************************************************************)
(* What the audit table promises of runs, imports of candles and backtests *)
(* alike: a run is recorded before it works; what it produces is stored    *)
(* only by the step that records its completion; a failed run has stored   *)
(* nothing; and a recorded end is final.                                   *)
(***************************************************************************)
CONSTANT Runs

VARIABLES
    status,     \* of each run: "none", "RUNNING", "COMPLETED" or "FAILED"
    stored      \* the runs of which something is stored

auditVars == <<status, stored>>

AuditInit ==
    /\ status = [r \in Runs |-> "none"]
    /\ stored = {}

Open(r) ==
    /\ status[r] = "none"
    /\ status' = [status EXCEPT ![r] = "RUNNING"]
    /\ UNCHANGED stored

Complete(r) ==
    /\ status[r] = "RUNNING"
    /\ status' = [status EXCEPT ![r] = "COMPLETED"]
    /\ stored' \in {stored, stored \cup {r}}

Refuse(r) ==
    /\ status[r] = "RUNNING"
    /\ status' = [status EXCEPT ![r] = "FAILED"]
    /\ UNCHANGED stored

AuditNext == \E r \in Runs : Open(r) \/ Complete(r) \/ Refuse(r)

AuditSpec == AuditInit /\ [][AuditNext]_auditVars
=============================================================================
