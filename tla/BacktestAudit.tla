--------------------------- MODULE BacktestAudit ---------------------------
(***************************************************************************)
(* The life of backtests in the database.  A backtest records itself, then *)
(* loads its inputs and simulates without touching its row, and stores all *)
(* of its result and its completion in one transaction; whatever fails     *)
(* after the first record is recorded as a failure.  Readers ask for       *)
(* results meanwhile, one statement after another, each of which sees what *)
(* is committed when it runs.                                              *)
(***************************************************************************)
EXTENDS Integers, FiniteSets

CONSTANTS
    Runs,           \* the backtests
    Readers,        \* callers of get_result, each of which asks once
    Unheard         \* the backtests that may not hear of their own commits

Nobody == "no run"

ASSUME AuditAssumption == Unheard \subseteq Runs /\ Nobody \notin Runs

\* The tables a result is spread over, in the order they are read.
TableOrder == <<"orders", "fills", "trades", "equity", "events">>
Tables == {TableOrder[n] : n \in 1..5}

Completed == {"COMPLETED", "COMPLETED_WITH_WARNINGS"}

VARIABLES
    pc,         \* where each backtest is
    status,     \* of the audit rows
    rows,       \* the tables in which the result of a run is stored
    asked,      \* the run each reader asks for
    passed,     \* the tables it has queried
    got,        \* those of them that held the result of the run
    answer      \* "reading", "none" or "result"

reading == <<asked, passed, got, answer>>
vars == <<pc, status, rows, asked, passed, got, answer>>

Over == {"returned", "failed", "crashed"}

Init ==
    /\ pc = [r \in Runs |-> "start"]
    /\ status = [r \in Runs |-> "none"]
    /\ rows = [r \in Runs |-> {}]
    /\ asked = [d \in Readers |-> Nobody]
    /\ passed = [d \in Readers |-> {}]
    /\ got = [d \in Readers |-> {}]
    /\ answer = [d \in Readers |-> "reading"]

Goto(r, next) == pc' = [pc EXCEPT ![r] = next]
Becomes(r, next) == status' = [status EXCEPT ![r] = next]

Start(r) ==
    /\ pc[r] = "start"
    /\ Becomes(r, "RUNNING")
    /\ Goto(r, "simulate")
    /\ UNCHANGED <<rows, reading>>

\* Not known to have started: no failure is recorded.
StartFails(r) ==
    /\ pc[r] = "start"
    /\ \/ UNCHANGED status
       \/ r \in Unheard /\ Becomes(r, "RUNNING")
    /\ Goto(r, "failed")
    /\ UNCHANGED <<rows, reading>>

\* Inputs are loaded and validated, and the event loop runs to its end.
Simulate(r) ==
    /\ pc[r] = "simulate"
    /\ Goto(r, "save")
    /\ UNCHANGED <<status, rows, reading>>

SimulateFails(r) ==
    /\ pc[r] = "simulate"
    /\ Goto(r, "rescue")
    /\ UNCHANGED <<status, rows, reading>>

\* Mutant of Saved: completion is committed on its own, before the tables.
SavedRowOnly(r) ==
    /\ pc[r] = "save" /\ status[r] = "RUNNING"
    /\ \E final \in Completed : Becomes(r, final)
    /\ UNCHANGED rows

\* The row must still be RUNNING, and is locked while the result is stored.
Saved(r) ==
    /\ pc[r] = "save" /\ status[r] = "RUNNING"
    /\ rows' = [rows EXCEPT ![r] = Tables]
    /\ \E final \in Completed : Becomes(r, final)

Save(r) ==
    /\ Saved(r)
    /\ Goto(r, "returned")
    /\ UNCHANGED reading

\* The commit succeeds but the caller hears of a broken connection.
SaveUnheard(r) ==
    /\ r \in Unheard
    /\ Saved(r)
    /\ Goto(r, "rescue")
    /\ UNCHANGED reading

\* Mutant of SaveFails: what had been inserted stays.
SaveFailsHalfway(r) ==
    /\ pc[r] = "save"
    /\ rows' = [rows EXCEPT ![r] = {"orders"}]
    /\ Goto(r, "rescue")
    /\ UNCHANGED <<status, reading>>

SaveFails(r) ==
    /\ pc[r] = "save"
    /\ Goto(r, "rescue")
    /\ UNCHANGED <<status, rows, reading>>

FailureStatus == "FAILED"

\* The failure is recorded, whatever the row says, unless that fails too; the
\* caller gets an exception in any case.
Rescue(r) ==
    /\ pc[r] = "rescue"
    /\ \/ Becomes(r, FailureStatus)
       \/ UNCHANGED status
    /\ Goto(r, "failed")
    /\ UNCHANGED <<rows, reading>>

Crash(r) ==
    /\ pc[r] \notin Over
    /\ Goto(r, "crashed")
    /\ UNCHANGED <<status, rows, reading>>

(***************************************************************************)
(* get_result.                                                             *)
(***************************************************************************)

\* Mutant of Readable: any run that has ended may be read.
ReadableEnded(r) == status[r] \notin {"none", "RUNNING"}

Readable(r) == status[r] \in Completed

\* The first statement reads the row.
Ask(d, r) ==
    /\ asked[d] = Nobody
    /\ asked' = [asked EXCEPT ![d] = r]
    /\ answer' = [answer EXCEPT ![d] = IF Readable(r) THEN "reading" ELSE "none"]
    /\ UNCHANGED <<pc, status, rows, passed, got>>

\* A statement for each table, in order; the last one makes the answer.
Read(d) ==
    /\ asked[d] # Nobody /\ answer[d] = "reading"
    /\ LET table == TableOrder[Cardinality(passed[d]) + 1]
       IN  /\ passed' = [passed EXCEPT ![d] = @ \cup {table}]
           /\ got' = [got EXCEPT ![d] = @ \cup (rows[asked[d]] \cap {table})]
    /\ answer' = [answer EXCEPT ![d] =
                    IF passed'[d] = Tables THEN "result" ELSE "reading"]
    /\ UNCHANGED <<pc, status, rows, asked>>

AllOver == /\ \A r \in Runs : pc[r] \in Over
           /\ \A d \in Readers : answer[d] # "reading"
           /\ UNCHANGED vars

Next ==
    \/ \E r \in Runs :
         \/ Start(r) \/ StartFails(r) \/ Simulate(r) \/ SimulateFails(r)
         \/ Save(r) \/ SaveUnheard(r) \/ SaveFails(r) \/ Rescue(r) \/ Crash(r)
    \/ \E d \in Readers : Read(d) \/ \E r \in Runs : Ask(d, r)
    \/ AllOver

Spec == Init /\ [][Next]_vars

(***************************************************************************)
(* Properties.                                                             *)
(***************************************************************************)

TypeOK ==
    /\ pc \in [Runs -> {"start", "simulate", "save", "rescue"} \cup Over]
    /\ status \in [Runs -> {"none", "RUNNING", "FAILED"} \cup Completed]
    /\ rows \in [Runs -> SUBSET Tables]
    /\ asked \in [Readers -> Runs \cup {Nobody}]
    /\ passed \in [Readers -> SUBSET Tables]
    /\ got \in [Readers -> SUBSET Tables]
    /\ answer \in [Readers -> {"reading", "none", "result"}]

\* A result that get_result returns is whole, although each of its statements
\* sees another state of the database and answers to commits may be lost.
ResultWhole == \A d \in Readers : answer[d] = "result" => got[d] = Tables

\* The backtests that hear of their commits.
Heard == Runs \ Unheard

\* A run whose result was returned is not declared a failure afterwards.
AnswerStands ==
    \A d \in Readers :
        answer[d] = "result" /\ asked[d] \in Heard =>
            status[asked[d]] \in Completed

Audit == INSTANCE AuditedRun WITH
             Runs <- Heard,
             status <- [r \in Heard |-> IF status[r] \in Completed
                                        THEN "COMPLETED" ELSE status[r]],
             stored <- {r \in Heard : rows[r] # {}}

\* As long as they hear of their commits, backtests keep the promise of the
\* audit table, whatever becomes of the others.
ImplementsAudit == Audit!AuditSpec

\* The documentation says of a failing write of a result that it rolls back
\* the results and marks the audit FAILED: a failed run has no result rows.
FailedHasNoRows == \A r \in Runs : status[r] = "FAILED" => rows[r] = {}
=============================================================================
