----------------------------- MODULE Ingestion -----------------------------
(***************************************************************************)
(* Imports of historical candles into one PostgreSQL database.  Several    *)
(* imports may run at once, in processes of their own.  Each records       *)
(* itself first, reads its provider row by row outside any transaction,    *)
(* and then compares and stores everything in one transaction under a      *)
(* service-wide advisory lock.  A provider, the calendar or the database   *)
(* may fail at any point, the answer to a commit may be lost, and a        *)
(* process may die.                                                        *)
(*                                                                         *)
(* All imports are of one provider and adjustment policy: others have      *)
(* candle keys of their own and meet only at the lock.                     *)
(***************************************************************************)
EXTENDS Integers, Sequences, FiniteSets

NoRun == "no run"

CONSTANTS
    Runs,           \* the imports, each with a run id of its own
    Symbols,
    Times,          \* candle openings
    Values,         \* what a candle says: prices and quantities
    Wanted,         \* Wanted[r]: the symbols import r asks for
    Expected,       \* Expected[r]: the openings its range and calendar have
    Notes,          \* warnings of the deployment, whatever the data
    MaxRows,        \* rows an import accepts at most
    Unheard         \* the imports that may not hear of their own commits

ASSUME IngestionAssumption ==
    /\ Times \subseteq Nat /\ IsFiniteSet(Times) /\ IsFiniteSet(Symbols)
    /\ \A r \in Runs : Wanted[r] \subseteq Symbols /\ Expected[r] \subseteq Times
    /\ Notes \subseteq {"CALENDAR_UNVERIFIED", "PROVIDER_SEMANTICS_UNVERIFIED"}
    /\ MaxRows \in Nat \ {0}
    /\ Unheard \subseteq Runs /\ NoRun \notin Runs

\* The findings that leave a run without a warning.
InfoTypes == {"DUPLICATE"}

IssueTypes == InfoTypes \cup
    {"CALENDAR_UNVERIFIED", "PROVIDER_SEMANTICS_UNVERIFIED", "INVALID_BAR",
     "UNEXPECTED_TIMESTAMP", "OUT_OF_ORDER", "EMPTY_DATASET",
     "MISSING_SYMBOL", "MISSING_BAR", "LARGE_GAP", "CONFLICT",
     "CALENDAR_FAILURE", "PROVIDER_FAILURE", "PERSISTENCE_FAILURE"}

Absent == [value |-> "no value", run |-> NoRun]

NoCounts == [received |-> 0, valid |-> 0, inserted |-> 0, skipped |-> 0,
             rejected |-> 0, duplicates |-> 0, conflicts |-> 0]

NoAudit == [status |-> "none", counts |-> NoCounts, issues |-> {}]

VARIABLES
    pc,         \* where each import is
    bars,       \* the valid candles it has received, in order
    counts,
    issues,     \* the types of its findings so far
    staged,     \* the candles (positions in bars) its transaction inserts
    lock,       \* who holds the advisory lock
    store,      \* committed candles by symbol and opening
    audits      \* committed audit rows

import == <<bars, counts, issues, staged>>
database == <<store, audits>>
vars == <<pc, bars, counts, issues, staged, lock, store, audits>>

Ended == {"completed", "failed", "raised", "crashed"}

Key(bar) == <<bar.symbol, bar.time>>

Init ==
    /\ pc = [r \in Runs |-> "start"]
    /\ bars = [r \in Runs |-> <<>>]
    /\ counts = [r \in Runs |-> NoCounts]
    /\ issues = [r \in Runs |-> {}]
    /\ staged = [r \in Runs |-> {}]
    /\ lock = NoRun
    /\ store = [k \in Symbols \X Times |-> Absent]
    /\ audits = [r \in Runs |-> NoAudit]

Goto(r, next) == pc' = [pc EXCEPT ![r] = next]

Find(r, types) == issues' = [issues EXCEPT ![r] = @ \cup types]

\* Mutant of Released: a transaction that fails keeps the lock.
ReleasedNever(r) == lock

\* The lock ends with the transaction that took it.
Released(r) == IF lock = r THEN NoRun ELSE lock

\* An exception inside the guarded part: the open transaction, if any, is
\* rolled back, and the import goes on to record its failure.
Broken(r, types) ==
    /\ pc' = [pc EXCEPT ![r] = "rescue"]
    /\ Find(r, types)
    /\ lock' = Released(r)

(***************************************************************************)
(* The audit row.                                                          *)
(***************************************************************************)

Recorded(r) ==
    audits' = [audits EXCEPT ![r] = [NoAudit EXCEPT !.status = "RUNNING"]]

Start(r) ==
    /\ pc[r] = "start"
    /\ Recorded(r)
    /\ Goto(r, "plan")
    /\ UNCHANGED <<import, lock, store>>

\* Outside the guarded part: the exception ends the import.
StartFails(r) ==
    /\ pc[r] = "start"
    /\ \/ UNCHANGED audits
       \/ r \in Unheard /\ Recorded(r)
    /\ Goto(r, "raised")
    /\ UNCHANGED <<import, lock, store>>

(***************************************************************************)
(* The calendar, and the provider's rows.                                  *)
(***************************************************************************)

Oversized(r) ==
    Cardinality(Expected[r]) * Cardinality(Wanted[r]) > MaxRows

Plan(r) ==
    /\ pc[r] = "plan" /\ ~Oversized(r)
    /\ Find(r, Notes)
    /\ Goto(r, "fetch")
    /\ UNCHANGED <<bars, counts, staged, lock, database>>

PlanFails(r) ==
    /\ pc[r] = "plan"
    /\ \/ Broken(r, {"CALENDAR_FAILURE"})
       \/ Oversized(r) /\ Broken(r, Notes \cup {"CALENDAR_FAILURE"})
    /\ UNCHANGED <<bars, counts, staged, database>>

\* A row is malformed, or a candle of some symbol and opening.
Candles == [symbol : Symbols, time : Times, value : Values]
Malformed == [symbol |-> "malformed"]

\* Normalisation also refuses the candle of a symbol not asked for.
Valid(r, row) == row # Malformed /\ row.symbol \in Wanted[r]

\* An earlier row of the symbol had a later opening: only the last one counts.
OutOfOrder(r, row) ==
    \E n \in DOMAIN bars[r] :
        /\ bars[r][n].symbol = row.symbol /\ bars[r][n].time > row.time
        /\ \A m \in (n + 1)..Len(bars[r]) : bars[r][m].symbol # row.symbol

Reject(r, type) ==
    /\ counts' = [counts EXCEPT ![r].received = @ + 1, ![r].rejected = @ + 1]
    /\ Find(r, {type})
    /\ UNCHANGED <<pc, bars>>

Accept(r, row) ==
    /\ counts' = [counts EXCEPT ![r].received = @ + 1, ![r].valid = @ + 1]
    /\ Find(r, IF OutOfOrder(r, row) THEN {"OUT_OF_ORDER"} ELSE {})
    /\ bars' = [bars EXCEPT ![r] = Append(@, row)]
    /\ UNCHANGED pc

\* Mutant of WithinBound: one row too many.
WithinBoundOrAt(r) == counts[r].received <= MaxRows

WithinBound(r) == counts[r].received < MaxRows

Receive(r) ==
    /\ pc[r] = "fetch" /\ WithinBound(r)
    /\ \E row \in Candles \cup {Malformed} :
         \/ ~Valid(r, row) /\ Reject(r, "INVALID_BAR")
         \/ /\ Valid(r, row) /\ row.time \notin Expected[r]
            /\ Reject(r, "UNEXPECTED_TIMESTAMP")
         \/ /\ Valid(r, row) /\ row.time \in Expected[r]
            /\ Accept(r, row)
    /\ UNCHANGED <<staged, lock, database>>

\* The row beyond the bound is counted and refused.
ReceiveTooMany(r) ==
    /\ pc[r] = "fetch" /\ ~WithinBound(r)
    /\ counts' = [counts EXCEPT ![r].received = @ + 1]
    /\ Broken(r, {"PROVIDER_FAILURE"})
    /\ UNCHANGED <<bars, staged, database>>

FetchFails(r) ==
    /\ pc[r] = "fetch"
    /\ Broken(r, {"PROVIDER_FAILURE"})
    /\ UNCHANGED <<bars, counts, staged, database>>

Observed(r, s) == {bars[r][n].time : n \in {m \in DOMAIN bars[r] :
                                              bars[r][m].symbol = s}}

\* Mutant of Gaps: only a symbol without any candle is looked at.
GapsOfSilent(r) ==
    IF \E s \in Wanted[r] : Observed(r, s) = {}
    THEN {"MISSING_SYMBOL", "MISSING_BAR"} ELSE {}

\* Completeness is that of the provider's answer, not of the store.
Gaps(r) ==
    {type \in {"EMPTY_DATASET", "MISSING_SYMBOL", "MISSING_BAR", "LARGE_GAP"} :
        CASE type = "EMPTY_DATASET" -> counts[r].received = 0
          [] type = "MISSING_SYMBOL" ->
               \E s \in Wanted[r] : Observed(r, s) = {}
          [] type = "MISSING_BAR" ->
               \E s \in Wanted[r] : Expected[r] \ Observed(r, s) # {}
          [] type = "LARGE_GAP" ->
               \E s \in Wanted[r] :
                   Cardinality(Expected[r] \ Observed(r, s)) >= 3}

FetchEnds(r) ==
    /\ pc[r] = "fetch"
    /\ Find(r, Gaps(r))
    /\ Goto(r, "persist")
    /\ UNCHANGED <<bars, counts, staged, lock, database>>

(***************************************************************************)
(* The write transaction.                                                  *)
(***************************************************************************)

\* Mutant of LockFree: the transaction takes no lock.
LockIgnored(r) == TRUE

LockFree(r) == lock = NoRun

Lock(r) ==
    /\ pc[r] = "persist" /\ LockFree(r)
    /\ lock' = r
    /\ Goto(r, "merge")
    /\ UNCHANGED <<import, database>>

\* The database is away, or the statement waits too long for the lock.
LockFails(r) ==
    /\ pc[r] = "persist"
    /\ Broken(r, {"PERSISTENCE_FAILURE"})
    /\ UNCHANGED <<bars, counts, staged, database>>

\* The first of the received candles with the key of candle n.
FirstOf(r, n) ==
    CHOOSE m \in 1..n : /\ Key(bars[r][m]) = Key(bars[r][n])
                        /\ \A l \in 1..(m - 1) : Key(bars[r][l]) # Key(bars[r][n])

\* Candles whose key neither the store nor an earlier candle has.
Fresh(r) ==
    {n \in DOMAIN bars[r] : store[Key(bars[r][n])] = Absent /\ FirstOf(r, n) = n}

\* Mutant of Prior: candles are only compared with the store.
PriorStored(r, n) ==
    IF store[Key(bars[r][n])] # Absent THEN store[Key(bars[r][n])].value
                                       ELSE bars[r][n].value

\* What candle n is compared with: the stored candle, or the first received.
Prior(r, n) ==
    IF store[Key(bars[r][n])] # Absent THEN store[Key(bars[r][n])].value
                                       ELSE bars[r][FirstOf(r, n)].value

Known(r) == DOMAIN bars[r] \ Fresh(r)
Duplicates(r) == {n \in Known(r) : Prior(r, n) = bars[r][n].value}
Conflicts(r) == Known(r) \ Duplicates(r)

\* Mutant of Tallied: a conflicting candle is not counted as rejected.
TalliedKept(r) ==
    [counts[r] EXCEPT !.duplicates = Cardinality(Duplicates(r)),
                      !.skipped = Cardinality(Duplicates(r)),
                      !.conflicts = Cardinality(Conflicts(r)),
                      !.inserted = Cardinality(Fresh(r))]

Tallied(r) ==
    [counts[r] EXCEPT !.duplicates = Cardinality(Duplicates(r)),
                      !.skipped = Cardinality(Duplicates(r)),
                      !.conflicts = Cardinality(Conflicts(r)),
                      !.rejected = @ + Cardinality(Conflicts(r)),
                      !.inserted = Cardinality(Fresh(r))]

\* Mutant of Stored: an insert replaces what is there, in an upsert of every
\* received candle.
StoredOver(r, inserts) ==
    [k \in DOMAIN store |->
        LET mine == {n \in DOMAIN bars[r] : Key(bars[r][n]) = k}
        IN  IF mine = {} THEN store[k]
            ELSE [value |-> bars[r][CHOOSE n \in mine : TRUE].value, run |-> r]]

\* The store with these candles of r inserted.
Stored(r, inserts) ==
    [k \in DOMAIN store |->
        LET mine == {n \in inserts : Key(bars[r][n]) = k}
        IN  IF mine = {} THEN store[k]
            ELSE [value |-> bars[r][CHOOSE n \in mine : TRUE].value, run |-> r]]

\* Mutant of Merge: every insert commits on its own.
MergeCommitted(r) ==
    /\ pc[r] = "merge"
    /\ staged' = [staged EXCEPT ![r] = {}]
    /\ store' = Stored(r, Fresh(r))
    /\ counts' = [counts EXCEPT ![r] = Tallied(r)]
    /\ Goto(r, "commit")
    /\ UNCHANGED <<bars, issues, lock, audits>>

\* Read what is stored, under the lock, and decide on every candle.
Merge(r) ==
    /\ pc[r] = "merge"
    /\ staged' = [staged EXCEPT ![r] = Fresh(r)]
    /\ counts' = [counts EXCEPT ![r] = Tallied(r)]
    /\ Find(r, {type \in {"DUPLICATE", "CONFLICT"} :
                   IF type = "DUPLICATE" THEN Duplicates(r) # {}
                                         ELSE Conflicts(r) # {}})
    /\ Goto(r, "commit")
    /\ UNCHANGED <<bars, lock, database>>

Verdict(r) == IF issues[r] \subseteq InfoTypes
              THEN "COMPLETED" ELSE "COMPLETED_WITH_WARNINGS"

Clashes(r) == {n \in staged[r] : store[Key(bars[r][n])] # Absent}

\* Candles and the final audit become visible together.
Published(r) ==
    /\ pc[r] = "commit" /\ Clashes(r) = {}
    /\ store' = Stored(r, staged[r])
    /\ audits' = [audits EXCEPT ![r] = [status |-> Verdict(r),
                                        counts |-> counts[r],
                                        issues |-> issues[r]]]

Commit(r) ==
    /\ Published(r)
    /\ lock' = Released(r)
    /\ Goto(r, "completed")
    /\ UNCHANGED import

\* The commit succeeds but the import hears of a broken connection.
CommitUnheard(r) ==
    /\ r \in Unheard
    /\ Published(r)
    /\ Broken(r, {"PERSISTENCE_FAILURE"})
    /\ UNCHANGED <<bars, counts, staged>>

\* Reading, inserting (a key that is taken by now) or committing fails.
WriteFails(r) ==
    /\ pc[r] \in {"merge", "commit"}
    /\ Broken(r, {"PERSISTENCE_FAILURE"})
    /\ UNCHANGED <<bars, counts, staged, database>>

(***************************************************************************)
(* Failure.                                                                *)
(***************************************************************************)

FailureRow(r) == [status |-> "FAILED", counts |-> [counts[r] EXCEPT !.inserted = 0],
                  issues |-> issues[r]]

\* The failure is recorded in a transaction of its own, which may fail too.
Rescue(r) ==
    /\ pc[r] = "rescue"
    /\ counts' = [counts EXCEPT ![r].inserted = 0]
    /\ \/ audits' = [audits EXCEPT ![r] = FailureRow(r)]
       \/ UNCHANGED audits
    /\ Goto(r, "failed")
    /\ UNCHANGED <<bars, issues, staged, lock, store>>

\* The process dies: what it had not committed is gone.
Crash(r) ==
    /\ pc[r] \notin Ended
    /\ lock' = Released(r)
    /\ Goto(r, "crashed")
    /\ UNCHANGED <<import, database>>

AllEnded == (\A r \in Runs : pc[r] \in Ended) /\ UNCHANGED vars

Work(r) ==
    \/ Start(r) \/ StartFails(r)
    \/ Plan(r) \/ PlanFails(r)
    \/ Receive(r) \/ ReceiveTooMany(r) \/ FetchFails(r) \/ FetchEnds(r)
    \/ Lock(r) \/ LockFails(r)
    \/ Merge(r) \/ Commit(r) \/ CommitUnheard(r) \/ WriteFails(r)
    \/ Rescue(r)

Next == (\E r \in Runs : Work(r) \/ Crash(r)) \/ AllEnded

Spec == Init /\ [][Next]_vars

\* A process that lives goes on; its statements answer or time out.
FairSpec == Spec /\ \A r \in Runs : WF_vars(Work(r))

(***************************************************************************)
(* Properties.                                                             *)
(***************************************************************************)

Counts == [{"received", "valid", "inserted", "skipped", "rejected",
            "duplicates", "conflicts"} -> Nat]

TypeOK ==
    /\ pc \in [Runs -> {"start", "plan", "fetch", "persist", "merge", "commit",
                        "rescue"} \cup Ended]
    /\ \A r \in Runs :
         /\ bars[r] \in Seq(Candles) /\ Len(bars[r]) <= MaxRows
         /\ counts[r] \in Counts
         /\ issues[r] \subseteq IssueTypes
         /\ staged[r] \subseteq DOMAIN bars[r]
         /\ audits[r].status \in {"none", "RUNNING", "COMPLETED",
                                  "COMPLETED_WITH_WARNINGS", "FAILED"}
    /\ lock \in Runs \cup {NoRun}
    /\ store \in [Symbols \X Times ->
                    {Absent} \cup [value : Values, run : Runs]]

Completed(r) == audits[r].status \in {"COMPLETED", "COMPLETED_WITH_WARNINGS"}

StoredBy(r) == {k \in DOMAIN store : store[k].run = r}

\* What an import read under the lock still holds when it writes: the lock
\* alone keeps two imports of the same candles from running into the unique
\* constraint.
StagedStillFresh ==
    \A r \in Runs : pc[r] = "commit" => Clashes(r) = {}

\* The counters of a completed run add up, and the rows it claims to have
\* inserted are exactly those the store attributes to it.
CountsReconcile ==
    \A r \in Runs :
        Completed(r) =>
            LET c == audits[r].counts
            IN  /\ c.received = c.inserted + c.skipped + c.rejected
                /\ c.valid = c.inserted + c.duplicates + c.conflicts
                /\ c.inserted = Cardinality(StoredBy(r))

\* A run without a warning has left, for every symbol and opening it asked
\* for, a stored candle, and the provider said nothing else of it.
CleanImportComplete ==
    \A r \in Runs :
        audits[r].status = "COMPLETED" =>
            /\ \A s \in Wanted[r], t \in Expected[r] :
                  \E n \in DOMAIN bars[r] : Key(bars[r][n]) = <<s, t>>
            /\ \A n \in DOMAIN bars[r] :
                  store[Key(bars[r][n])].value = bars[r][n].value

\* When completed runs have seen different values of one candle, a run that
\* saw another value than the stored one says so.
ConflictsSurface ==
    \A r \in Runs : Completed(r) =>
        \A n \in DOMAIN bars[r] :
            store[Key(bars[r][n])].value # bars[r][n].value =>
                "CONFLICT" \in audits[r].issues

\* Stored candles are never changed or removed, and each import adds its
\* candles in one step.
WriteOnce ==
    [][/\ \A k \in DOMAIN store : store[k] # Absent => store'[k] = store[k]
       /\ \A r \in Runs : StoredBy(r) # {} => StoredBy(r)' = StoredBy(r)]_vars

\* Every import ends, and every lock is given back, whatever fails.
ImportsEnd == <>[](lock = NoRun /\ \A r \in Runs : pc[r] \in Ended)

\* The imports that hear of their commits.
Heard == Runs \ Unheard

Audit == INSTANCE AuditedRun WITH
             Runs <- Heard,
             status <- [r \in Heard |-> IF Completed(r) THEN "COMPLETED"
                                        ELSE audits[r].status],
             stored <- {r \in Heard : StoredBy(r) # {}}

\* As long as they hear of their commits, imports keep the promise of the
\* audit table, whatever becomes of the others.
ImplementsAudit == Audit!AuditSpec

\* The documentation says of a failed run that it always reports zero
\* committed inserts: nothing in the store is attributed to it.
FailedStoresNothing ==
    \A r \in Runs : audits[r].status = "FAILED" => StoredBy(r) = {}
=============================================================================
