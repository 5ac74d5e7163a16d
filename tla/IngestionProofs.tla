-------------------------- MODULE IngestionProofs --------------------------
(***************************************************************************)
(* Theorems about imports of candles, for all sets of imports, symbols,    *)
(* openings and values, and whichever imports hear of their commits.       *)
(***************************************************************************)
EXTENDS Ingestion, FiniteSetTheorems, WellFoundedInduction, TLAPS

(***************************************************************************)
(* The inductive invariant.                                                *)
(***************************************************************************)

AuditRows == [status : {"none", "RUNNING", "COMPLETED",
                        "COMPLETED_WITH_WARNINGS", "FAILED"},
              counts : Counts, issues : SUBSET IssueTypes]

\* The variables are functions of the runs.
Shape ==
    /\ pc \in [Runs -> {"start", "plan", "fetch", "persist", "merge", "commit",
                        "rescue"} \cup Ended]
    /\ bars \in [Runs -> Seq(Candles)]
    /\ counts \in [Runs -> Counts]
    /\ issues \in [Runs -> SUBSET IssueTypes]
    /\ staged \in [Runs -> SUBSET Nat]
    /\ lock \in Runs \cup {NoRun}
    /\ store \in [Symbols \X Times ->
                    {Absent} \cup [value : Values, run : Runs]]
    /\ audits \in [Runs -> AuditRows]

BeforeFetch == {"start", "plan", "fetch"}
Locked == {"merge", "commit"}
Working == {"plan", "fetch", "persist"} \cup Locked

\* The transaction's lock is held from the moment it is granted to its end.
LockHeld(r) == pc[r] \in Locked <=> lock = r

\* A run that works is RUNNING and has stored nothing; one that hears of its
\* commits is so still when it goes on to record a failure.
InStep(r) ==
    /\ pc[r] = "start" => audits[r].status = "none" /\ StoredBy(r) = {}
    /\ pc[r] \in Working => audits[r].status = "RUNNING" /\ StoredBy(r) = {}
    /\ r \in Heard /\ pc[r] = "rescue" =>
           audits[r].status = "RUNNING" /\ StoredBy(r) = {}
    /\ Completed(r) => pc[r] \in {"rescue"} \cup Ended

\* Every row is either a candle kept or a row rejected.
Received(r) ==
    /\ Len(bars[r]) <= MaxRows
    /\ staged[r] \subseteq DOMAIN bars[r]
    /\ pc[r] \in BeforeFetch \cup {"persist", "merge"} =>
           /\ counts[r].valid = Len(bars[r])
           /\ counts[r].received = counts[r].valid + counts[r].rejected

Balanced(c) == /\ c.received = c.inserted + c.skipped + c.rejected
               /\ c.valid = c.inserted + c.duplicates + c.conflicts

AllExpected(r) == \A s \in Wanted[r], t \in Expected[r] :
                      \E n \in DOMAIN bars[r] : Key(bars[r][n]) = <<s, t>>

\* What fetching and merging have found out holds until the commit.
Decided(r) ==
    /\ pc[r] \in {"persist"} \cup Locked =>
           AllExpected(r) \/ "MISSING_BAR" \in issues[r]
    /\ pc[r] = "commit" =>
           /\ staged[r] = Fresh(r)
           /\ Balanced(counts[r]) /\ counts[r].inserted = Cardinality(staged[r])
           /\ Conflicts(r) # {} => "CONFLICT" \in issues[r]

\* And what a completed run says of itself holds from then on.
Reported(r) ==
    Completed(r) =>
        /\ Balanced(audits[r].counts)
        /\ audits[r].counts.inserted = Cardinality(StoredBy(r))
        /\ audits[r].status = "COMPLETED" => audits[r].issues \subseteq InfoTypes
        /\ AllExpected(r) \/ "MISSING_BAR" \in audits[r].issues
        /\ \A n \in DOMAIN bars[r] :
               /\ store[Key(bars[r][n])] # Absent
               /\ store[Key(bars[r][n])].value # bars[r][n].value =>
                      "CONFLICT" \in audits[r].issues

RunInv(r) == LockHeld(r) /\ InStep(r) /\ Received(r) /\ Decided(r) /\ Reported(r)

IndInv == Shape /\ \A r \in Runs : RunInv(r)
(***************************************************************************)
(* The received candles and their keys.                                    *)
(***************************************************************************)

\* A set of natural numbers has a least element.
LEMMA LeastNatural ==
    ASSUME NEW S \in SUBSET Nat, S # {}
    PROVE  \E m \in S : \A k \in S : m <= k
<1> DEFINE R == OpToRel(<, Nat)
<1>1. PICK m \in S : \A k \in S : ~ (<<k, m>> \in R)
  BY NatLessThanWellFounded, WFMin
<1>2. \A k \in S : k < m => <<k, m>> \in R
  BY DEF OpToRel
<1>3. \A k \in S : ~ (k < m)
  BY <1>1, <1>2
<1> QED BY <1>3, S \subseteq Nat

\* The places of a sequence are the numbers up to its length.
LEMMA SequenceDomain ==
    ASSUME NEW S, NEW s \in Seq(S)
    PROVE  Len(s) \in Nat /\ DOMAIN s = 1..Len(s)
  OBVIOUS

\* A candle received has the key of a candle.
LEMMA KeyType ==
    ASSUME NEW r \in Runs, bars[r] \in Seq(Candles), NEW n \in DOMAIN bars[r]
    PROVE  /\ bars[r][n] \in Candles
           /\ Key(bars[r][n]) \in Symbols \X Times
<1>1. bars[r][n] \in Candles
  OBVIOUS
<1> QED BY <1>1 DEF Key, Candles

\* The first of the candles received with one key.
LEMMA FirstOfIs ==
    ASSUME NEW r \in Runs, bars[r] \in Seq(Candles), NEW n \in DOMAIN bars[r]
    PROVE  /\ FirstOf(r, n) \in 1..n
           /\ Key(bars[r][FirstOf(r, n)]) = Key(bars[r][n])
           /\ \A l \in 1..(FirstOf(r, n) - 1) : Key(bars[r][l]) # Key(bars[r][n])
<1> DEFINE S == {m \in 1..n : Key(bars[r][m]) = Key(bars[r][n])}
<1>1. n \in Nat /\ n \in S /\ S \subseteq Nat
  OBVIOUS
<1> HIDE DEF S
<1>2. PICK m \in S : \A k \in S : m <= k
  BY <1>1, LeastNatural
<1>3. m \in 1..n /\ Key(bars[r][m]) = Key(bars[r][n])
  BY DEF S
<1>4. ASSUME NEW l \in 1..(m - 1)
      PROVE  Key(bars[r][l]) # Key(bars[r][n])
  <2>1. l \in 1..n /\ ~ (m <= l)
    BY <1>1, <1>3
  <2> QED BY <1>2, <2>1 DEF S
<1> QED BY <1>3, <1>4 DEF FirstOf

\* Candles of one key have one first candle.
LEMMA FirstOfKey ==
    ASSUME NEW r \in Runs, bars[r] \in Seq(Candles),
           NEW m \in DOMAIN bars[r], NEW n \in DOMAIN bars[r],
           Key(bars[r][m]) = Key(bars[r][n])
    PROVE  FirstOf(r, m) = FirstOf(r, n)
<1>1. /\ FirstOf(r, m) \in 1..m /\ FirstOf(r, n) \in 1..n
      /\ m \in Nat /\ n \in Nat
      /\ Key(bars[r][FirstOf(r, m)]) = Key(bars[r][FirstOf(r, n)])
  BY FirstOfIs
<1>2. ~ (FirstOf(r, m) < FirstOf(r, n)) /\ ~ (FirstOf(r, n) < FirstOf(r, m))
  BY <1>1, FirstOfIs
<1> QED BY <1>1, <1>2

\* The fresh candles have different keys, and each key that the store lacks
\* has a fresh candle, the first one of that key.
LEMMA FreshKeys ==
    ASSUME NEW r \in Runs, bars[r] \in Seq(Candles)
    PROVE  /\ Fresh(r) \subseteq DOMAIN bars[r]
           /\ \A m, n \in Fresh(r) : Key(bars[r][m]) = Key(bars[r][n]) => m = n
           /\ \A n \in DOMAIN bars[r] :
                  store[Key(bars[r][n])] = Absent => FirstOf(r, n) \in Fresh(r)
<1>1. \A m, n \in Fresh(r) : Key(bars[r][m]) = Key(bars[r][n]) => m = n
  BY FirstOfKey DEF Fresh
<1>2. ASSUME NEW n \in DOMAIN bars[r], store[Key(bars[r][n])] = Absent
      PROVE  FirstOf(r, n) \in Fresh(r)
  <2>1. FirstOf(r, n) \in DOMAIN bars[r] /\ Key(bars[r][FirstOf(r, n)]) = Key(bars[r][n])
    BY FirstOfIs
  <2>2. FirstOf(r, FirstOf(r, n)) = FirstOf(r, n)
    BY <2>1, FirstOfKey
  <2> QED BY <1>2, <2>1, <2>2 DEF Fresh
<1> QED BY <1>1, <1>2 DEF Fresh

\* Every candle is inserted, skipped as a duplicate or refused as a conflict.
LEMMA MergeCounts ==
    ASSUME NEW r \in Runs, bars[r] \in Seq(Candles)
    PROVE  /\ Cardinality(Fresh(r)) \in Nat
           /\ Cardinality(Duplicates(r)) \in Nat
           /\ Cardinality(Conflicts(r)) \in Nat
           /\ Len(bars[r]) = Cardinality(Fresh(r)) + Cardinality(Duplicates(r))
                                + Cardinality(Conflicts(r))
<1>1. Len(bars[r]) \in Nat /\ DOMAIN bars[r] = 1..Len(bars[r])
  OBVIOUS
<1>2. IsFiniteSet(DOMAIN bars[r]) /\ Cardinality(DOMAIN bars[r]) = Len(bars[r])
  BY <1>1, FS_Interval
<1>3. /\ IsFiniteSet(Known(r))
      /\ Cardinality(Known(r)) = Len(bars[r]) - Cardinality(DOMAIN bars[r] \cap Fresh(r))
  BY <1>2, FS_Difference DEF Known
<1>4. DOMAIN bars[r] \cap Fresh(r) = Fresh(r)
  BY DEF Fresh
<1>5. /\ IsFiniteSet(Conflicts(r))
      /\ Cardinality(Conflicts(r)) = Cardinality(Known(r))
                                        - Cardinality(Known(r) \cap Duplicates(r))
  BY <1>3, FS_Difference DEF Conflicts
<1>6. Known(r) \cap Duplicates(r) = Duplicates(r) /\ Duplicates(r) \subseteq Known(r)
  BY DEF Duplicates
<1>7. IsFiniteSet(Fresh(r)) /\ IsFiniteSet(Duplicates(r))
  BY <1>2, <1>3, <1>6, FS_Subset DEF Fresh
<1>8. /\ Cardinality(Fresh(r)) \in Nat /\ Cardinality(Duplicates(r)) \in Nat
      /\ Cardinality(Conflicts(r)) \in Nat /\ Cardinality(Known(r)) \in Nat
  BY <1>3, <1>5, <1>7, FS_CardinalityType
<1>9. /\ Cardinality(Known(r)) = Len(bars[r]) - Cardinality(Fresh(r))
      /\ Cardinality(Conflicts(r)) = Cardinality(Known(r)) - Cardinality(Duplicates(r))
  BY <1>3, <1>4, <1>5, <1>6
<1> QED BY <1>1, <1>8, <1>9

(***************************************************************************)
(* The counters.                                                           *)
(***************************************************************************)

\* A row counts as received and, once, as valid or as rejected.
LEMMA RowCounted ==
    ASSUME NEW c \in Counts, NEW field \in {"rejected", "valid"},
           NEW after, after = [c EXCEPT !.received = @ + 1, ![field] = @ + 1]
    PROVE  /\ after \in Counts
           /\ after.received = c.received + 1
           /\ after.valid = c.valid + (IF field = "valid" THEN 1 ELSE 0)
           /\ after.rejected = c.rejected + (IF field = "valid" THEN 0 ELSE 1)
<1>1. PICK n \in Nat : n = c.received + 1
  BY DEF Counts
<1>2. PICK m \in Nat : m = c[field] + 1
  BY DEF Counts
<1>3. after = [c EXCEPT !.received = n, ![field] = m]
  BY <1>1, <1>2
<1>4. c.valid \in Nat /\ c.rejected \in Nat
  BY DEF Counts
<1>5. CASE field = "valid"
  BY <1>1, <1>2, <1>3, <1>4, <1>5 DEF Counts
<1>6. CASE field = "rejected"
  BY <1>1, <1>2, <1>3, <1>4, <1>6 DEF Counts
<1> QED BY <1>5, <1>6

\* What Lock adds to the counters is what it finds among the candles.
LEMMA CandlesCounted ==
    ASSUME NEW r \in Runs, counts[r] \in Counts, bars[r] \in Seq(Candles)
    PROVE  /\ Tallied(r) \in Counts
           /\ Tallied(r).received = counts[r].received
           /\ Tallied(r).valid = counts[r].valid
           /\ Tallied(r).rejected = counts[r].rejected + Cardinality(Conflicts(r))
           /\ Tallied(r).inserted = Cardinality(Fresh(r))
           /\ Tallied(r).skipped = Cardinality(Duplicates(r))
           /\ Tallied(r).duplicates = Cardinality(Duplicates(r))
           /\ Tallied(r).conflicts = Cardinality(Conflicts(r))
<1> DEFINE d == Cardinality(Duplicates(r))
           k == Cardinality(Conflicts(r))
           i == Cardinality(Fresh(r))
<1>1. d \in Nat /\ k \in Nat /\ i \in Nat
  BY MergeCounts
<1>2. PICK m \in Nat : m = counts[r].rejected + k
  BY <1>1 DEF Counts
<1>3. Tallied(r) = [counts[r] EXCEPT !.duplicates = d, !.skipped = d, !.conflicts = k,
                                     !.rejected = m, !.inserted = i]
  BY <1>2 DEF Tallied
<1> HIDE DEF d, k, i
<1>4. Tallied(r) \in Counts
  BY <1>1, <1>3 DEF Counts
<1>5. /\ Tallied(r).received = counts[r].received
      /\ Tallied(r).valid = counts[r].valid
      /\ Tallied(r).rejected = m /\ Tallied(r).inserted = i
      /\ Tallied(r).skipped = d /\ Tallied(r).duplicates = d
      /\ Tallied(r).conflicts = k
  BY <1>3 DEF Counts
<1> QED BY <1>2, <1>4, <1>5 DEF d, k, i

(***************************************************************************)
(* The store.                                                              *)
(***************************************************************************)

\* Inserting the fresh candles changes no stored candle, and stores of each
\* key that was absent the first candle received.
LEMMA StoredFresh ==
    ASSUME Shape, NEW r \in Runs
    PROVE  LET after == Stored(r, Fresh(r))
           IN  /\ after \in [Symbols \X Times ->
                               {Absent} \cup [value : Values, run : Runs]]
               /\ \A k \in Symbols \X Times :
                     \/ after[k] = store[k]
                     \/ /\ store[k] = Absent
                        /\ \E n \in Fresh(r) :
                              /\ k = Key(bars[r][n])
                              /\ after[k] = [value |-> bars[r][n].value, run |-> r]
               /\ \A n \in Fresh(r) :
                     after[Key(bars[r][n])] = [value |-> bars[r][n].value, run |-> r]
<1> DEFINE after == Stored(r, Fresh(r))
           Mine(k) == {n \in Fresh(r) : Key(bars[r][n]) = k}
<1>1. bars[r] \in Seq(Candles) /\ DOMAIN store = Symbols \X Times
  BY DEF Shape
<1>2. ASSUME NEW k \in Symbols \X Times
      PROVE  \/ Mine(k) = {} /\ after[k] = store[k]
             \/ \E n \in Fresh(r) :
                   /\ k = Key(bars[r][n]) /\ store[k] = Absent
                   /\ after[k] = [value |-> bars[r][n].value, run |-> r]
  <2>1. CASE Mine(k) = {}
    BY <1>1, <2>1 DEF Stored
  <2>2. CASE Mine(k) # {}
    <3> DEFINE n == CHOOSE n \in Mine(k) : TRUE
    <3>1. n \in Fresh(r) /\ Key(bars[r][n]) = k
      BY <2>2
    <3>2. after[k] = [value |-> bars[r][n].value, run |-> r]
      BY <1>1, <2>2 DEF Stored
    <3>3. store[k] = Absent
      BY <3>1 DEF Fresh
    <3> QED BY <3>1, <3>2, <3>3
  <2> QED BY <2>1, <2>2
<1>3. ASSUME NEW n \in Fresh(r)
      PROVE  after[Key(bars[r][n])] = [value |-> bars[r][n].value, run |-> r]
  <2>1. Key(bars[r][n]) \in Symbols \X Times /\ n \in Mine(Key(bars[r][n]))
    BY <1>1, KeyType, FreshKeys
  <2>2. PICK m \in Fresh(r) :
               /\ Key(bars[r][n]) = Key(bars[r][m])
               /\ after[Key(bars[r][n])] = [value |-> bars[r][m].value, run |-> r]
    BY <1>2, <2>1
  <2>3. m = n
    BY <1>1, <2>2, FreshKeys
  <2> QED BY <2>2, <2>3
<1>4. after \in [Symbols \X Times -> {Absent} \cup [value : Values, run : Runs]]
  <2>1. after = [k \in Symbols \X Times |-> after[k]]
    BY <1>1 DEF Stored
  <2>2. ASSUME NEW k \in Symbols \X Times
        PROVE  after[k] \in {Absent} \cup [value : Values, run : Runs]
    <3>1. ASSUME NEW n \in Fresh(r)
          PROVE  bars[r][n].value \in Values
      BY <1>1, KeyType, FreshKeys DEF Candles
    <3>2. store[k] \in {Absent} \cup [value : Values, run : Runs]
      BY DEF Shape
    <3>3. ASSUME NEW n \in Fresh(r),
                 after[k] = [value |-> bars[r][n].value, run |-> r]
          PROVE  after[k] \in [value : Values, run : Runs]
      <4> HIDE DEF after
      <4> QED BY <3>1, <3>3
    <3>4. after[k] = store[k] \/ \E n \in Fresh(r) :
             after[k] = [value |-> bars[r][n].value, run |-> r]
      BY <1>2
    <3> HIDE DEF after
    <3> QED BY <3>2, <3>3, <3>4
  <2> QED BY <2>1, <2>2
<1> QED BY <1>2, <1>3, <1>4

\* What r has stored then is one candle for each fresh one.
LEMMA StoredCount ==
    ASSUME Shape, NEW r \in Runs, StoredBy(r) = {},
           store' = Stored(r, Fresh(r))
    PROVE  /\ Cardinality(StoredBy(r)') = Cardinality(Fresh(r))
           /\ \A q \in Runs \ {r} : StoredBy(q)' = StoredBy(q)
<1> DEFINE f == [n \in Fresh(r) |-> Key(bars[r][n])]
<1>1. bars[r] \in Seq(Candles)
  BY DEF Shape
<1>2. /\ DOMAIN store = Symbols \X Times /\ DOMAIN store' = Symbols \X Times
      /\ \A k \in Symbols \X Times :
             \/ store'[k] = store[k]
             \/ /\ store[k] = Absent
                /\ \E n \in Fresh(r) :
                      /\ k = Key(bars[r][n])
                      /\ store'[k] = [value |-> bars[r][n].value, run |-> r]
      /\ \A n \in Fresh(r) :
             store'[Key(bars[r][n])] = [value |-> bars[r][n].value, run |-> r]
  BY StoredFresh DEF Shape
<1>3. StoredBy(r)' = {k \in Symbols \X Times : store'[k].run = r}
  BY <1>2 DEF StoredBy
<1>4. ASSUME NEW n \in Fresh(r)
      PROVE  Key(bars[r][n]) \in StoredBy(r)'
  <2>1. Key(bars[r][n]) \in Symbols \X Times
    BY <1>1, KeyType, FreshKeys
  <2>2. store'[Key(bars[r][n])] = [value |-> bars[r][n].value, run |-> r]
    BY <1>2
  <2>3. store'[Key(bars[r][n])].run = r
    BY <2>2
  <2> QED BY <1>3, <2>1, <2>3
<1>5. \A k \in StoredBy(r)' : \E n \in Fresh(r) : k = Key(bars[r][n])
  BY <1>2, <1>3 DEF StoredBy
<1>6. f \in Bijection(Fresh(r), StoredBy(r)')
  <2>1. f \in [Fresh(r) -> StoredBy(r)']
    BY <1>4
  <2>2. f \in Injection(Fresh(r), StoredBy(r)')
    BY <1>1, <2>1, FreshKeys DEF Injection, IsInjective
  <2>3. f \in Surjection(Fresh(r), StoredBy(r)')
    BY <1>5, <2>1 DEF Surjection
  <2> QED BY <2>2, <2>3 DEF Bijection
<1>7. IsFiniteSet(Fresh(r))
  <2>1. Len(bars[r]) \in Nat /\ DOMAIN bars[r] = 1..Len(bars[r])
    BY <1>1
  <2>2. IsFiniteSet(DOMAIN bars[r])
    BY <2>1, FS_Interval
  <2> QED BY <2>2, FS_Subset DEF Fresh
<1>8. ASSUME NEW q \in Runs \ {r}
      PROVE  StoredBy(q)' = StoredBy(q)
  <2>1. Absent.run # q
    BY IngestionAssumption DEF Absent
  <2> QED BY <1>2, <2>1 DEF StoredBy
<1> QED BY <1>6, <1>7, <1>8, FS_Bijection DEF ExistsBijection

(***************************************************************************)
(* The steps.  A step of one import leaves the state of the others alone,  *)
(* and unless it commits, what the database holds as well.                 *)
(***************************************************************************)

OnlyOwn(r) ==
    \A q \in Runs \ {r} :
        /\ pc'[q] = pc[q] /\ bars'[q] = bars[q] /\ counts'[q] = counts[q]
        /\ issues'[q] = issues[q] /\ staged'[q] = staged[q]
        /\ audits'[q] = audits[q] /\ (lock' = q <=> lock = q)

\* A step of one run that stores no candle leaves the others as they are.
LEMMA OthersKeep ==
    ASSUME NEW r \in Runs, NEW q \in Runs \ {r}, OnlyOwn(r), UNCHANGED store,
           RunInv(q)
    PROVE  RunInv(q)'
<1>1. /\ pc'[q] = pc[q] /\ bars'[q] = bars[q] /\ counts'[q] = counts[q]
      /\ issues'[q] = issues[q] /\ staged'[q] = staged[q]
      /\ audits'[q] = audits[q] /\ (lock' = q <=> lock = q)
  BY DEF OnlyOwn
<1>2. StoredBy(q)' = StoredBy(q) /\ Completed(q)' = Completed(q)
  BY <1>1 DEF StoredBy, Completed
<1>3. Fresh(q)' = Fresh(q) /\ Conflicts(q)' = Conflicts(q)
  BY <1>1 DEF Fresh, Conflicts, Known, Duplicates, Prior, FirstOf
<1>4. AllExpected(q)' = AllExpected(q)
  BY <1>1 DEF AllExpected
<1>5. LockHeld(q)' /\ InStep(q)'
  BY <1>1, <1>2 DEF RunInv, LockHeld, InStep
<1>6. Received(q)'
  BY <1>1 DEF RunInv, Received
<1>7. Decided(q)'
  BY <1>1, <1>3, <1>4 DEF RunInv, Decided
<1>8. Reported(q)'
  BY <1>1, <1>2, <1>4 DEF RunInv, Reported
<1> QED BY <1>5, <1>6, <1>7, <1>8 DEF RunInv

\* A run records itself, or fails to.
LEMMA RecordStep ==
    ASSUME IndInv, NEW r \in Runs, Start(r) \/ StartFails(r)
    PROVE  IndInv'
<1>1. /\ pc[r] = "start" /\ RunInv(r) /\ Shape
      /\ UNCHANGED <<bars, counts, issues, staged, lock, store>>
      /\ \/ pc' = [pc EXCEPT ![r] = "plan"] /\ Recorded(r)
         \/ pc' = [pc EXCEPT ![r] = "raised"] /\ (Recorded(r) \/ UNCHANGED audits)
      /\ r \in Heard /\ pc' = [pc EXCEPT ![r] = "raised"] => UNCHANGED audits
  BY DEF Start, StartFails, Goto, import, IndInv, Heard, Shape
<1>2. [NoAudit EXCEPT !.status = "RUNNING"] \in AuditRows
  BY DEF NoAudit, NoCounts, AuditRows, Counts
<1>3. Shape' /\ OnlyOwn(r)
  <2>1. audits' \in [Runs -> AuditRows]
    BY <1>1, <1>2 DEF Recorded, Shape
  <2>2. \A q \in Runs \ {r} : audits'[q] = audits[q]
    BY <1>1 DEF Recorded, Shape
  <2> QED BY <1>1, <2>1, <2>2 DEF Shape, Ended, OnlyOwn
<1>4. audits'[r].status \in {"none", "RUNNING"} /\ StoredBy(r)' = {}
  <2>1. [NoAudit EXCEPT !.status = "RUNNING"].status = "RUNNING"
    BY DEF NoAudit
  <2> QED BY <1>1, <2>1 DEF Recorded, Shape, RunInv, InStep, StoredBy
<1>5. pc'[r] = "plan" => audits'[r].status = "RUNNING"
  BY <1>1 DEF Recorded, Shape, NoAudit
<1>6. RunInv(r)'
  <2>1. pc'[r] \in {"plan", "raised"} /\ ~Completed(r)'
    BY <1>1, <1>4 DEF Completed, Shape
  <2>2. LockHeld(r)' /\ InStep(r)' /\ Decided(r)' /\ Reported(r)'
    BY <1>1, <1>4, <1>5, <2>1 DEF RunInv, LockHeld, Locked, InStep, Working,
                                  Decided, Reported, Ended
  <2>3. Received(r)'
    BY <1>1, <2>1 DEF RunInv, Received, BeforeFetch
  <2> QED BY <2>2, <2>3 DEF RunInv
<1> QED BY <1>1, <1>3, <1>6, OthersKeep DEF IndInv

\* Whatever breaks, the run has stored nothing, and it gives back the lock.
LEMMA BrokenStep ==
    ASSUME IndInv, NEW r \in Runs, NEW types \in SUBSET IssueTypes,
           pc[r] \in Working, Broken(r, types),
           UNCHANGED <<bars, staged, store, audits>>,
           counts' \in [Runs -> Counts],
           \A q \in Runs \ {r} : counts'[q] = counts[q]
    PROVE  IndInv'
<1>1. Shape /\ RunInv(r) /\ NoRun \notin Runs
  BY IngestionAssumption DEF IndInv
<1>2. lock' # r /\ lock' \in Runs \cup {NoRun}
      /\ \A q \in Runs \ {r} : lock' = q <=> lock = q
  BY <1>1 DEF Broken, Released, Shape
<1>3. Shape' /\ OnlyOwn(r)
  BY <1>1, <1>2 DEF Shape, OnlyOwn, Broken, Find
<1>4. StoredBy(r)' = {} /\ audits'[r].status = "RUNNING" /\ pc'[r] = "rescue"
  BY <1>1 DEF RunInv, InStep, StoredBy, Broken, Shape
<1>5. LockHeld(r)' /\ InStep(r)' /\ Decided(r)' /\ Reported(r)'
  BY <1>2, <1>4 DEF LockHeld, InStep, Decided, Reported, Completed, Locked, Working
<1>6. Received(r)'
  BY <1>1, <1>4 DEF RunInv, Received, BeforeFetch
<1> QED BY <1>1, <1>3, <1>5, <1>6, OthersKeep DEF IndInv, RunInv

\* A run that fails before it has the lock, or in its transaction.
LEMMA FailStep ==
    ASSUME IndInv, NEW r \in Runs,
           \/ PlanFails(r) \/ FetchFails(r) \/ LockFails(r) \/ WriteFails(r)
           \/ ReceiveTooMany(r)
    PROVE  IndInv'
<1>1. Notes \cup {"CALENDAR_FAILURE"} \subseteq IssueTypes
      /\ {"CALENDAR_FAILURE", "PROVIDER_FAILURE", "PERSISTENCE_FAILURE"}
            \subseteq IssueTypes
  BY IngestionAssumption DEF IssueTypes
<1>2. Shape
  BY DEF IndInv
<1>3. CASE PlanFails(r)
  <2>1. PICK types \in SUBSET IssueTypes : Broken(r, types)
    BY <1>1, <1>3 DEF PlanFails
  <2> QED BY <1>2, <1>3, <2>1, BrokenStep DEF PlanFails, Working, Shape, database
<1>4. CASE FetchFails(r) \/ LockFails(r) \/ WriteFails(r)
  <2>1. PICK types \in SUBSET IssueTypes : Broken(r, types)
    BY <1>1, <1>4 DEF FetchFails, LockFails, WriteFails
  <2>2. pc[r] \in Working /\ UNCHANGED <<bars, counts, staged, database>>
    BY <1>4 DEF FetchFails, LockFails, WriteFails, Working, Locked
  <2> QED BY <1>2, <2>1, <2>2, BrokenStep DEF Shape, database
<1>5. CASE ReceiveTooMany(r)
  <2>1. counts[r] \in Counts
    BY <1>2 DEF Shape
  <2>2. [counts[r] EXCEPT !.received = @ + 1] \in Counts
    BY <2>1 DEF Counts
  <2>3. counts' = [counts EXCEPT ![r] = [counts[r] EXCEPT !.received = @ + 1]]
    BY <1>5 DEF ReceiveTooMany
  <2>4. counts' \in [Runs -> Counts] /\ \A q \in Runs \ {r} : counts'[q] = counts[q]
    BY <1>2, <2>2, <2>3 DEF Shape
  <2> QED BY <1>1, <1>5, <2>4, BrokenStep DEF ReceiveTooMany, Working, database
<1> QED BY <1>3, <1>4, <1>5

\* The calendar is asked.
LEMMA PlanStep ==
    ASSUME IndInv, NEW r \in Runs, Plan(r)
    PROVE  IndInv'
<1>1. Shape /\ RunInv(r)
  BY DEF IndInv
<1>2. Shape' /\ OnlyOwn(r)
  <2>1. Notes \subseteq IssueTypes
    BY IngestionAssumption DEF IssueTypes
  <2> QED BY <1>1, <2>1 DEF Plan, Goto, Find, database, Shape, OnlyOwn
<1>3. pc[r] = "plan" /\ pc'[r] = "fetch" /\ UNCHANGED <<audits, store>>
  BY <1>1 DEF Plan, Goto, Shape, database
<1>4. StoredBy(r)' = StoredBy(r) /\ Completed(r)' = Completed(r)
  BY <1>3 DEF StoredBy, Completed
<1>5. LockHeld(r)' /\ InStep(r)' /\ Decided(r)'
  BY <1>1, <1>3, <1>4 DEF Plan, RunInv, LockHeld, InStep, Decided, Locked,
                          Working, Ended
<1>6. Received(r)'
  BY <1>1, <1>3 DEF Plan, RunInv, Received, BeforeFetch
<1>7. Reported(r)'
  BY <1>1, <1>3, <1>4 DEF RunInv, InStep, Reported, Ended
<1> QED BY <1>1, <1>2, <1>3, <1>5, <1>6, <1>7, OthersKeep DEF IndInv, RunInv

\* A row is counted, once as received and once as valid or rejected.
LEMMA ReceiveStep ==
    ASSUME IndInv, NEW r \in Runs, Receive(r)
    PROVE  IndInv'
<1>1. Shape /\ RunInv(r) /\ MaxRows \in Nat
  BY IngestionAssumption DEF IndInv
<1>2. /\ pc[r] = "fetch" /\ counts[r].received < MaxRows
      /\ UNCHANGED <<pc, staged, lock, store, audits>>
  BY DEF Receive, WithinBound, Reject, Accept, database
<1>3. counts[r] \in Counts /\ bars[r] \in Seq(Candles)
  BY <1>1 DEF Shape
<1>4. PICK field \in {"rejected", "valid"}, types \in SUBSET IssueTypes :
          /\ counts' = [counts EXCEPT ![r].received = @ + 1, ![r][field] = @ + 1]
          /\ issues' = [issues EXCEPT ![r] = @ \cup types]
          /\ \/ field = "rejected" /\ UNCHANGED bars
             \/ /\ field = "valid"
                /\ \E row \in Candles : bars' = [bars EXCEPT ![r] = Append(@, row)]
  <2>1. PICK row \in Candles \cup {Malformed} :
           \/ Reject(r, "INVALID_BAR") \/ Reject(r, "UNEXPECTED_TIMESTAMP")
           \/ Valid(r, row) /\ Accept(r, row)
    BY DEF Receive
  <2>2. CASE Reject(r, "INVALID_BAR") \/ Reject(r, "UNEXPECTED_TIMESTAMP")
    <3>1. PICK type \in IssueTypes : Reject(r, type)
      BY <2>2 DEF IssueTypes
    <3>2. {type} \in SUBSET IssueTypes /\ "rejected" \in {"rejected", "valid"}
      OBVIOUS
    <3> QED BY <3>1, <3>2 DEF Reject, Find
  <2>3. CASE Valid(r, row) /\ Accept(r, row)
    <3>1. row \in Candles
      BY <2>1, <2>3 DEF Valid
    <3>2. (IF OutOfOrder(r, row) THEN {"OUT_OF_ORDER"} ELSE {}) \in SUBSET IssueTypes
      BY DEF IssueTypes
    <3> QED BY <2>3, <3>1, <3>2 DEF Accept, Find
  <2> QED BY <2>1, <2>2, <2>3
<1>5. counts' = [counts EXCEPT ![r] =
                    [counts[r] EXCEPT !.received = @ + 1, ![field] = @ + 1]]
  BY <1>4
<1>6. /\ counts'[r] \in Counts
      /\ counts'[r].received = counts[r].received + 1
      /\ counts'[r].valid = counts[r].valid + (IF field = "valid" THEN 1 ELSE 0)
      /\ counts'[r].rejected = counts[r].rejected + (IF field = "valid" THEN 0 ELSE 1)
  <2>1. counts'[r] = [counts[r] EXCEPT !.received = @ + 1, ![field] = @ + 1]
    BY <1>1, <1>5 DEF Shape
  <2> QED BY <1>3, <2>1, RowCounted
<1>7. /\ bars'[r] \in Seq(Candles)
      /\ \/ field = "rejected" /\ Len(bars'[r]) = Len(bars[r])
         \/ field = "valid" /\ Len(bars'[r]) = Len(bars[r]) + 1
  <2>1. CASE field = "rejected" /\ UNCHANGED bars
    BY <1>3, <2>1
  <2>2. CASE field = "valid"
    <3>1. PICK row \in Candles : bars' = [bars EXCEPT ![r] = Append(@, row)]
      BY <1>4, <2>2
    <3>2. bars'[r] = Append(bars[r], row)
      BY <1>1, <3>1 DEF Shape
    <3> QED BY <1>3, <2>2, <3>2
  <2> QED BY <1>4, <2>1, <2>2
<1>8. Shape' /\ OnlyOwn(r)
  <2>1. counts' \in [Runs -> Counts] /\ \A q \in Runs \ {r} : counts'[q] = counts[q]
    BY <1>1, <1>5, <1>6 DEF Shape
  <2>2. bars' \in [Runs -> Seq(Candles)] /\ \A q \in Runs \ {r} : bars'[q] = bars[q]
    BY <1>1, <1>4, <1>7 DEF Shape
  <2> QED BY <1>1, <1>2, <1>4, <2>1, <2>2 DEF Shape, OnlyOwn
<1>9. StoredBy(r)' = StoredBy(r) /\ Completed(r)' = Completed(r)
  BY <1>2 DEF StoredBy, Completed
<1>10. LockHeld(r)' /\ InStep(r)' /\ Decided(r)' /\ Reported(r)'
  BY <1>1, <1>2, <1>9 DEF RunInv, LockHeld, InStep, Decided, Reported, Locked,
                          Working, Ended
<1>11. Received(r)'
  <2>1. Len(bars[r]) <= counts[r].received /\ Len(bars[r]) \in Nat
        /\ counts[r].valid = Len(bars[r])
        /\ counts[r].received = counts[r].valid + counts[r].rejected
        /\ counts[r].valid \in Nat /\ counts[r].rejected \in Nat
    BY <1>1, <1>2, <1>3 DEF RunInv, Received, BeforeFetch, Counts
  <2>2. counts[r].received \in Nat
    BY <1>3 DEF Counts
  <2>3. /\ Len(bars'[r]) = Len(bars[r]) \/ Len(bars'[r]) = Len(bars[r]) + 1
        /\ Len(bars'[r]) <= MaxRows
    <3>1. Len(bars'[r]) = Len(bars[r]) \/ Len(bars'[r]) = Len(bars[r]) + 1
      BY <1>7, <2>1
    <3> QED BY <1>1, <1>2, <2>1, <2>2, <3>1
  <2>4. DOMAIN bars[r] \subseteq DOMAIN bars'[r]
    <3>1. DOMAIN bars[r] = 1..Len(bars[r]) /\ DOMAIN bars'[r] = 1..Len(bars'[r])
      BY <1>3, <1>7, SequenceDomain
    <3> QED BY <2>1, <2>3, <3>1
  <2>5. staged'[r] \subseteq DOMAIN bars'[r]
    BY <1>1, <1>2, <2>4 DEF RunInv, Received
  <2>6. counts'[r].valid = Len(bars'[r])
        /\ counts'[r].received = counts'[r].valid + counts'[r].rejected
    <3>1. CASE field = "valid"
      BY <1>6, <1>7, <2>1, <3>1
    <3>2. CASE field = "rejected"
      BY <1>6, <1>7, <2>1, <3>2
    <3> QED BY <3>1, <3>2
  <2> QED BY <2>3, <2>5, <2>6 DEF Received
<1> QED BY <1>1, <1>2, <1>8, <1>10, <1>11, OthersKeep DEF IndInv, RunInv

\* The end of the fetch finds every opening that no candle was received for.
LEMMA FetchEndsStep ==
    ASSUME IndInv, NEW r \in Runs, FetchEnds(r)
    PROVE  IndInv'
<1>1. Shape /\ RunInv(r)
  BY DEF IndInv
<1>2. Gaps(r) \subseteq IssueTypes
  BY DEF Gaps, IssueTypes
<1>3. Shape' /\ OnlyOwn(r)
  BY <1>1, <1>2 DEF FetchEnds, Goto, Find, database, Shape, OnlyOwn
<1>4. /\ pc[r] = "fetch" /\ pc'[r] = "persist" /\ UNCHANGED <<bars, audits, store>>
      /\ issues'[r] = issues[r] \cup Gaps(r)
  BY <1>1 DEF FetchEnds, Goto, Find, Shape, database
<1>5. StoredBy(r)' = StoredBy(r) /\ Completed(r)' = Completed(r)
  BY <1>4 DEF StoredBy, Completed
<1>6. LockHeld(r)' /\ InStep(r)' /\ Reported(r)'
  BY <1>1, <1>4, <1>5 DEF FetchEnds, RunInv, LockHeld, InStep, Reported, Locked,
                          Working, Ended
<1>7. Received(r)'
  BY <1>1, <1>4 DEF FetchEnds, RunInv, Received, BeforeFetch
<1>8. AllExpected(r) \/ "MISSING_BAR" \in Gaps(r)
  <2>1. CASE \E s \in Wanted[r] : Expected[r] \ Observed(r, s) # {}
    BY <2>1 DEF Gaps
  <2>2. CASE \A s \in Wanted[r] : Expected[r] \ Observed(r, s) = {}
    <3>1. ASSUME NEW s \in Wanted[r], NEW t \in Expected[r]
          PROVE  \E n \in DOMAIN bars[r] : Key(bars[r][n]) = <<s, t>>
      <4>1. t \in Observed(r, s)
        BY <2>2
      <4> QED BY <4>1 DEF Observed, Key
    <3> QED BY <3>1 DEF AllExpected
  <2> QED BY <2>1, <2>2
<1>9. Decided(r)'
  <2>1. AllExpected(r)' = AllExpected(r)
    BY <1>4 DEF AllExpected
  <2> QED BY <1>4, <1>8, <2>1 DEF Decided
<1> QED BY <1>1, <1>3, <1>4, <1>6, <1>7, <1>9, OthersKeep DEF IndInv, RunInv

\* The candles are compared with those stored, under the lock.
LEMMA LockStep ==
    ASSUME IndInv, NEW r \in Runs, Lock(r)
    PROVE  IndInv'
<1>1. Shape /\ RunInv(r) /\ NoRun \notin Runs
  BY IngestionAssumption DEF IndInv
<1>2. Shape' /\ OnlyOwn(r)
  BY <1>1 DEF Lock, LockFree, Goto, import, database, Shape, OnlyOwn
<1>3. /\ pc[r] = "persist" /\ pc'[r] = "merge" /\ lock' = r
      /\ UNCHANGED <<bars, counts, issues, staged, audits, store>>
  BY <1>1 DEF Lock, Goto, Shape, import, database
<1>4. /\ StoredBy(r)' = StoredBy(r) /\ Completed(r)' = Completed(r)
      /\ AllExpected(r)' = AllExpected(r)
  BY <1>3 DEF StoredBy, Completed, AllExpected
<1>5. LockHeld(r)' /\ InStep(r)' /\ Reported(r)'
  BY <1>1, <1>3, <1>4 DEF RunInv, LockHeld, InStep, Reported, Locked, Working, Ended
<1>6. Received(r)' /\ Decided(r)'
  BY <1>1, <1>3, <1>4 DEF RunInv, Received, BeforeFetch, Decided
<1> QED BY <1>1, <1>2, <1>3, <1>5, <1>6, OthersKeep DEF IndInv, RunInv

\* The transaction decides on every candle, and says of the conflicts.
LEMMA MergeStep ==
    ASSUME IndInv, NEW r \in Runs, Merge(r)
    PROVE  IndInv'
<1>1. Shape /\ RunInv(r)
  BY DEF IndInv
<1>2. counts[r] \in Counts /\ bars[r] \in Seq(Candles)
  BY <1>1 DEF Shape
<1>3. /\ pc[r] = "merge" /\ pc'[r] = "commit"
      /\ UNCHANGED <<bars, lock, audits, store>>
      /\ staged'[r] = Fresh(r) /\ counts'[r] = Tallied(r)
      /\ issues[r] \subseteq issues'[r]
      /\ Conflicts(r) # {} => "CONFLICT" \in issues'[r]
  BY <1>1 DEF Merge, Goto, Find, Shape, database
<1>4. /\ Tallied(r) \in Counts
      /\ Tallied(r).received = counts[r].received
      /\ Tallied(r).valid = counts[r].valid
      /\ Tallied(r).rejected = counts[r].rejected + Cardinality(Conflicts(r))
      /\ Tallied(r).inserted = Cardinality(Fresh(r))
      /\ Tallied(r).skipped = Cardinality(Duplicates(r))
      /\ Tallied(r).duplicates = Cardinality(Duplicates(r))
      /\ Tallied(r).conflicts = Cardinality(Conflicts(r))
  BY <1>2, CandlesCounted
<1>5. Balanced(Tallied(r))
  <2>1. /\ counts[r].valid = Len(bars[r])
        /\ counts[r].received = counts[r].valid + counts[r].rejected
        /\ counts[r].valid \in Nat /\ counts[r].rejected \in Nat
    BY <1>1, <1>2, <1>3 DEF RunInv, Received, BeforeFetch, Counts
  <2> QED BY <1>2, <1>4, <2>1, MergeCounts DEF Balanced
<1>6. Shape' /\ OnlyOwn(r)
  <2>1. Fresh(r) \in SUBSET Nat
    BY <1>2 DEF Fresh
  <2>2. issues' \in [Runs -> SUBSET IssueTypes]
    <3>1. {"DUPLICATE", "CONFLICT"} \subseteq IssueTypes
      BY DEF IssueTypes, InfoTypes
    <3> QED BY <1>1, <3>1 DEF Merge, Find, Shape
  <2>3. counts' \in [Runs -> Counts] /\ \A q \in Runs \ {r} : counts'[q] = counts[q]
    BY <1>1, <1>4 DEF Merge, Shape
  <2> QED BY <1>1, <2>1, <2>2, <2>3 DEF Merge, Find, Goto, database, Shape, OnlyOwn
<1>7. /\ StoredBy(r)' = StoredBy(r) /\ Completed(r)' = Completed(r)
      /\ AllExpected(r)' = AllExpected(r)
      /\ Fresh(r)' = Fresh(r) /\ Conflicts(r)' = Conflicts(r)
  BY <1>3 DEF StoredBy, Completed, AllExpected, Fresh, Conflicts, Known, Duplicates,
              Prior, FirstOf
<1>8. LockHeld(r)' /\ InStep(r)' /\ Reported(r)'
  BY <1>1, <1>3, <1>7 DEF RunInv, LockHeld, InStep, Reported, Locked, Working, Ended
<1>9. Received(r)'
  BY <1>1, <1>3, <1>2, FreshKeys DEF RunInv, Received, BeforeFetch
<1>10. Decided(r)'
  BY <1>1, <1>3, <1>4, <1>5, <1>7 DEF RunInv, Decided, Locked
<1> QED BY <1>1, <1>3, <1>6, <1>8, <1>9, <1>10, OthersKeep DEF IndInv, RunInv

\* The failure is recorded, or that fails as well.
LEMMA RescueStep ==
    ASSUME IndInv, NEW r \in Runs, Rescue(r)
    PROVE  IndInv'
<1>1. Shape /\ RunInv(r)
  BY DEF IndInv
<1>2. FailureRow(r) \in AuditRows /\ FailureRow(r).status = "FAILED"
      /\ [counts[r] EXCEPT !.inserted = 0] \in Counts
  <2>1. counts[r] \in Counts /\ issues[r] \in SUBSET IssueTypes
    BY <1>1 DEF Shape
  <2>2. [counts[r] EXCEPT !.inserted = 0] \in Counts
    BY <2>1 DEF Counts
  <2> QED BY <2>1, <2>2 DEF FailureRow, AuditRows
<1>3. Shape' /\ OnlyOwn(r)
  <2>1. counts' = [counts EXCEPT ![r] = [counts[r] EXCEPT !.inserted = 0]]
    BY DEF Rescue
  <2>2. counts' \in [Runs -> Counts] /\ \A q \in Runs \ {r} : counts'[q] = counts[q]
    BY <1>1, <1>2, <2>1 DEF Shape
  <2> QED BY <1>1, <1>2, <2>2 DEF Rescue, Goto, Shape, OnlyOwn, Ended
<1>4. /\ pc[r] = "rescue" /\ pc'[r] = "failed"
      /\ UNCHANGED <<bars, issues, staged, lock, store>>
      /\ audits'[r] = audits[r] \/ audits'[r].status = "FAILED"
  BY <1>1, <1>2 DEF Rescue, Goto, Shape
<1>5. /\ StoredBy(r)' = StoredBy(r) /\ AllExpected(r)' = AllExpected(r)
      /\ Completed(r)' => Completed(r) /\ audits'[r] = audits[r]
  BY <1>4 DEF StoredBy, Completed, AllExpected
<1>6. LockHeld(r)' /\ InStep(r)' /\ Decided(r)' /\ Reported(r)'
  BY <1>1, <1>4, <1>5 DEF RunInv, LockHeld, InStep, Decided, Reported, Locked,
                          Working, Ended
<1>7. Received(r)'
  BY <1>1, <1>4 DEF RunInv, Received, BeforeFetch
<1> QED BY <1>1, <1>3, <1>4, <1>6, <1>7, OthersKeep DEF IndInv, RunInv

\* The process dies, and its lock with it.
LEMMA CrashStep ==
    ASSUME IndInv, NEW r \in Runs, Crash(r)
    PROVE  IndInv'
<1>1. Shape /\ RunInv(r) /\ NoRun \notin Runs
  BY IngestionAssumption DEF IndInv
<1>2. lock' # r /\ lock' \in Runs \cup {NoRun}
      /\ \A q \in Runs \ {r} : lock' = q <=> lock = q
  BY <1>1 DEF Crash, Released, Shape
<1>3. Shape' /\ OnlyOwn(r)
  BY <1>1, <1>2 DEF Crash, Goto, import, database, Shape, OnlyOwn, Ended
<1>4. pc'[r] = "crashed" /\ UNCHANGED <<bars, counts, issues, staged, store, audits>>
  BY <1>1 DEF Crash, Goto, import, database, Shape
<1>5. /\ StoredBy(r)' = StoredBy(r) /\ Completed(r)' = Completed(r)
      /\ AllExpected(r)' = AllExpected(r)
  BY <1>4 DEF StoredBy, Completed, AllExpected
<1>6. LockHeld(r)' /\ InStep(r)' /\ Decided(r)' /\ Reported(r)'
  BY <1>1, <1>2, <1>4, <1>5 DEF RunInv, LockHeld, InStep, Decided, Reported, Locked,
                                Working, Ended
<1>7. Received(r)'
  BY <1>1, <1>4 DEF RunInv, Received, BeforeFetch
<1> QED BY <1>1, <1>3, <1>4, <1>6, <1>7, OthersKeep DEF IndInv, RunInv

(***************************************************************************)
(* The commit, whether or not the run hears of it.                         *)
(***************************************************************************)

\* It changes no candle of another run, none of which holds the lock.
LEMMA OthersSeeCommit ==
    ASSUME NEW r \in Runs, NEW q \in Runs \ {r}, OnlyOwn(r), RunInv(q), Shape,
           pc[q] \notin Locked, StoredBy(q)' = StoredBy(q),
           \A k \in Symbols \X Times : store[k] # Absent => store'[k] = store[k]
    PROVE  RunInv(q)'
<1>1. /\ pc'[q] = pc[q] /\ bars'[q] = bars[q] /\ counts'[q] = counts[q]
      /\ issues'[q] = issues[q] /\ staged'[q] = staged[q]
      /\ audits'[q] = audits[q] /\ (lock' = q <=> lock = q)
  BY DEF OnlyOwn
<1>2. Completed(q)' = Completed(q) /\ AllExpected(q)' = AllExpected(q)
  BY <1>1 DEF Completed, AllExpected
<1>3. LockHeld(q)' /\ InStep(q)' /\ Received(q)'
  BY <1>1, <1>2 DEF RunInv, LockHeld, InStep, Received
<1>4. Decided(q)'
  BY <1>1, <1>2 DEF RunInv, Decided, Locked
<1>5. ASSUME Completed(q), NEW n \in DOMAIN bars[q]
      PROVE  store'[Key(bars[q][n])] = store[Key(bars[q][n])]
  <2>1. bars[q] \in Seq(Candles)
    BY DEF Shape
  <2>2. Key(bars[q][n]) \in Symbols \X Times
    BY <2>1, KeyType
  <2> QED BY <1>5, <2>2 DEF RunInv, Reported
<1>6. Reported(q)'
  BY <1>1, <1>2, <1>5 DEF RunInv, Reported
<1> QED BY <1>3, <1>4, <1>6 DEF RunInv

\* The candles of the run that commits are there afterwards; where the stored
\* value is not the received one, the run has counted a conflict.
LEMMA CommitTells ==
    ASSUME Shape, NEW r \in Runs, store' = Stored(r, Fresh(r)),
           NEW n \in DOMAIN bars[r]
    PROVE  /\ store'[Key(bars[r][n])] # Absent
           /\ store'[Key(bars[r][n])].value # bars[r][n].value => Conflicts(r) # {}
<1> DEFINE k == Key(bars[r][n])
<1>1. bars[r] \in Seq(Candles)
  BY DEF Shape
<1>2. k \in Symbols \X Times
  BY <1>1, KeyType
<1>3. NoRun # r
  BY IngestionAssumption
<1>4. CASE store[k] # Absent
  <2>1. store'[k] = store[k]
    BY <1>2, <1>4, StoredFresh
  <2>2. n \notin Fresh(r) /\ Prior(r, n) = store[k].value
    BY <1>4 DEF Fresh, Prior
  <2> QED BY <1>4, <2>1, <2>2 DEF Conflicts, Known, Duplicates
<1>5. CASE store[k] = Absent
  <2> DEFINE m == FirstOf(r, n)
  <2>1. m \in Fresh(r) /\ Key(bars[r][m]) = k
    BY <1>1, <1>5, FreshKeys, FirstOfIs
  <2>2. store'[k] = [value |-> bars[r][m].value, run |-> r]
    BY <2>1, StoredFresh
  <2>3. store'[k] # Absent /\ store'[k].value = bars[r][m].value
    <3> HIDE DEF k, m
    <3>1. store'[k].run = r /\ store'[k].value = bars[r][m].value
      BY <2>2
    <3>2. Absent.run = NoRun
      BY DEF Absent
    <3> QED BY <1>3, <3>1, <3>2
  <2>4. CASE n \in Fresh(r)
    <3>1. m = n
      BY <1>1, <2>1, <2>4, FreshKeys
    <3> QED BY <2>3, <3>1
  <2>5. CASE n \notin Fresh(r)
    <3>1. Prior(r, n) = bars[r][m].value
      BY <1>5 DEF Prior
    <3> QED BY <2>3, <2>5, <3>1 DEF Conflicts, Known, Duplicates
  <2> QED BY <2>4, <2>5
<1> QED BY <1>4, <1>5

\* The candles and the end of the run are committed together.
LEMMA CommitStep ==
    ASSUME IndInv, NEW r \in Runs, Commit(r) \/ CommitUnheard(r)
    PROVE  IndInv'
<1>1. Shape /\ RunInv(r) /\ NoRun \notin Runs
  BY IngestionAssumption DEF IndInv
<1>2. /\ pc[r] = "commit" /\ lock = r
      /\ staged[r] = Fresh(r) /\ store' = Stored(r, Fresh(r))
      /\ audits' = [audits EXCEPT ![r] = [status |-> Verdict(r), counts |-> counts[r],
                                          issues |-> issues[r]]]
      /\ lock' = NoRun /\ UNCHANGED <<bars, counts, staged>>
  BY <1>1 DEF Commit, CommitUnheard, Published, RunInv, LockHeld, Locked, Decided,
              Broken, Released, import
<1>3. PICK after \in {"completed", "rescue"} :
         /\ pc' = [pc EXCEPT ![r] = after]
         /\ r \in Heard => after = "completed"
  BY DEF Commit, CommitUnheard, Goto, Broken, Heard
<1>4. issues' \in [Runs -> SUBSET IssueTypes]
      /\ \A q \in Runs \ {r} : issues'[q] = issues[q]
  <2>1. {"PERSISTENCE_FAILURE"} \subseteq IssueTypes
    BY DEF IssueTypes
  <2>2. CASE Commit(r)
    BY <1>1, <2>2 DEF Commit, import, Shape
  <2>3. CASE CommitUnheard(r)
    <3>1. issues' = [issues EXCEPT ![r] = @ \cup {"PERSISTENCE_FAILURE"}]
      BY <2>3 DEF CommitUnheard, Broken, Find
    <3> QED BY <1>1, <2>1, <3>1 DEF Shape
  <2> QED BY <2>2, <2>3
<1>5. Shape' /\ OnlyOwn(r)
  <2>1. store' \in [Symbols \X Times -> {Absent} \cup [value : Values, run : Runs]]
    BY <1>1, <1>2, StoredFresh
  <2>2. [status |-> Verdict(r), counts |-> counts[r], issues |-> issues[r]] \in AuditRows
    BY <1>1 DEF Shape, AuditRows, Verdict
  <2>3. audits' \in [Runs -> AuditRows] /\ \A q \in Runs \ {r} : audits'[q] = audits[q]
    BY <1>1, <1>2, <2>2 DEF Shape
  <2> QED BY <1>1, <1>2, <1>3, <1>4, <2>1, <2>3 DEF Shape, OnlyOwn, Ended
<1>6. /\ pc'[r] = after
      /\ audits'[r].status = Verdict(r) /\ audits'[r].counts = counts[r]
      /\ audits'[r].issues = issues[r]
  BY <1>1, <1>2, <1>3 DEF Shape
<1>7. Cardinality(StoredBy(r)') = Cardinality(Fresh(r))
      /\ \A q \in Runs \ {r} : StoredBy(q)' = StoredBy(q)
  BY <1>1, <1>2, StoredCount DEF RunInv, InStep, Working, Locked
<1>8. LockHeld(r)' /\ InStep(r)' /\ Decided(r)'
  BY <1>1, <1>2, <1>3, <1>6 DEF LockHeld, InStep, Decided, Locked, Working, Ended
<1>9. Received(r)'
  BY <1>1, <1>2, <1>3, <1>6 DEF RunInv, Received, BeforeFetch
<1>10. Reported(r)'
  <2>1. Balanced(counts[r]) /\ counts[r].inserted = Cardinality(Fresh(r))
        /\ (Conflicts(r) # {} => "CONFLICT" \in issues[r])
        /\ (AllExpected(r) \/ "MISSING_BAR" \in issues[r])
    BY <1>1, <1>2 DEF RunInv, Decided, Locked
  <2>2. audits'[r].status = "COMPLETED" => audits'[r].issues \subseteq InfoTypes
    BY <1>6 DEF Verdict
  <2>3. AllExpected(r)' = AllExpected(r)
    BY <1>2 DEF AllExpected
  <2>4. \A n \in DOMAIN bars[r] :
           /\ store'[Key(bars[r][n])] # Absent
           /\ store'[Key(bars[r][n])].value # bars[r][n].value => Conflicts(r) # {}
    BY <1>1, <1>2, CommitTells
  <2> QED BY <1>2, <1>6, <1>7, <2>1, <2>2, <2>3, <2>4 DEF Reported
<1>11. ASSUME NEW q \in Runs \ {r}
       PROVE  RunInv(q)'
  <2>1. RunInv(q) /\ pc[q] \notin Locked
    BY <1>2 DEF IndInv, RunInv, LockHeld
  <2>2. \A k \in Symbols \X Times : store[k] # Absent => store'[k] = store[k]
    BY <1>1, <1>2, StoredFresh
  <2> QED BY <1>1, <1>5, <1>7, <2>1, <2>2, OthersSeeCommit
<1>12. RunInv(r)'
  BY <1>8, <1>9, <1>10 DEF RunInv
<1> QED BY <1>5, <1>11, <1>12 DEF IndInv

(***************************************************************************)
(* The theorems.                                                           *)
(***************************************************************************)

\* Nothing is stored and no run has begun.
LEMMA InitHolds == Init => IndInv
<1> SUFFICES ASSUME Init PROVE IndInv
  OBVIOUS
<1>1. NoRun \notin Runs /\ MaxRows \in Nat
  BY IngestionAssumption
<1>2. Shape
  <2>1. NoCounts \in Counts
    BY DEF NoCounts, Counts
  <2>2. NoAudit \in AuditRows
    BY <2>1 DEF NoAudit, AuditRows
  <2> QED BY <2>1, <2>2 DEF Init, Shape
<1>3. ASSUME NEW r \in Runs
      PROVE  RunInv(r)
  <2>1. StoredBy(r) = {} /\ ~Completed(r)
    BY <1>1 DEF Init, StoredBy, Absent, Completed, NoAudit
  <2>2. LockHeld(r) /\ InStep(r) /\ Decided(r) /\ Reported(r)
    BY <1>1, <2>1 DEF Init, LockHeld, InStep, Decided, Reported, Locked, Working,
                      NoAudit
  <2>3. Received(r)
    BY <1>1 DEF Init, Received, NoCounts
  <2> QED BY <2>2, <2>3 DEF RunInv
<1> QED BY <1>2, <1>3 DEF IndInv

\* Every step keeps the invariant.
LEMMA StepHolds == IndInv /\ [Next]_vars => IndInv'
<1> SUFFICES ASSUME IndInv, [Next]_vars PROVE IndInv'
  OBVIOUS
<1>1. CASE UNCHANGED vars
  <2>1. Shape'
    BY <1>1 DEF vars, IndInv, Shape
  <2>2. \A r \in Runs : OnlyOwn(r)
    BY <1>1 DEF vars, OnlyOwn
  <2>3. ASSUME NEW r \in Runs
        PROVE  RunInv(r)'
    <3>1. RunInv(r)
      BY DEF IndInv
    <3>2. /\ StoredBy(r)' = StoredBy(r) /\ Completed(r)' = Completed(r)
          /\ AllExpected(r)' = AllExpected(r)
          /\ Fresh(r)' = Fresh(r) /\ Conflicts(r)' = Conflicts(r)
      BY <1>1 DEF vars, StoredBy, Completed, AllExpected, Fresh, Conflicts, Known,
                  Duplicates, Prior, FirstOf
    <3> QED BY <1>1, <3>1, <3>2 DEF vars, RunInv, LockHeld, InStep, Received, Decided,
                                    Reported
  <2> QED BY <2>1, <2>3 DEF IndInv
<1>2. ASSUME NEW r \in Runs, Work(r) \/ Crash(r)
      PROVE  IndInv'
  BY <1>2, RecordStep, PlanStep, FailStep, ReceiveStep, FetchEndsStep, LockStep,
     MergeStep, CommitStep, RescueStep, CrashStep DEF Work
<1> QED BY <1>1, <1>2 DEF Next, AllEnded

\* The invariant holds throughout.
LEMMA Inductive == Spec => []IndInv
  BY InitHolds, StepHolds, PTL DEF Spec

\* The types of an import's state, and that it never keeps more candles than
\* max_provider_rows allows.
THEOREM ImportsTypeCorrect == Spec => []TypeOK
<1>1. IndInv => TypeOK
  <2> SUFFICES ASSUME IndInv PROVE TypeOK
    OBVIOUS
  <2>1. \A r \in Runs : audits[r] \in AuditRows
    BY DEF IndInv, Shape
  <2> QED BY <2>1 DEF IndInv, Shape, TypeOK, RunInv, Received, AuditRows
<1> QED BY <1>1, Inductive, PTL

\* What an import has read under the advisory lock still holds when it writes:
\* no insert meets the unique constraint, whatever other imports do meanwhile.
THEOREM LockKeepsFresh == Spec => []StagedStillFresh
<1>1. IndInv => StagedStillFresh
  BY DEF IndInv, RunInv, Decided, StagedStillFresh, Clashes, Fresh
<1> QED BY <1>1, Inductive, PTL

\* The counters of a completed run add up, and it has as many candles in the
\* store as it claims to have inserted.
THEOREM CountersReconcile == Spec => []CountsReconcile
<1>1. IndInv => CountsReconcile
  BY DEF IndInv, RunInv, Reported, Balanced, CountsReconcile
<1> QED BY <1>1, Inductive, PTL

\* A run that completes without a warning found a candle for every symbol and
\* opening it asked for, each of which is stored with the value it received.
THEOREM CleanImportsComplete == Spec => []CleanImportComplete
<1>1. IndInv => CleanImportComplete
  <2>1. {"MISSING_BAR", "CONFLICT"} \cap InfoTypes = {}
    BY DEF InfoTypes
  <2> QED BY <2>1 DEF IndInv, RunInv, Reported, Completed, AllExpected,
                      CleanImportComplete
<1> QED BY <1>1, Inductive, PTL

\* A completed run that received another value than the one that is stored
\* reports a conflict.
THEOREM EveryConflictSurfaces == Spec => []ConflictsSurface
<1>1. IndInv => ConflictsSurface
  BY DEF IndInv, RunInv, Reported, ConflictsSurface
<1> QED BY <1>1, Inductive, PTL

\* Only a commit changes the store, of a run that has stored nothing yet.
LEMMA CommitWrites ==
    ASSUME IndInv, NEW r \in Runs, Commit(r) \/ CommitUnheard(r)
    PROVE  /\ audits[r].status = "RUNNING" /\ StoredBy(r) = {}
           /\ store' = Stored(r, Fresh(r))
           /\ audits' = [audits EXCEPT ![r] =
                            [status |-> Verdict(r), counts |-> counts[r],
                             issues |-> issues[r]]]
  BY DEF Commit, CommitUnheard, Published, IndInv, RunInv, InStep, Decided, Working,
         Locked

\* Only a commit stores candles.
LEMMA OtherStepsWriteNothing ==
    ASSUME [Next]_vars,
           \A r \in Runs : ~ (Commit(r) \/ CommitUnheard(r))
    PROVE  UNCHANGED store
<1>1. ASSUME NEW r \in Runs, Work(r) \/ Crash(r)
      PROVE  UNCHANGED store
  <2>1. CASE \/ Start(r) \/ StartFails(r) \/ Plan(r) \/ PlanFails(r) \/ Receive(r)
             \/ ReceiveTooMany(r) \/ FetchFails(r) \/ FetchEnds(r)
    BY <2>1 DEF Start, StartFails, Plan, PlanFails, Receive, ReceiveTooMany,
                FetchFails, FetchEnds, database
  <2>2. CASE \/ Lock(r) \/ LockFails(r) \/ Merge(r) \/ WriteFails(r) \/ Rescue(r)
             \/ Crash(r)
    BY <2>2 DEF Lock, LockFails, Merge, WriteFails, Rescue, Crash, database
  <2> QED BY <1>1, <2>1, <2>2 DEF Work
<1> QED BY <1>1 DEF Next, AllEnded, vars

\* A stored candle is never changed or removed, and each run adds its candles
\* in one step: no upsert, no partial import, no second import under one id.
THEOREM StoredOnce == Spec => WriteOnce
<1> DEFINE A == /\ \A k \in DOMAIN store : store[k] # Absent => store'[k] = store[k]
                /\ \A r \in Runs : StoredBy(r) # {} => StoredBy(r)' = StoredBy(r)
<1>1. IndInv /\ [Next]_vars => [A]_vars
  <2> SUFFICES ASSUME IndInv, [Next]_vars PROVE A
    OBVIOUS
  <2>1. CASE UNCHANGED store
    BY <2>1 DEF StoredBy
  <2>2. ASSUME NEW r \in Runs, Commit(r) \/ CommitUnheard(r)
        PROVE  A
    <3>1. Shape /\ StoredBy(r) = {} /\ store' = Stored(r, Fresh(r))
      BY <2>2, CommitWrites DEF IndInv
    <3>2. \A k \in DOMAIN store : store[k] # Absent => store'[k] = store[k]
      BY <3>1, StoredFresh DEF Shape
    <3>3. \A q \in Runs \ {r} : StoredBy(q)' = StoredBy(q)
      BY <3>1, StoredCount
    <3> QED BY <3>1, <3>2, <3>3
  <2> QED BY <2>1, <2>2, OtherStepsWriteNothing
<1> QED BY <1>1, Inductive, PTL DEF Spec, WriteOnce

\* What the audit table shows of a run, and how a step changes it.
Said(r) == IF Completed(r) THEN "COMPLETED" ELSE audits[r].status

\* What the database says of one run changes alone.
LEMMA SaidChanges ==
    ASSUME NEW r \in Heard, NEW said, Said(r)' = said,
           \A q \in Heard \ {r} : Said(q)' = Said(q)
    PROVE  [q \in Heard |-> Said(q)]' = [[q \in Heard |-> Said(q)] EXCEPT ![r] = said]
  OBVIOUS

\* The imports that hear of their commits implement the audit table's promise:
\* candles appear with the completion of their run, a failed one has none, and
\* a recorded end is final.
THEOREM ImportAuditImplemented == Spec => ImplementsAudit
<1>1. Init => Audit!AuditInit
  <2> SUFFICES ASSUME Init PROVE Audit!AuditInit
    OBVIOUS
  <2>1. Heard \subseteq Runs /\ NoRun \notin Runs
    BY IngestionAssumption DEF Heard
  <2>2. \A r \in Heard : StoredBy(r) = {} /\ ~Completed(r) /\ audits[r].status = "none"
    BY <2>1 DEF Init, StoredBy, Absent, Completed, NoAudit
  <2> QED BY <2>2 DEF Audit!AuditInit
<1>2. IndInv /\ [Next]_vars => [Audit!AuditNext]_(Audit!auditVars)
  <2> SUFFICES ASSUME IndInv, [Next]_vars
               PROVE  [Audit!AuditNext]_(Audit!auditVars)
    OBVIOUS
  <2>1. Heard \subseteq Runs /\ Heard = Runs \ Unheard /\ Shape
    BY DEF Heard, IndInv
  <2>2. CASE UNCHANGED <<audits, store>>
    BY <2>2 DEF Audit!auditVars, Completed, StoredBy
  <2>3. ASSUME NEW r \in Heard, Start(r)
        PROVE  Audit!Open(r)
    <3>1. /\ audits' = [audits EXCEPT ![r] = [NoAudit EXCEPT !.status = "RUNNING"]]
          /\ UNCHANGED store /\ audits[r].status = "none"
      BY <2>1, <2>3 DEF Start, Recorded, IndInv, RunInv, InStep
    <3>2. audits'[r].status = "RUNNING" /\ \A q \in Heard \ {r} : audits'[q] = audits[q]
      BY <2>1, <3>1 DEF Shape, NoAudit
    <3>3. \A q \in Heard : StoredBy(q)' = StoredBy(q)
      BY <3>1 DEF StoredBy
    <3>4. /\ Said(r) = "none" /\ Said(r)' = "RUNNING"
          /\ \A q \in Heard \ {r} : Said(q)' = Said(q)
      BY <3>1, <3>2 DEF Said, Completed
    <3>5. {q \in Heard : StoredBy(q) # {}}' = {q \in Heard : StoredBy(q) # {}}
      BY <3>3
    <3>6. [q \in Heard |-> Said(q)]' = [[q \in Heard |-> Said(q)] EXCEPT ![r] = "RUNNING"]
      BY <3>4, SaidChanges
    <3>7. [q \in Heard |-> Said(q)][r] = "none"
      BY <3>4
    <3> QED BY <3>5, <3>6, <3>7 DEF Audit!Open, Said
  <2>4. ASSUME NEW r \in Heard, Commit(r)
        PROVE  Audit!Complete(r)
    <3>1. /\ audits[r].status = "RUNNING" /\ StoredBy(r) = {}
          /\ store' = Stored(r, Fresh(r))
          /\ audits' = [audits EXCEPT ![r] =
                           [status |-> Verdict(r), counts |-> counts[r],
                            issues |-> issues[r]]]
      BY <2>1, <2>4, CommitWrites
    <3>2. audits'[r].status = Verdict(r) /\ \A q \in Heard \ {r} : audits'[q] = audits[q]
      BY <2>1, <3>1 DEF Shape
    <3>3. \A q \in Heard \ {r} : StoredBy(q)' = StoredBy(q)
      BY <2>1, <3>1, StoredCount
    <3>4. /\ Said(r) = "RUNNING" /\ Said(r)' = "COMPLETED"
          /\ \A q \in Heard \ {r} : Said(q)' = Said(q)
      BY <3>1, <3>2 DEF Said, Completed, Verdict
    <3>5. {q \in Heard : StoredBy(q) # {}}' \in {{q \in Heard : StoredBy(q) # {}},
                                             {q \in Heard : StoredBy(q) # {}} \cup {r}}
      BY <3>1, <3>3
    <3>6. [q \in Heard |-> Said(q)]'
            = [[q \in Heard |-> Said(q)] EXCEPT ![r] = "COMPLETED"]
      BY <3>4, SaidChanges
    <3>7. [q \in Heard |-> Said(q)][r] = "RUNNING"
      BY <3>4
    <3> QED BY <3>5, <3>6, <3>7 DEF Audit!Complete, Said
  <2>5. ASSUME NEW r \in Heard, Rescue(r), audits' # audits
        PROVE  Audit!Refuse(r)
    <3>1. /\ audits' = [audits EXCEPT ![r] = FailureRow(r)]
          /\ UNCHANGED store /\ audits[r].status = "RUNNING"
      BY <2>1, <2>5 DEF Rescue, IndInv, RunInv, InStep
    <3>2. audits'[r].status = "FAILED" /\ \A q \in Heard \ {r} : audits'[q] = audits[q]
      BY <2>1, <3>1 DEF Shape, FailureRow
    <3>3. \A q \in Heard : StoredBy(q)' = StoredBy(q)
      BY <3>1 DEF StoredBy
    <3>4. /\ Said(r) = "RUNNING" /\ Said(r)' = "FAILED"
          /\ \A q \in Heard \ {r} : Said(q)' = Said(q)
      BY <3>1, <3>2 DEF Said, Completed
    <3>5. {q \in Heard : StoredBy(q) # {}}' = {q \in Heard : StoredBy(q) # {}}
      BY <3>3
    <3>6. [q \in Heard |-> Said(q)]' = [[q \in Heard |-> Said(q)] EXCEPT ![r] = "FAILED"]
      BY <3>4, SaidChanges
    <3>7. [q \in Heard |-> Said(q)][r] = "RUNNING"
      BY <3>4
    <3> QED BY <3>5, <3>6, <3>7 DEF Audit!Refuse, Said
  <2>6. ASSUME NEW r \in Unheard, r \in Runs,
               \/ Start(r) \/ StartFails(r) \/ Commit(r) \/ CommitUnheard(r)
               \/ Rescue(r)
        PROVE  UNCHANGED Audit!auditVars
    <3>1. \A q \in Heard : audits'[q] = audits[q]
      BY <2>1, <2>6, CommitWrites DEF Start, StartFails, Recorded, Rescue, Shape
    <3>2. \A q \in Heard : StoredBy(q)' = StoredBy(q)
      <4>1. CASE Commit(r) \/ CommitUnheard(r)
        BY <2>1, <2>6, <4>1, CommitWrites, StoredCount
      <4>2. CASE UNCHANGED store
        BY <4>2 DEF StoredBy
      <4> QED BY <2>6, <4>1, <4>2 DEF Start, StartFails, Rescue
    <3> QED BY <3>1, <3>2 DEF Audit!auditVars, Completed
  <2>7. ASSUME NEW r \in Runs, Work(r) \/ Crash(r)
        PROVE  [Audit!AuditNext]_(Audit!auditVars)
    <3>1. CASE \/ Plan(r) \/ PlanFails(r) \/ Receive(r) \/ ReceiveTooMany(r)
               \/ FetchFails(r) \/ FetchEnds(r)
      BY <2>2, <3>1 DEF Plan, PlanFails, Receive, ReceiveTooMany, FetchFails,
                        FetchEnds, database
    <3>2. CASE Lock(r) \/ LockFails(r) \/ Merge(r) \/ WriteFails(r) \/ Crash(r)
      BY <2>2, <3>2 DEF Lock, LockFails, Merge, WriteFails, Crash, database
    <3>3. CASE /\ r \in Unheard
               /\ \/ Start(r) \/ StartFails(r) \/ Commit(r) \/ CommitUnheard(r)
                  \/ Rescue(r)
      BY <2>6, <3>3
    <3>4. CASE r \in Heard /\ (Start(r) \/ Commit(r))
      BY <2>3, <2>4, <3>4 DEF Audit!AuditNext
    <3>5. CASE r \in Heard /\ Rescue(r)
      <4>1. UNCHANGED store
        BY <3>5 DEF Rescue
      <4> QED BY <2>2, <2>5, <3>5, <4>1 DEF Audit!AuditNext
    <3>6. CASE r \in Heard /\ (StartFails(r) \/ CommitUnheard(r))
      BY <2>1, <2>2, <3>6 DEF StartFails, CommitUnheard
    <3> QED BY <2>1, <2>7, <3>1, <3>2, <3>3, <3>4, <3>5, <3>6 DEF Work
  <2> QED BY <2>2, <2>7 DEF Next, AllEnded, vars
<1> QED BY <1>1, <1>2, Inductive, PTL DEF Spec, ImplementsAudit, Audit!AuditSpec

=============================================================================
