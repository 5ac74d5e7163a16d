------------------------ MODULE BacktestAuditProofs ------------------------
(***************************************************************************)
(* Theorems about the audit rows and results of backtests, for all sets of *)
(* backtests and readers, and whichever of them hear of their commits.     *)
(***************************************************************************)
EXTENDS BacktestAudit, FiniteSetTheorems, TLAPS

(***************************************************************************)
(* The inductive invariant.                                                *)
(***************************************************************************)

\* Where a run is says what its row and its tables are: nothing before it has
\* started, RUNNING without rows until it saves, and, for one that hears of
\* its commits, the same still when it turns to recording its failure.
RunsInStep ==
    \A r \in Runs :
        /\ pc[r] = "start" => status[r] = "none" /\ rows[r] = {}
        /\ pc[r] \in {"simulate", "save"} =>
               status[r] = "RUNNING" /\ rows[r] = {}
        /\ r \in Heard /\ pc[r] = "rescue" =>
               status[r] = "RUNNING" /\ rows[r] = {}

\* A run has all of its tables or none, and all of them once it is completed.
AllOrNothing ==
    \A r \in Runs : /\ rows[r] \in {{}, Tables}
                    /\ status[r] \in Completed => rows[r] = Tables

\* A reader that was let in, or has its answer, asks for a run whose tables
\* are there, which is completed still if it heard of its commit.
ReadersLetIn ==
    \A d \in Readers :
        asked[d] # Nobody /\ answer[d] # "none" =>
            /\ rows[asked[d]] = Tables
            /\ asked[d] \in Heard => status[asked[d]] \in Completed

\* What a reader has got is what it has queried, all of it when it is done.
ReadersInStep ==
    \A d \in Readers :
        /\ got[d] = passed[d]
        /\ asked[d] = Nobody => answer[d] = "reading"
        /\ answer[d] = "reading" => passed[d] # Tables
        /\ answer[d] = "result" => passed[d] = Tables

IndInv == /\ TypeOK
          /\ RunsInStep
          /\ AllOrNothing
          /\ ReadersLetIn
          /\ ReadersInStep

(***************************************************************************)
(* The tables.                                                             *)
(***************************************************************************)

\* There are five tables at most.
LEMMA TablesFinite == IsFiniteSet(Tables) /\ Cardinality(Tables) <= 5
<1> DEFINE Up(n) == {TableOrder[k] : k \in 1..n}
<1>1. IsFiniteSet(Up(0)) /\ Cardinality(Up(0)) <= 0
  <2>1. Up(0) = {}
    OBVIOUS
  <2> QED BY <2>1, FS_EmptySet
<1>2. ASSUME NEW n \in Nat, IsFiniteSet(Up(n)), Cardinality(Up(n)) <= n
      PROVE  IsFiniteSet(Up(n + 1)) /\ Cardinality(Up(n + 1)) <= n + 1
  <2>1. Up(n + 1) = Up(n) \cup {TableOrder[n + 1]}
    <3> HIDE DEF TableOrder
    <3> QED BY 1..(n + 1) = 1..n \cup {n + 1}
  <2>2. Cardinality(Up(n)) \in Nat
    BY <1>2, FS_CardinalityType
  <2> HIDE DEF Up
  <2> QED BY <1>2, <2>1, <2>2, FS_AddElement
<1>3. Up(5) = Tables
  BY DEF Tables
<1> HIDE DEF Up
<1>4. \A n \in 0..4 : IsFiniteSet(Up(n)) /\ Cardinality(Up(n)) <= n =>
                       IsFiniteSet(Up(n + 1)) /\ Cardinality(Up(n + 1)) <= n + 1
  BY <1>2
<1> QED BY <1>1, <1>3, <1>4

\* As long as a table is left to query, the next one is one of the tables.
LEMMA NextTable ==
    ASSUME NEW S \in SUBSET Tables, S # Tables
    PROVE  TableOrder[Cardinality(S) + 1] \in Tables
<1>1. Cardinality(S) \in Nat /\ Cardinality(Tables) \in Nat
  BY TablesFinite, FS_Subset, FS_CardinalityType
<1>2. Cardinality(S) <= Cardinality(Tables) /\ Cardinality(S) # Cardinality(Tables)
  BY TablesFinite, FS_Subset
<1>3. Cardinality(S) + 1 \in 1..5
  BY <1>1, <1>2, TablesFinite
<1> QED BY <1>3 DEF Tables

(***************************************************************************)
(* The steps of a run.                                                     *)
(***************************************************************************)

\* The first record, the work and its failure, whichever way they end, leave
\* the tables and the readers alone.
LEMMA StartStep ==
    ASSUME IndInv, NEW r \in Runs, Start(r)
    PROVE  IndInv'
<1> USE DEF IndInv, Start, Goto, Becomes, reading
<1>1. TypeOK'
  BY DEF TypeOK
<1>2. RunsInStep' /\ AllOrNothing'
  BY DEF TypeOK, RunsInStep, AllOrNothing, Completed
<1>3. ReadersLetIn'
  BY DEF TypeOK, ReadersLetIn, RunsInStep, Completed, Nobody
<1>4. ReadersInStep'
  BY DEF ReadersInStep
<1> QED BY <1>1, <1>2, <1>3, <1>4

\* A run that could not begin leaves its audit row, if any, and nothing else.
LEMMA StartFailsStep ==
    ASSUME IndInv, NEW r \in Runs, StartFails(r)
    PROVE  IndInv'
<1> USE DEF IndInv, StartFails, Goto, Becomes, reading
<1>1. TypeOK'
  BY DEF TypeOK, Over
<1>2. RunsInStep' /\ AllOrNothing'
  BY DEF TypeOK, RunsInStep, AllOrNothing, Completed
<1>3. ReadersLetIn'
  BY DEF TypeOK, ReadersLetIn, RunsInStep, Completed, Nobody
<1>4. ReadersInStep'
  BY DEF ReadersInStep
<1> QED BY <1>1, <1>2, <1>3, <1>4

\* Before it saves, a run changes nothing but where it is, and how it ended.
LEMMA WorkStep ==
    ASSUME IndInv, NEW r \in Runs,
           Simulate(r) \/ SimulateFails(r) \/ SaveFails(r) \/ Crash(r)
    PROVE  IndInv'
<1> USE DEF IndInv, Simulate, SimulateFails, SaveFails, Crash, Goto, reading
<1>1. TypeOK'
  BY DEF TypeOK, Over
<1>2. RunsInStep'
  BY DEF TypeOK, RunsInStep
<1>3. AllOrNothing' /\ ReadersLetIn' /\ ReadersInStep'
  BY DEF AllOrNothing, ReadersLetIn, ReadersInStep
<1> QED BY <1>1, <1>2, <1>3

\* The tables appear together with the completion, whether or not the run
\* hears of it.
LEMMA SavedStep ==
    ASSUME IndInv, NEW r \in Runs, Save(r) \/ SaveUnheard(r)
    PROVE  IndInv'
<1> USE DEF IndInv
<1>1. /\ Saved(r)
      /\ pc' \in {[pc EXCEPT ![r] = "returned"], [pc EXCEPT ![r] = "rescue"]}
      /\ r \in Heard => pc' = [pc EXCEPT ![r] = "returned"]
      /\ UNCHANGED reading
  BY DEF Save, SaveUnheard, Goto, Heard
<1>2. TypeOK'
  BY <1>1 DEF TypeOK, Over, Saved, Becomes, reading, Completed
<1>3. RunsInStep'
  BY <1>1 DEF TypeOK, RunsInStep, Saved, Becomes
<1>4. AllOrNothing'
  BY <1>1 DEF TypeOK, AllOrNothing, Saved, Becomes
<1>5. ReadersLetIn'
  BY <1>1 DEF TypeOK, ReadersLetIn, Saved, Becomes, reading, Nobody
<1>6. ReadersInStep'
  BY <1>1 DEF ReadersInStep, reading
<1> QED BY <1>2, <1>3, <1>4, <1>5, <1>6

\* A run that hears of its commits records a failure of a run that stored
\* nothing; no reader was let in to it.
LEMMA RescueStep ==
    ASSUME IndInv, NEW r \in Runs, Rescue(r)
    PROVE  IndInv'
<1> USE DEF IndInv, Rescue, Goto, Becomes, reading
<1>1. TypeOK'
  BY DEF TypeOK, Over, FailureStatus
<1>2. RunsInStep' /\ AllOrNothing'
  BY DEF TypeOK, RunsInStep, AllOrNothing, Completed, FailureStatus
<1>3. ReadersLetIn'
  BY DEF TypeOK, ReadersLetIn, RunsInStep, Completed, Nobody, Heard
<1>4. ReadersInStep'
  BY DEF ReadersInStep
<1> QED BY <1>1, <1>2, <1>3, <1>4

(***************************************************************************)
(* The steps of a reader.                                                  *)
(***************************************************************************)

\* A reader is let in by a run that is completed.
LEMMA AskStep ==
    ASSUME IndInv, NEW d \in Readers, NEW r \in Runs, Ask(d, r)
    PROVE  IndInv'
<1> USE DEF IndInv, Ask
<1>1. TypeOK'
  BY DEF TypeOK
<1>2. RunsInStep' /\ AllOrNothing'
  BY DEF RunsInStep, AllOrNothing
<1>3. ReadersLetIn'
  BY DEF TypeOK, ReadersLetIn, AllOrNothing, Readable
<1>4. ReadersInStep'
  BY AuditAssumption DEF TypeOK, ReadersInStep
<1> QED BY <1>1, <1>2, <1>3, <1>4

\* The tables of a run that a reader was let in to are there to stay, so that
\* each statement finds what it asks for.
LEMMA ReadStep ==
    ASSUME IndInv, NEW d \in Readers, Read(d)
    PROVE  IndInv'
<1> USE DEF IndInv
<1> DEFINE table == TableOrder[Cardinality(passed[d]) + 1]
<1>1. table \in Tables
  BY NextTable DEF TypeOK, ReadersInStep, Read
<1>2. /\ asked[d] # Nobody /\ answer[d] = "reading"
      /\ passed' = [passed EXCEPT ![d] = @ \cup {table}]
      /\ got' = [got EXCEPT ![d] = @ \cup (rows[asked[d]] \cap {table})]
      /\ answer' = [answer EXCEPT ![d] =
                      IF passed'[d] = Tables THEN "result" ELSE "reading"]
      /\ UNCHANGED <<pc, status, rows, asked>>
  BY DEF Read
<1> HIDE DEF table
<1>3. TypeOK'
  BY <1>1, <1>2 DEF TypeOK
<1>4. RunsInStep' /\ AllOrNothing' /\ ReadersLetIn'
  BY <1>2 DEF TypeOK, RunsInStep, AllOrNothing, ReadersLetIn
<1>5. rows[asked[d]] \cap {table} = {table}
  BY <1>1, <1>2 DEF ReadersLetIn
<1>6. ReadersInStep'
  BY <1>2, <1>5 DEF TypeOK, ReadersInStep
<1> QED BY <1>3, <1>4, <1>6

(***************************************************************************)
(* The theorems.                                                           *)
(***************************************************************************)

\* No run is recorded and nobody has asked.
LEMMA InitHolds == Init => IndInv
<1> SUFFICES ASSUME Init PROVE IndInv
  OBVIOUS
<1> USE DEF Init
<1>1. TypeOK
  BY DEF TypeOK
<1>2. RunsInStep /\ AllOrNothing
  BY DEF RunsInStep, AllOrNothing, Completed
<1>3. ReadersLetIn
  BY DEF ReadersLetIn
<1>4. Tables # {}
  BY DEF Tables
<1>5. ReadersInStep
  BY <1>4 DEF ReadersInStep
<1> QED BY <1>1, <1>2, <1>3, <1>5 DEF IndInv

\* Every step keeps the invariant.
LEMMA StepHolds == IndInv /\ [Next]_vars => IndInv'
<1> SUFFICES ASSUME IndInv, [Next]_vars PROVE IndInv'
  OBVIOUS
<1>1. CASE UNCHANGED vars
  BY <1>1 DEF vars, reading, IndInv, TypeOK, RunsInStep, AllOrNothing,
              ReadersLetIn, ReadersInStep
<1>2. ASSUME NEW r \in Runs,
             \/ Start(r) \/ StartFails(r) \/ Simulate(r) \/ SimulateFails(r)
             \/ Save(r) \/ SaveUnheard(r) \/ SaveFails(r) \/ Rescue(r) \/ Crash(r)
      PROVE  IndInv'
  BY <1>2, StartStep, StartFailsStep, WorkStep, SavedStep, RescueStep
<1>3. ASSUME NEW d \in Readers, Read(d) \/ \E r \in Runs : Ask(d, r)
      PROVE  IndInv'
  BY <1>3, ReadStep, AskStep
<1> QED BY <1>1, <1>2, <1>3 DEF Next, AllOver

\* The invariant holds throughout.
LEMMA Inductive == Spec => []IndInv
  BY InitHolds, StepHolds, PTL DEF Spec

\* A result that get_result returns has all of its tables (the statements of
\* load_result each see another state of the database).
THEOREM ResultsWhole == Spec => []ResultWhole
<1>1. IndInv => ResultWhole
  BY DEF IndInv, ReadersInStep, ResultWhole
<1> QED BY <1>1, Inductive, PTL

\* A run whose result a reader has been given is completed for ever, if it
\* hears of its own commits.
THEOREM AnswersStand == Spec => []AnswerStands
<1>1. IndInv => AnswerStands
  BY AuditAssumption
     DEF IndInv, TypeOK, ReadersLetIn, ReadersInStep, AnswerStands, Heard
<1> QED BY <1>1, Inductive, PTL

\* The runs that hear of their commits implement the audit table's promise:
\* their tables appear with their completion, a failed one has none, and what
\* the row says at the end it says for ever.
THEOREM AuditImplemented == Spec => ImplementsAudit
<1>1. Init => Audit!AuditInit
  BY DEF Init, Audit!AuditInit, Heard, Completed
<1>2. IndInv /\ [Next]_vars => [Audit!AuditNext]_(Audit!auditVars)
  <2> SUFFICES ASSUME IndInv, [Next]_vars
               PROVE  [Audit!AuditNext]_(Audit!auditVars)
    OBVIOUS
  <2>0. Heard \subseteq Runs
    BY DEF Heard
  <2>1. CASE UNCHANGED <<status, rows>>
    BY <2>1 DEF Audit!auditVars
  <2>2. ASSUME NEW r \in Heard, Start(r)
        PROVE  Audit!Open(r)
    BY <2>0, <2>2 DEF Start, Becomes, IndInv, TypeOK, RunsInStep, Audit!Open, Completed
  <2>3. ASSUME NEW r \in Heard, Save(r)
        PROVE  Audit!Complete(r)
    <3>1. Tables # {}
      BY DEF Tables
    <3>2. {q \in Heard : rows'[q] # {}} = {q \in Heard : rows[q] # {}} \cup {r}
      BY <2>0, <2>3, <3>1 DEF Save, Saved, IndInv, TypeOK
    <3>3. PICK final \in Completed : status' = [status EXCEPT ![r] = final]
      BY <2>3 DEF Save, Saved, Becomes
    <3>4. status[r] = "RUNNING"
      BY <2>3 DEF Save, Saved
    <3> QED BY <2>0, <3>2, <3>3, <3>4 DEF IndInv, TypeOK, Audit!Complete, Completed
  <2>4. ASSUME NEW r \in Heard, Rescue(r), status' # status
        PROVE  Audit!Refuse(r)
    BY <2>0, <2>4 DEF Rescue, Becomes, IndInv, TypeOK, RunsInStep, FailureStatus,
                      Audit!Refuse, Completed
  <2>5. ASSUME NEW r \in Unheard, StartFails(r) \/ Start(r) \/ Rescue(r)
        PROVE  UNCHANGED Audit!auditVars
    BY <2>5, AuditAssumption DEF StartFails, Start, Rescue, Becomes, Heard,
            Audit!auditVars, IndInv, TypeOK
  <2>6. ASSUME NEW r \in Unheard, Save(r) \/ SaveUnheard(r)
        PROVE  UNCHANGED Audit!auditVars
    BY <2>6, AuditAssumption DEF Save, SaveUnheard, Saved, Becomes, Heard,
            Audit!auditVars, IndInv, TypeOK
  <2>7. ASSUME NEW r \in Runs,
               \/ Start(r) \/ StartFails(r) \/ Simulate(r) \/ SimulateFails(r)
               \/ Save(r) \/ SaveUnheard(r) \/ SaveFails(r) \/ Rescue(r) \/ Crash(r)
        PROVE  [Audit!AuditNext]_(Audit!auditVars)
    <3>1. CASE r \in Heard
      <4>1. CASE Start(r)
        BY <2>2, <3>1, <4>1 DEF Audit!AuditNext
      <4>2. CASE Save(r)
        BY <2>3, <3>1, <4>2 DEF Audit!AuditNext
      <4>3. CASE Rescue(r)
        <5>1. UNCHANGED rows
          BY <4>3 DEF Rescue
        <5> QED BY <2>1, <2>4, <3>1, <4>3, <5>1 DEF Audit!AuditNext
      <4>4. CASE ~ (Start(r) \/ Save(r) \/ Rescue(r))
        <5>1. UNCHANGED <<status, rows>>
          BY <2>7, <3>1, <4>4 DEF Heard, StartFails, Simulate, SimulateFails,
                                  SaveUnheard, SaveFails, Crash
        <5> QED BY <2>1, <5>1
      <4> QED BY <4>1, <4>2, <4>3, <4>4
    <3>2. CASE r \in Unheard
      <4>1. CASE Simulate(r) \/ SimulateFails(r) \/ SaveFails(r) \/ Crash(r)
        BY <2>1, <4>1 DEF Simulate, SimulateFails, SaveFails, Crash
      <4> QED BY <2>5, <2>6, <2>7, <3>2, <4>1
    <3> QED BY <3>1, <3>2 DEF Heard
  <2>8. ASSUME NEW d \in Readers, Read(d) \/ \E r \in Runs : Ask(d, r)
        PROVE  UNCHANGED <<status, rows>>
    BY <2>8 DEF Read, Ask
  <2> QED BY <2>1, <2>7, <2>8 DEF Next, AllOver, vars
<1> QED BY <1>1, <1>2, Inductive, PTL DEF Spec, ImplementsAudit, Audit!AuditSpec
=============================================================================
