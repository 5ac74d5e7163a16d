---------------------------- MODULE FeatureStore ----------------------------
(***************************************************************************)
(* Stored feature sets: generators compute a set from a snapshot of the    *)
(* candles and save it under a key that digests all that it was computed   *)
(* from; backtests load a set by its key and check that it is still what   *)
(* the candles say.  Imports add candles meanwhile.  All are processes of  *)
(* their own around one database; any of their statements may fail, and    *)
(* the answer to a commit may be lost.                                     *)
(*                                                                         *)
(* Candles are written once (module Ingestion), so that two snapshots that *)
(* hold the same candles hold the same values: a candle is its symbol and  *)
(* slot.  A digest is the value it digests.                                *)
(***************************************************************************)
EXTENDS FeatureSeries, FiniteSets

CONSTANTS
    Imports, Generators, Loaders,
    SymbolOrder,    \* the requested symbols, in order
    Wanted,         \* Wanted[r]: the candles import r may store
    Requests,       \* ranges of slots, each a pair of first and last
    Asked           \* Asked[l]: the range of the backtest that l loads for

Symbols == {SymbolOrder[n] : n \in DOMAIN SymbolOrder}

Nobody == "no import"
AllWanted == UNION {Wanted[r] : r \in Imports}

\* Where a process may be; a backtest that fetches the rows of a symbol is at
\* that symbol.
Places == {"start", "import", "save", "check", "insert", "manifest", "snapshot"}

Outcomes == {"done", "inserted", "reused", "incomplete", "raised",
             "unidentified", "missing", "stale", "disagrees", "loaded"}

ASSUME StoreAssumption ==
    /\ SymbolOrder \in Seq(Symbols) /\ SymbolOrder # <<>>
    /\ Symbols \cap (Places \cup Outcomes) = {}
    /\ Nobody \notin Imports
    /\ Imports \cap (Generators \cup Loaders) = {}
    /\ Generators \cap Loaders = {}
    /\ Requests \subseteq Nat \X Nat
    /\ Asked \in [Loaders -> Requests]
    /\ \A r \in Imports : Wanted[r] \subseteq Symbols \X Nat
    /\ IsFiniteSet(AllWanted)

NoKey == [request |-> <<0, 0>>, candles |-> {}, datasets |-> {}]

VARIABLES
    pc,         \* where each process is
    store,      \* the committed candles: which import each came from
    identities, \* the imports whose dataset identity is recorded
    sets,       \* the table of feature sets: key and row count
    values,     \* the table of feature values: key and row
    key,        \* the key that a process has computed, or loads
    rows        \* the rows that a process has computed, or read

vars == <<pc, store, identities, sets, values, key, rows>>

Processes == Generators \cup Loaders

Init ==
    /\ pc = [p \in Imports \cup Processes |-> "start"]
    /\ store = [c \in AllWanted |-> Nobody]
    /\ identities = {}
    /\ sets = {} /\ values = {}
    /\ key = [p \in Processes |-> NoKey]
    /\ rows = [p \in Processes |-> {}]

Goto(p, next) == pc' = [pc EXCEPT ![p] = next]

Stored == {c \in DOMAIN store : store[c] # Nobody}

(***************************************************************************)
(* Imports, as far as they matter here.                                    *)
(***************************************************************************)

\* Mutant of Announced: an import of candles that are there already records
\* no identity.
AnnouncedFresh(r) == IF Wanted[r] \cap Stored = {} THEN {r} ELSE {}

Announced(r) == {r}

\* The identity is committed with the run, before any candle.
BeginImport(r) ==
    /\ pc[r] = "start"
    /\ identities' = identities \cup Announced(r)
    /\ Goto(r, "import")
    /\ UNCHANGED <<store, sets, values, key, rows>>

\* Some of the candles that nobody has stored; none, if it fails.
EndImport(r) ==
    /\ pc[r] = "import"
    /\ \E new \in SUBSET (Wanted[r] \ Stored) :
          store' = [c \in DOMAIN store |-> IF c \in new THEN r ELSE store[c]]
    /\ Goto(r, "done")
    /\ UNCHANGED <<identities, sets, values, key, rows>>

(***************************************************************************)
(* The snapshot and its key.                                               *)
(***************************************************************************)

\* Both queries of get_snapshot see one state of the database.
Snapshot(range) == {c \in Stored : range[1] <= c[2] /\ c[2] <= range[2]}

Origins(candles) == {store[c] : c \in candles}

Identified(candles) == Origins(candles) \subseteq identities

\* The engine refuses a symbol without a candle.
Computable(candles) == {c[1] : c \in candles} = Symbols

\* Mutant of KeyOf: the requested range is not part of the key.
KeyOfCandles(range, candles) ==
    [request |-> CHOOSE q \in Requests : TRUE, candles |-> candles,
     datasets |-> {Wanted[r] : r \in Origins(candles)}]

\* A dataset key digests what its import asked for, not who it was.
KeyOf(range, candles) ==
    [request |-> range, candles |-> candles,
     datasets |-> {Wanted[r] : r \in Origins(candles)}]

Computed(range, candles) == RowsOf(candles, range[1])

Fails(p, outcome) ==
    /\ Goto(p, outcome)
    /\ UNCHANGED <<store, identities, sets, values, key, rows>>

(***************************************************************************)
(* Generators.                                                             *)
(***************************************************************************)

Compute(g) ==
    /\ pc[g] = "start"
    /\ \E range \in Requests :
         LET candles == Snapshot(range)
         IN  /\ Identified(candles) /\ Computable(candles)
             /\ key' = [key EXCEPT ![g] = KeyOf(range, candles)]
             /\ rows' = [rows EXCEPT ![g] = Computed(range, candles)]
    /\ Goto(g, "save")
    /\ UNCHANGED <<store, identities, sets, values>>

ComputeFails(g) ==
    /\ pc[g] = "start"
    /\ \E range \in Requests :
          Fails(g, IF Identified(Snapshot(range)) THEN "raised" ELSE "unidentified")

\* Mutant of KeyFree: identical writers are not serialised.
KeyFreeIgnored(k) == TRUE

\* Nobody else is in a transaction that has locked this key.
KeyFree(k) == \A g \in Generators : pc[g] \in {"check", "insert"} => key[g] # k

LockKey(g) ==
    /\ pc[g] = "save" /\ KeyFree(key[g])
    /\ Goto(g, "check")
    /\ UNCHANGED <<store, identities, sets, values, key, rows>>

SetsWith(k) == {s \in sets : s.key = k}
ValuesWith(k) == {v \in values : v.key = k}

\* A set that is there is reused, when the row counts agree.
Whole(g) ==
    \A s \in SetsWith(key[g]) :
        /\ s.count = Cardinality(ValuesWith(key[g]))
        /\ s.count = Cardinality(rows[g])

CheckExisting(g) ==
    /\ pc[g] = "check"
    /\ \/ SetsWith(key[g]) = {} /\ Goto(g, "insert")
       \/ /\ SetsWith(key[g]) # {}
          /\ Goto(g, IF Whole(g) THEN "reused" ELSE "incomplete")
    /\ UNCHANGED <<store, identities, sets, values, key, rows>>

\* Mutant of Insert: the set commits before its values do, and the process
\* may not get further.
InsertSetFirst(g) ==
    /\ SetsWith(key[g]) = {}
    /\ sets' = sets \cup {[key |-> key[g], count |-> Cardinality(rows[g])]}
    /\ \/ values' = values \cup {[key |-> key[g], row |-> row] : row \in rows[g]}
       \/ UNCHANGED values

\* The set and all batches of its values commit together, unless the key is
\* taken by now.
Insert(g) ==
    /\ SetsWith(key[g]) = {}
    /\ sets' = sets \cup {[key |-> key[g], count |-> Cardinality(rows[g])]}
    /\ values' = values \cup {[key |-> key[g], row |-> row] : row \in rows[g]}

CommitSet(g) ==
    /\ pc[g] = "insert"
    /\ Insert(g)
    /\ \/ Goto(g, "inserted")
       \/ Goto(g, "raised")         \* the answer is lost
    /\ UNCHANGED <<store, identities, key, rows>>

\* The transaction fails, or the process dies, and nothing stays.
SaveFails(g) == pc[g] \in {"save", "check", "insert"} /\ Fails(g, "raised")

(***************************************************************************)
(* Backtests load their inputs.  Every statement but those of the snapshot *)
(* is a transaction of its own.                                            *)
(***************************************************************************)

\* The configuration names a key that some generator has computed.
Configure(l, k) ==
    /\ pc[l] = "start"
    /\ key' = [key EXCEPT ![l] = k]
    /\ Goto(l, "manifest")
    /\ UNCHANGED <<store, identities, sets, values, rows>>

GetManifest(l) ==
    /\ pc[l] = "manifest"
    /\ \/ SetsWith(key[l]) # {} /\ Goto(l, "snapshot")
       \/ SetsWith(key[l]) = {} /\ Goto(l, "missing")
    /\ UNCHANGED <<store, identities, sets, values, key, rows>>

\* Mutant of Agrees: only the candles are compared.
AgreesOnCandles(l) == key[l].candles = Snapshot(Asked[l])

Agrees(l) == key[l] = KeyOf(Asked[l], Snapshot(Asked[l]))

\* The set is computed anew, and its key compared with the configured one.
\* What was computed is kept to be compared with what is stored.
Recompute(l) ==
    /\ pc[l] = "snapshot"
    /\ LET candles == Snapshot(Asked[l])
       IN  \/ /\ Identified(candles) /\ Computable(candles) /\ Agrees(l)
              /\ rows' = [rows EXCEPT ![l] = Computed(Asked[l], candles)]
              /\ Goto(l, SymbolOrder[1])
           \/ /\ ~(Identified(candles) /\ Computable(candles) /\ Agrees(l))
              /\ Goto(l, CASE ~Identified(candles) -> "unidentified"
                           [] Identified(candles) /\ ~Computable(candles) -> "raised"
                           [] OTHER -> "stale")
              /\ UNCHANGED rows
    /\ UNCHANGED <<store, identities, sets, values, key>>

\* get_features: the stored rows of the symbol that lie in the range.
Fetched(l, s) ==
    {row \in {v.row : v \in ValuesWith(key[l])} :
        row.symbol = s /\ Asked[l][1] <= row.slot /\ row.slot <= Asked[l][2]}

RowsFor(l, s) == {row \in rows[l] : row.symbol = s}

\* The stored rows, one symbol after another.  The comparison with those
\* computed, which the code makes at the end, is made as they come.
Fetch(l, n) ==
    /\ pc[l] = SymbolOrder[n]
    /\ Goto(l, IF Fetched(l, SymbolOrder[n]) # RowsFor(l, SymbolOrder[n])
               THEN "disagrees"
               ELSE IF n = Len(SymbolOrder) THEN "loaded" ELSE SymbolOrder[n + 1])
    /\ UNCHANGED <<store, identities, sets, values, key, rows>>

LoadFails(l) ==
    /\ pc[l] \in {"manifest", "snapshot"} \cup Symbols
    /\ Fails(l, "raised")

\* A backtest whose generators have all failed before their key has none to
\* load.
AllOver ==
    /\ \A r \in Imports : pc[r] = "done"
    /\ \A p \in Processes : pc[p] \in Outcomes \/ (p \in Loaders /\ pc[p] = "start")
    /\ UNCHANGED vars

Next ==
    \/ \E r \in Imports : BeginImport(r) \/ EndImport(r)
    \/ \E g \in Generators :
         \/ Compute(g) \/ ComputeFails(g) \/ LockKey(g) \/ CheckExisting(g)
         \/ CommitSet(g) \/ SaveFails(g)
    \/ \E l \in Loaders :
         \/ \E g \in Generators : key[g] # NoKey /\ Configure(l, key[g])
         \/ GetManifest(l) \/ Recompute(l) \/ LoadFails(l)
         \/ \E n \in DOMAIN SymbolOrder : Fetch(l, n)
    \/ AllOver

Spec == Init /\ [][Next]_vars

(***************************************************************************)
(* Properties.                                                             *)
(***************************************************************************)

Keys == [request : Requests, candles : SUBSET AllWanted,
         datasets : SUBSET {Wanted[r] : r \in Imports}]

Rows == [symbol : Symbols, slot : Nat, inputs : SUBSET Nat,
         withheld : {"no", "WARMUP", "GAP_WARMUP"}, gapBefore : BOOLEAN]

TypeOK ==
    /\ pc \in [Imports \cup Processes ->
                 Places \cup Symbols \cup Outcomes]
    /\ store \in [AllWanted -> Imports \cup {Nobody}]
    /\ identities \subseteq Imports
    /\ \A s \in sets : s.key \in Keys /\ s.count \in Nat \ {0}
    /\ \A v \in values : v.key \in Keys /\ v.row \in Rows
    /\ key \in [Processes -> Keys \cup {NoKey}]
    /\ \A p \in Processes : rows[p] \subseteq Rows

\* Two snapshot queries and an import that commits its identity long before
\* its candles: a candle never lacks the identity of its import.
AlwaysIdentified == \A p \in Processes : pc[p] # "unidentified"

\* Writers of one set never meet at its primary key, whatever fails.
WritersNeverClash ==
    \A g \in Generators : pc[g] = "insert" => SetsWith(key[g]) = {}

\* A generator that ends well, by storing or by reusing a set that was there,
\* leaves under its key exactly the rows that it has computed.
SavedAsComputed ==
    \A g \in Generators : pc[g] \in {"inserted", "reused"} =>
        {v.row : v \in ValuesWith(key[g])} = rows[g]

\* No stored set is ever found incomplete, and a backtest that finds its key
\* current finds the rows that it computes: the two defensive checks on
\* stored sets never fire.
StoredSetsHold == \A p \in Processes : pc[p] \notin {"incomplete", "disagrees"}

\* The unbroken run of candles of a symbol up to a slot.
RunUpTo(candles, s, t) ==
    {u \in 0..t : \A v \in u..t : <<s, v>> \in candles}

\* Every stored row is computed from exactly the unbroken run of candles that
\* ends with its own, and its values are withheld when that run is too short.
RowsFromUnbrokenRuns ==
    \A v \in values :
        LET run == RunUpTo(v.key.candles, v.row.symbol, v.row.slot)
            short == Cardinality(run) <= Lookback
            whole == v.key.request[1] \in run
        IN  /\ v.row.inputs = run
            /\ v.row.withheld = CASE ~short -> "no"
                                  [] short /\ whole -> "WARMUP"
                                  [] short /\ ~whole -> "GAP_WARMUP"

UpTo(k, s, t) == {c \in k.candles : c[1] = s /\ c[2] <= t}

\* Two stored sets of one range agree on every row up to which their candles
\* agree: what is imported later never changes an earlier feature.
FeaturesCausal ==
    \A v, w \in values :
        /\ v.key.request = w.key.request
        /\ v.row.symbol = w.row.symbol /\ v.row.slot = w.row.slot
        /\ UpTo(v.key, v.row.symbol, v.row.slot) = UpTo(w.key, w.row.symbol, w.row.slot)
        => v.row = w.row

\* Candles that the range of a key has, and the key does not know.
Overtaken(k) ==
    \E c \in Stored \ k.candles : k.request[1] <= c[2] /\ c[2] <= k.request[2]

\* A backtest that sets out with a key that is overtaken, or of another range
\* than its own, does not load, however long it takes.
StaleNeverLoads ==
    \A l \in Loaders :
        [](/\ pc[l] = "manifest"
           /\ Overtaken(key[l]) \/ key[l].request # Asked[l]
           => [](pc[l] # "loaded"))
=============================================================================
