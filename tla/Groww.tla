------------------------------- MODULE Groww -------------------------------
(***************************************************************************)
(* The Groww provider: one fetch of historical candles.  The names and     *)
(* conventions of all symbols are settled before the first call; then each *)
(* symbol's range is asked for in chunks no longer than the vendor allows. *)
(* The vendor counts in whole seconds and includes both ends of a chunk,   *)
(* the request's range excludes its end.                                   *)
(***************************************************************************)
EXTENDS Integers, Sequences, FiniteSets, FiniteSetsExt, SequencesExt

CONSTANTS
    Symbols,        \* what may be asked for
    Mapped,         \* the symbols with a name at the vendor
    Second,         \* instants of a second of the vendor
    MaxRange,       \* the longest chunk
    Histories,      \* what the vendor may have: openings of each symbol
    Wanted          \* requests: symbols in order, start, end, and whether
                    \* adjustment and interval are those of the semantics

\* What a request's own validation lets through.
ValidRequest(w) ==
    w.start < w.end /\ w.symbols # <<>> /\ IsInjective(w.symbols)

ASSUME GrowwAssumption ==
    /\ Mapped \subseteq Symbols
    /\ Second \in Nat \ {0} /\ MaxRange \in Nat /\ Second <= MaxRange
    /\ \A h \in Histories : \A s \in Symbols : \A t \in h[s] :
          t \in Nat /\ t % Second = 0
    /\ \A w \in Wanted : /\ w.symbols \in Seq(Symbols)
                         /\ w.start \in Nat /\ w.end \in Nat
                         /\ ValidRequest(w)

VARIABLES
    wanted,         \* the request
    quotes,         \* quotes[s]: the openings the vendor has of a symbol
    step,           \* where the fetch is
    part,           \* the place of its symbol in the request
    cursor,         \* where its next chunk starts
    rows            \* the rows yielded so far

growwVars == <<wanted, quotes, step, part, cursor, rows>>

GrowwInit ==
    /\ wanted \in Wanted
    /\ quotes \in Histories
    /\ step = "resolve"
    /\ part = 1
    /\ cursor = wanted.start
    /\ rows = <<>>

Resolves == wanted.agreed /\ ToSet(wanted.symbols) \subseteq Mapped

Resolve ==
    /\ step = "resolve"
    /\ step' = IF Resolves THEN "ask" ELSE "failed"
    /\ UNCHANGED <<wanted, quotes, part, cursor, rows>>

\* The vendor's candles of a symbol between two whole seconds.
Whole(t) == t - (t % Second)
Answer(symbol, from, to) ==
    {t \in quotes[symbol] : Whole(from) <= t /\ t <= Whole(to)}

\* They come in order.
Ascending(times) ==
    CHOOSE q \in [1..Cardinality(times) -> times] :
        \A n, m \in DOMAIN q : n < m => q[n] < q[m]

Lower(a, b) == IF a < b THEN a ELSE b

ChunkEnd == Lower(cursor + MaxRange, wanted.end)

\* Mutant of Yielded: the vendor's inclusive end is taken over.
YieldedInclusive(answer, spoiled) == answer

\* A candle at the request's very end is dropped, unless its timestamp
\* cannot be read.
Yielded(answer, spoiled) ==
    {t \in answer : t \in spoiled \/ t # wanted.end}

\* A row that cannot be read is handed on without its values, to be counted
\* as rejected; symbol and time are kept here only to tell what it was.
Row(symbol, t, spoiled) ==
    [symbol |-> symbol, time |-> t, blank |-> t \in spoiled]

Chunk ==
    /\ step = "ask"
    /\ LET symbol == wanted.symbols[part]
           answer == Answer(symbol, cursor, ChunkEnd)
       IN  \E spoiled \in SUBSET answer :
              LET times == Ascending(Yielded(answer, spoiled))
              IN  rows' = rows \o [n \in DOMAIN times |->
                                     Row(symbol, times[n], spoiled)]
    /\ \/ /\ ChunkEnd < wanted.end
          /\ cursor' = ChunkEnd
          /\ UNCHANGED <<step, part>>
       \/ /\ ChunkEnd = wanted.end /\ part < Len(wanted.symbols)
          /\ part' = part + 1
          /\ cursor' = wanted.start
          /\ UNCHANGED step
       \/ /\ ChunkEnd = wanted.end /\ part = Len(wanted.symbols)
          /\ step' = "done"
          /\ UNCHANGED <<part, cursor>>
    /\ UNCHANGED <<wanted, quotes>>

\* The call fails, its interval contradicts the request, or there is no
\* list of candles; what was yielded before stays yielded.
ChunkFails ==
    /\ step = "ask"
    /\ step' = "failed"
    /\ UNCHANGED <<wanted, quotes, part, cursor, rows>>

GrowwNext == Resolve \/ Chunk \/ ChunkFails

GrowwOver == step \in {"done", "failed"}

(***************************************************************************)
(* Properties.                                                             *)
(***************************************************************************)

Copies(symbol, t) ==
    Cardinality({n \in DOMAIN rows :
                   rows[n].symbol = symbol /\ rows[n].time = t})

\* The whole seconds at which one chunk ends and another starts.
Seams ==
    {Whole(wanted.start + k * MaxRange) :
        k \in {j \in 1..(wanted.end - wanted.start) :
                 wanted.start + j * MaxRange < wanted.end}}

\* A fetch that is done has handed on every candle the vendor has of every
\* symbol in the range asked for, once or at a seam of two chunks twice, none
\* from the excluded end on that could be read, and a symbol's candles in
\* their order.
FetchComplete ==
    step = "done" =>
        /\ \A symbol \in ToSet(wanted.symbols) : \A t \in quotes[symbol] :
              LET copies == Copies(symbol, t)
              IN  CASE t \in Seams -> copies = 2
                    [] t \notin Seams /\ Whole(wanted.start) <= t
                         /\ t < wanted.end -> copies = 1
                    [] OTHER ->
                         \A n \in DOMAIN rows :
                            rows[n].symbol = symbol /\ rows[n].time = t =>
                               rows[n].blank /\ t = wanted.end
        /\ \A n, m \in DOMAIN rows :
              n < m /\ rows[n].symbol = rows[m].symbol =>
                 rows[n].time <= rows[m].time
=============================================================================
