------------------------------ MODULE Baseline ------------------------------
(***************************************************************************)
(* The baseline trend strategy, in the event loop of a backtest.  It has   *)
(* one instance for each symbol, is called after every completed candle,   *)
(* and remembers what it did: it enters once on a signal, protects what it *)
(* holds by a stop and a target in one OCO group, placed anew whenever the *)
(* holding has changed, and sells on a reversal of the trend.              *)
(*                                                                         *)
(* A reference the strategy makes up is distinct from all others; what it  *)
(* says is recovered from elsewhere: its cycle from the instance's memory, *)
(* its reason from the type of the order that carries it.                  *)
(***************************************************************************)
EXTENDS Simulation

CONSTANTS
    Quantity,       \* shares an entry asks for
    EntryWindow,    \* the times at which it may enter
    Ranges,         \* average true ranges an entry may see, in ticks
    StopMultiple,
    TargetMultiple,
    Label           \* Label[s]: the references s makes up, in order

ASSUME BaselineAssumption ==
    /\ Quantity \in Nat \ {0}
    /\ EntryWindow \subseteq Nat
    /\ Ranges \subseteq Nat \ {0}
    /\ StopMultiple \in Nat \ {0} /\ TargetMultiple \in Nat \ {0}

NoEntry == "no entry"

\* References one evaluation makes up at most: two cancellations, a group, a
\* stop and a target.
LongestAnswer == 5

\* A made-up reference holds the symbol and a number that only grows: it is
\* like no other, and there are enough for a call after every candle.
ASSUME LabelAssumption ==
    /\ \A s \in Symbols :
         /\ Label[s] \in Seq((References \cap Groups)
                               \ {ForcedReference, NoEntry})
         /\ Len(Label[s]) >= LongestAnswer * (Sessions * Slots)
    /\ \A s, t \in Symbols :
         \A m \in DOMAIN Label[s], n \in DOMAIN Label[t] :
             Label[s][m] = Label[t][n] => s = t /\ m = n

NoBasis == [quantity |-> 0, amount |-> 0]

VARIABLE memory     \* of the instance of each symbol

baselineVars == <<vars, memory>>

NewMemory ==
    [drawn |-> 0,           \* references made up so far
     cycle |-> {},          \* those of the present cycle
     entry |-> NoEntry,     \* reference of the cycle's entry
     range |-> 0,           \* true range it was decided on, 0 if none
     basis |-> NoBasis,     \* holding the last protection was made for
     armed |-> TRUE]

BaselineInit ==
    /\ Init /\ mode = "strategy"
    /\ memory = [s \in Symbols |-> NewMemory]

\* What the features of a candle say: all entry conditions hold, or the fast
\* average is not above the slow one, or neither (or nothing is known).
Signals == {"entry", "reversal", "neither"}

(***************************************************************************)
(* What the strategy sees of its orders.                                   *)
(***************************************************************************)

Live(s, side) == {i \in OrdersOf(s) : /\ Active(orders[i]) /\ ~orders[i].forced
                                      /\ orders[i].side = side}

\* An exit of this cycle has sold something.
Exited(s) ==
    \E i \in OrdersOf(s) : /\ orders[i].side = "SELL" /\ orders[i].filled > 0
                           /\ orders[i].reference \in memory[s].cycle

\* A sale of everything is under way: a reversal, or the rest of a stop.
Leaving(s) == \E i \in Live(s, "SELL") : orders[i].type = "MARKET"

\* Stops that have sold something and go on selling.
Stopping(s) == {i \in Live(s, "SELL") : /\ orders[i].type = "STOP_MARKET"
                                        /\ orders[i].filled > 0}

Holding(s) == [quantity |-> Held(s), amount |-> positions[s].basis]

\* Mutant of Protected: two exits are enough, whatever they are for.
ProtectedByCount(s) == Cardinality(Live(s, "SELL")) = 2

Protected(s) ==
    memory[s].basis = Holding(s) /\ Cardinality(Live(s, "SELL")) = 2

\* Mutant of CycleOver: being flat is enough, even before the entry fills.
CycleOverWhenFlat(s) == TRUE

\* Flat after an exit, or the entry came to nothing.
CycleOver(s) == Exited(s) \/ Live(s, "BUY") = {}

\* From the cutoff on the engine's liquidation is in sole control.
Silent == Now >= OpeningTime(Cutoff)

(***************************************************************************)
(* What it answers with.                                                   *)
(***************************************************************************)

Name(s, n) == Label[s][memory[s].drawn + n]

\* The memory after an evaluation that made up n references.
Remember(s, signal, n) ==
    [memory[s] EXCEPT !.armed = @ \/ signal # "entry",
                      !.drawn = @ + n,
                      !.cycle = @ \cup {Name(s, k) : k \in 1..n}]

Cancel(s, n, ids) ==
    IF ids = {} THEN <<>>
    ELSE <<[kind |-> "cancel", reference |-> Name(s, n),
            targets |-> {orders[i].reference : i \in ids}]>>

Request(s, n, side, quantity, type, price, group) ==
    <<[kind |-> "trade", reference |-> Name(s, n),
       intent |-> [symbol |-> s, side |-> side, quantity |-> quantity,
                   type |-> type, price |-> price, group |-> group]]>>

SellAll(s, n) == Request(s, n, "SELL", Held(s), "MARKET", 0, NoGroup)

\* The average price of the holding in ticks, half a tick rounded up.
AveragePrice(s) ==
    LET shares == Held(s) * SlipDen
    IN  (2 * positions[s].basis + shares) \div (2 * shares)

StopPrice(s) == AveragePrice(s) - memory[s].range * StopMultiple
TargetPrice(s) == AveragePrice(s) + memory[s].range * TargetMultiple

\* Stop and target for all of the holding; the group is named first.
Protection(s, n) ==
    Request(s, n + 1, "SELL", Held(s), "STOP_MARKET", StopPrice(s), Name(s, n))
      \o Request(s, n + 2, "SELL", Held(s), "LIMIT", TargetPrice(s), Name(s, n))

\* Mutant of CancelEntry: only an exit that is done cancels the entry.
CancelEntryLate(s) ==
    Cancel(s, 1, IF \E i \in OrdersOf(s) : /\ orders[i].side = "SELL"
                                           /\ orders[i].status = "FILLED"
                                           /\ orders[i].reference \in memory[s].cycle
                 THEN Live(s, "BUY") ELSE {})

\* Once an exit has sold, what is left of the entry is cancelled first.
CancelEntry(s) == Cancel(s, 1, IF Exited(s) THEN Live(s, "BUY") ELSE {})

Answer(s, output, after) ==
    /\ Deliver(output)
    /\ memory' = [memory EXCEPT ![s] = after]

(***************************************************************************)
(* The branches of one evaluation.                                         *)
(***************************************************************************)

StandAside(s, signal) ==
    /\ \/ Silent
       \/ Held(s) > 0 /\ memory[s].range # 0 /\ Leaving(s)
       \/ /\ Held(s) = 0 /\ memory[s].entry # NoEntry
          /\ ~CycleOver(s)
       \/ /\ Held(s) = 0 /\ memory[s].entry = NoEntry
          /\ \/ Live(s, "BUY") \cup Live(s, "SELL") # {}
             \/ signal # "entry" \/ ~memory[s].armed
             \/ Now \notin EntryWindow
    /\ Answer(s, <<>>, Remember(s, signal, 0))

Manages(s) ==
    ~Silent /\ Held(s) > 0 /\ memory[s].range # 0 /\ ~Leaving(s)

Unprotected(s, signal) ==
    /\ Manages(s) /\ signal # "reversal"
    /\ Stopping(s) = {} /\ ~Protected(s)

\* The evaluation raises, and the run is over: shares are held of which no
\* entry is known, or a stop below them would have no positive price.
Trouble(s, signal) ==
    CASE ~Silent /\ Held(s) > 0 /\ memory[s].range = 0 -> "UNKNOWN_ENTRY"
      [] Unprotected(s, signal) /\ StopPrice(s) <= 0 -> "NONPOSITIVE_STOP"
      [] OTHER -> NoFailure

GiveUp(s, signal) ==
    /\ Trouble(s, signal) # NoFailure
    /\ Raise(Trouble(s, signal))
    /\ UNCHANGED memory

Reverse(s, signal) ==
    /\ Manages(s) /\ signal = "reversal"
    /\ LET cancel == Cancel(s, 1, Live(s, "BUY") \cup Live(s, "SELL"))
           output == cancel \o SellAll(s, Len(cancel) + 1)
       IN  Answer(s, output, Remember(s, signal, Len(output)))

\* A stop that sells exactly what is held is left alone; one that does not
\* is replaced by a sale at the market, which needs no trigger.
FollowStop(s, signal) ==
    /\ Manages(s) /\ signal # "reversal" /\ Stopping(s) # {}
    /\ LET cancel == CancelEntry(s)
           stop   == CHOOSE i \in Stopping(s) : \A j \in Stopping(s) : i <= j
           replace == Cancel(s, Len(cancel) + 1, Live(s, "SELL"))
           sell   == SellAll(s, Len(cancel) + Len(replace) + 1)
           output == IF Remaining(orders[stop]) = Held(s) THEN cancel
                     ELSE cancel \o replace \o sell
       IN  Answer(s, output, Remember(s, signal, Len(output)))

KeepProtection(s, signal) ==
    /\ Manages(s) /\ signal # "reversal" /\ Stopping(s) = {} /\ Protected(s)
    /\ Answer(s, CancelEntry(s), Remember(s, signal, Len(CancelEntry(s))))

Protect(s, signal) ==
    /\ Unprotected(s, signal) /\ StopPrice(s) > 0
    /\ LET cancel  == CancelEntry(s)
           replace == Cancel(s, Len(cancel) + 1, Live(s, "SELL"))
           group   == Len(cancel) + Len(replace) + 1
       IN  Answer(s, cancel \o replace \o Protection(s, group),
                  [Remember(s, signal, group + 2) EXCEPT !.basis = Holding(s)])

\* What is left of the cycle is cancelled.  There is no entry in the same
\* evaluation.
FinishCycle(s, signal) ==
    /\ ~Silent /\ Held(s) = 0 /\ memory[s].entry # NoEntry
    /\ CycleOver(s)
    /\ LET output == Cancel(s, 1, IF Exited(s)
                                  THEN Live(s, "BUY") \cup Live(s, "SELL")
                                  ELSE Live(s, "SELL"))
       IN  Answer(s, output, [Remember(s, signal, Len(output)) EXCEPT
                                !.entry = NoEntry, !.range = 0,
                                !.basis = NoBasis])

Enter(s, signal) ==
    /\ ~Silent /\ Held(s) = 0 /\ memory[s].entry = NoEntry
    /\ Live(s, "BUY") \cup Live(s, "SELL") = {}
    /\ signal = "entry" /\ memory[s].armed /\ Now \in EntryWindow
    /\ \E range \in Ranges :
         Answer(s, Request(s, 1, "BUY", Quantity, "MARKET", 0, NoGroup),
                [Remember(s, signal, 1) EXCEPT
                    !.cycle = {Name(s, 1)}, !.entry = Name(s, 1),
                    !.range = range, !.armed = FALSE])

BaselineEvaluate ==
    /\ phase = "strategy"
    /\ \E signal \in Signals :
         LET s == turn.symbol
         IN  \/ StandAside(s, signal) \/ GiveUp(s, signal)
             \/ Reverse(s, signal) \/ FollowStop(s, signal)
             \/ KeepProtection(s, signal) \/ Protect(s, signal)
             \/ FinishCycle(s, signal) \/ Enter(s, signal)
    /\ UNCHANGED <<mode, session, slot, todo, turn, orders, fills, books, marks,
                   warnings>>

BaselineNext ==
    \/ Loop /\ UNCHANGED memory
    \/ BaselineEvaluate
    \/ Ended /\ UNCHANGED memory

BaselineSpec == BaselineInit /\ [][BaselineNext]_baselineVars

(***************************************************************************)
(* Properties.                                                             *)
(***************************************************************************)

\* An instance's memory is that of the program's objects, and the references
\* of a cycle are among those it has made up.
MemoryOK ==
    \A s \in Symbols :
        LET m == memory[s]
        IN  /\ m.drawn \in 0..Len(Label[s]) /\ m.range \in Ranges \cup {0}
            /\ m.armed \in BOOLEAN
            /\ m.cycle \subseteq {Label[s][n] : n \in 1..m.drawn}
            /\ m.entry \in m.cycle \cup {NoEntry}
            /\ m.entry = NoEntry <=> m.range = 0
            /\ m.basis.quantity \in Nat /\ m.basis.amount \in Nat

\* The runtime accepts every answer the strategy gives, and the strategy knows
\* the entry of whatever it holds: neither ever abandons a run.
NeverRefused == failure \notin {"INVALID_INTENT", "UNKNOWN_ENTRY"}

\* Something is held, and the answer to the last candle has been applied; the
\* answer at the cutoff is silence.
Settled(s) ==
    phase \in {"decide", "barOpen", "inside"} /\ slot < Cutoff /\ Held(s) > 0

\* After every answer each live exit is for exactly what is held, there is
\* one, and exits that can both fill share a group.
ExitsMatchHolding ==
    \A s \in Symbols : Settled(s) =>
        /\ Live(s, "SELL") # {}
        /\ \A i \in Live(s, "SELL") : Remaining(orders[i]) = Held(s)
        /\ \A i, j \in Live(s, "SELL") :
              i # j => /\ orders[i].group # NoGroup
                       /\ orders[i].group = orders[j].group

\* Once an exit has sold shares of what is held, no purchase is left alive.
NoReopening ==
    \A s \in Symbols : Settled(s) /\ Exited(s) => Live(s, "BUY") = {}

\* The documentation of the strategy says that no extra position is opened: a
\* cycle, which has one entry, holds one position and so makes one trade.
OnePositionPerEntry ==
    \A s \in Symbols :
        LET entries == {i \in OrdersOf(s) : orders[i].side = "BUY"
                                            /\ orders[i].filled > 0}
            trades  == {n \in DOMAIN account.trades :
                           account.trades[n].symbol = s}
        IN  Cardinality(trades) + (IF Held(s) > 0 THEN 1 ELSE 0)
              <= Cardinality(entries)
=============================================================================
