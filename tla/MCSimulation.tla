---------------------------- MODULE MCSimulation ---------------------------
EXTENDS Simulation, TLC

\* Charges of a tick and more: a minimum fee, a levy, tax on the fee, and an
\* extra charge for a forced exit.
MCProfile ==
    [rate |-> [name \in RateName |->
                 CASE name = "brokerage" -> 20
                   [] name = "minimumCap" -> 100
                   [] name = "exchange" -> 10
                   [] name = "gst" -> 180
                   [] name = "stt" -> 25
                   [] OTHER -> 0],
     cap |-> 60, minimum |-> 5, squareOff |-> 3,
     gstOn |-> {"brokerage", "exchange"}]

NoCosts ==
    [rate |-> [name \in RateName |-> 0], cap |-> 0, minimum |-> 0,
     squareOff |-> 0, gstOn |-> {}]

Intent(symbol, side, quantity, type, price, group) ==
    [symbol |-> symbol, side |-> side, quantity |-> quantity, type |-> type,
     price |-> price, group |-> group]

Candle(open, high, low, close, volume) ==
    [open |-> open, high |-> high, low |-> low, close |-> close,
     volume |-> volume]

\* Exits of one symbol: an entry, a protective stop and a target placed
\* together or apart, a plain sale.
ExitSymbols == {"A"}
ExitIntents ==
    {Intent("A", "BUY", 3, "MARKET", 0, NoGroup),
     Intent("A", "SELL", 2, "STOP_MARKET", 8, "exit"),
     Intent("A", "SELL", 2, "LIMIT", 12, "exit"),
     Intent("A", "SELL", 1, "LIMIT", 11, NoGroup)}
\* Wide enough for stop and target at once; rising, with a share to be had.
ExitBars == {Candle(10, 12, 8, 9, 6), Candle(11, 12, 11, 12, 2)}

\* Two symbols that compete for one account.
PairSymbols == {"A", "B"}
PairIntents ==
    {Intent("A", "BUY", 2, "MARKET", 0, NoGroup),
     Intent("B", "BUY", 2, "MARKET", 0, NoGroup),
     Intent("B", "SELL", 1, "MARKET", 0, NoGroup)}
PairBars == {Candle(10, 11, 9, 10, 4), Candle(13, 13, 12, 13, 2)}

\* A strategy that enters and protects, called after every candle.
CallIntents ==
    {Intent("A", "BUY", 3, "MARKET", 0, NoGroup),
     Intent("A", "SELL", 2, "STOP_MARKET", 8, NoGroup)}
CallBars == {Candle(10, 11, 9, 10, 4), Candle(9, 9, 7, 8, 2)}

\* Orders that may stay unfilled until the session closes.
DayIntents ==
    {Intent("A", "BUY", 3, "MARKET", 0, NoGroup),
     Intent("A", "BUY", 1, "STOP_MARKET", 9, NoGroup)}
\* One share to be had, or none, or two and at a better price.
DayBars == {Candle(10, 11, 9, 10, 2), Candle(9, 9, 7, 8, 1),
            Candle(12, 13, 12, 13, 4)}

Names == Permutations(References)
============================================================================
