---------------------------- MODULE Performance ----------------------------
(***************************************************************************)
(* The equity curve of a backtest and what its report makes of it.  The    *)
(* event loop is that of Simulation; at its start, after every completed   *)
(* candle and at each opening and close of a session it marks the account  *)
(* to the last closes, which updates the peak, and keeps the point.  The   *)
(* report is computed once, from the points and trades of a run that is    *)
(* done.                                                                   *)
(***************************************************************************)
EXTENDS Simulation

VARIABLE curve      \* the equity points so far

performanceVars == <<vars, curve>>

LastPoint == curve[Len(curve)]

(***************************************************************************)
(* Marking.                                                                *)
(***************************************************************************)

\* What the last mark, kept in equity, is worth.
Worth(mark) == mark.cash + SumFunction(mark.value)

\* Mutant of Point: the peak is sought in the last point only.
PointOfLast(day, worth) ==
    [day |-> day, equity |-> worth,
     peak |-> IF LastPoint.equity > worth THEN LastPoint.equity ELSE worth]

\* The account's peak is kept from point to point.
Point(day, worth) ==
    [day |-> day, equity |-> worth,
     peak |-> IF LastPoint.peak > worth THEN LastPoint.peak ELSE worth]

\* The account starts with its capital as its peak.
PerformanceInit ==
    /\ Init
    /\ curve = <<[day |-> 1, equity |-> Worth(equity), peak |-> StartCash]>>

\* The candle of a symbol has been settled.
Completes == phase = "settle" /\ phase' \notin {"settle", "failed"}

\* The session closes, and nothing is held.
Closes == phase = "close" /\ phase' # "failed"

\* The points a step adds.  The opening of the first session has the time of
\* the initial point and adds none; a later one repeats the last close's.
Recorded ==
    LET point == Point(session, Worth(equity'))
    IN  CASE Completes -> <<point>>
          [] Closes -> IF session' = session THEN <<point>>
                       ELSE <<point, [point EXCEPT !.day = session']>>
          [] OTHER -> <<>>

Run == Step /\ curve' = curve \o Recorded

PerformanceNext == Run \/ (Ended /\ UNCHANGED curve)

PerformanceSpec ==
    PerformanceInit /\ [][PerformanceNext]_performanceVars

\* The single thread goes on until the run has ended.
PerformanceFairSpec == PerformanceSpec /\ WF_performanceVars(Run)

(***************************************************************************)
(* The report.                                                             *)
(***************************************************************************)

Initial == curve[1].equity
Ending == LastPoint.equity

\* Mutant of DailyEquity: the first point of a day, not its last.
DailyEquityFirst(day) ==
    LET mine == {n \in 2..Len(curve) : curve[n].day = day}
    IN  curve[CHOOSE n \in mine : \A m \in mine : n <= m].equity

\* The days of the points but the first, and the last equity of each.
Days == {curve[n].day : n \in 2..Len(curve)}
DailyEquity(day) ==
    LET mine == {n \in 2..Len(curve) : curve[n].day = day}
    IN  curve[CHOOSE n \in mine : \A m \in mine : m <= n].equity

\* The first day is compared with the capital, the next ones with the day
\* before.
DailyPnl ==
    [day \in Days |->
        LET earlier == {d \in Days : d < day}
        IN  DailyEquity(day)
              - (IF earlier = {} THEN Initial
                 ELSE DailyEquity(CHOOSE d \in earlier :
                                     \A e \in earlier : e <= d))]

\* Net results of the winning and of the losing trades.
Winners == {n \in DOMAIN account.trades : account.trades[n].net > 0}
Losers == {n \in DOMAIN account.trades : account.trades[n].net < 0}
NetOf(trades) == SumFunction([n \in trades |-> account.trades[n].net])
GrossProfit == NetOf(Winners)
GrossLoss == -NetOf(Losers)

NetPnl == Ending - Initial
ExecutionPnl == Ending - Initial + account.fees

Drawdown(point) == point.peak - point.equity
MaxDrawdown ==
    LET falls == {Drawdown(curve[n]) : n \in DOMAIN curve}
    IN  CHOOSE f \in falls : \A g \in falls : g <= f

\* What each traded share cost or brought.
Turnover == account.spent + account.received

(***************************************************************************)
(* Properties.                                                             *)
(***************************************************************************)

\* The reported drawdown, made of peaks carried from mark to mark across
\* sessions, is the worst fall between any two points of the curve.
DrawdownIsWorstFall ==
    /\ \A n, m \in DOMAIN curve :
          n <= m => curve[n].equity - curve[m].equity <= MaxDrawdown
    /\ \E n, m \in DOMAIN curve :
          n <= m /\ curve[n].equity - curve[m].equity = MaxDrawdown

\* The report of a run that is done contradicts neither itself nor the
\* ledger: each session has one daily result, these and the trades both add
\* up to the net result, and without charges to the trades' own results.
MetricsAgree ==
    phase = "done" =>
        /\ Days = 1..Sessions
        /\ SumFunction(DailyPnl) = NetPnl
        /\ GrossProfit - GrossLoss = NetPnl
        /\ SumFunction([n \in DOMAIN account.trades |-> account.trades[n].pnl])
             = ExecutionPnl
        /\ SumFunction([n \in DOMAIN account.trades |->
                account.trades[n].entry + account.trades[n].exit]) = Turnover
=============================================================================
