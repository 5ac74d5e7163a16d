------------------------------ MODULE Calendar ------------------------------
(***************************************************************************)
(* The trading calendar: which sessions a range of time has, and which     *)
(* candles are expected of it.  A policy file corrects the schedule of an  *)
(* external package, and says which days it knows anything about.          *)
(*                                                                         *)
(* Instants are natural numbers and a day of the exchange has DayLength of *)
(* them.  A calendar is a record:                                          *)
(*   from, to   the days the policy covers                                 *)
(*   reviewed   the first day whose schedule was reviewed                  *)
(*   unknown    ranges <<first, last>> of days nothing is known of         *)
(*   closed     days without a session, whatever the package says          *)
(*   special    the session of each day with hours of its own              *)
(*   base       the session of each trading day of the package             *)
(*   research   whether schedules that were not reviewed are accepted      *)
(***************************************************************************)
EXTENDS Integers, FiniteSets, FiniteSetsExt

CONSTANT DayLength

ASSUME CalendarAssumption == DayLength \in Nat \ {0}

Day(t) == t \div DayLength

\* Mutant of LastDay: the excluded end belongs to the range.
LastDayInclusive(end) == Day(end)

\* The last day of a range, whose end is excluded.
LastDay(end) == Day(end - 1)

\* What the policy file's validation lets through.
ValidPolicy(c) ==
    /\ c.from <= c.reviewed /\ c.reviewed <= c.to
    /\ c.closed \cap DOMAIN c.special = {}
    /\ \A d \in c.closed \cup DOMAIN c.special : c.from <= d /\ d <= c.to
    /\ \A d \in DOMAIN c.special : c.special[d].opens < c.special[d].closes
    /\ \A gap \in c.unknown : gap[1] <= gap[2]

\* Days are numbered, and a session has its hours on its own day: a special
\* one's are times of that date, an ordinary one is filed under its date.
InItsDay(s, d) ==
    /\ d \in Nat /\ s.opens \in Nat /\ s.closes \in Nat
    /\ d * DayLength <= s.opens /\ s.opens < s.closes
    /\ s.closes <= (d + 1) * DayLength

OwnHours(c) ==
    /\ c.from \in Nat /\ c.reviewed \in Nat /\ c.to \in Nat
    /\ c.research \in BOOLEAN
    /\ \A gap \in c.unknown : gap[1] \in Nat /\ gap[2] \in Nat
    /\ \A d \in DOMAIN c.special : InItsDay(c.special[d], d)
    /\ \A d \in DOMAIN c.base : InItsDay(c.base[d], d)

Outside(c, start, end) == Day(start) < c.from \/ LastDay(end) > c.to

Hole(c, start, end) ==
    \E gap \in c.unknown : Day(start) <= gap[2] /\ LastDay(end) >= gap[1]

Authority(c, start, end) ==
    IF Outside(c, start, end) \/ Hole(c, start, end) THEN "UNSUPPORTED"
    ELSE IF Day(start) < c.reviewed THEN "UNKNOWN" ELSE "REVIEWED_POLICY"

\* A reversed range, an unsupported one, and without the opt-in also an
\* unreviewed one, raise a CalendarError.
Accepts(c, start, end) ==
    /\ start < end
    /\ \/ Authority(c, start, end) = "REVIEWED_POLICY"
       \/ Authority(c, start, end) = "UNKNOWN" /\ c.research

\* The session of a day, if it has one.
SessionOf(c, d) ==
    IF d \in DOMAIN c.special THEN {c.special[d]}
    ELSE IF d \in DOMAIN c.base \ c.closed THEN {c.base[d]} ELSE {}

\* The sessions of every day the range touches, for a range it accepts.
SessionsIn(c, start, end) ==
    UNION {SessionOf(c, d) : d \in Day(start)..LastDay(end)}

\* Mutant of Openings: anchored at the day, not at the session's opening.
OpeningsOfDay(s, length) ==
    {t \in s.opens..(s.closes - 1) : t % length = 0}

\* Candles are anchored at the session's opening and the last one is
\* clipped to the close; a daily candle is longer than any session.
Openings(s, length) ==
    {t \in s.opens..(s.closes - 1) : (t - s.opens) % length = 0}

Candle(s, t, length) ==
    [opens |-> t, closes |-> Min({t + length, s.closes})]

Candles(s, length) == {Candle(s, t, length) : t \in Openings(s, length)}

Within(candle, start, end) ==
    start <= candle.opens /\ candle.opens < end /\ candle.closes <= end

ExpectedBars(c, start, end, length) ==
    {candle \in UNION {Candles(s, length) : s \in SessionsIn(c, start, end)} :
        Within(candle, start, end)}

\* The end of what the policy covers.
Limit(c) == (c.to + 1) * DayLength

\* The openings that the next bar is the first of; without any, or when the
\* calendar refuses the rest of its range, next_bar raises a CalendarError.
NextOpenings(c, t, length) ==
    IF Accepts(c, t, Limit(c))
    THEN {b.opens : b \in ExpectedBars(c, t, Limit(c), length)} \ {t} ELSE {}

NextBar(c, t, length) == Min(NextOpenings(c, t, length))

(***************************************************************************)
(* Properties of one calendar, over the days 0..Days - 1.                  *)
(***************************************************************************)

\* The market is open: by the special hours of the day if it has any, by
\* the package's unless the day is closed.
Trading(c, t) ==
    IF Day(t) \in DOMAIN c.special
    THEN c.special[Day(t)].opens <= t /\ t < c.special[Day(t)].closes
    ELSE /\ Day(t) \in DOMAIN c.base \ c.closed
         /\ c.base[Day(t)].opens <= t /\ t < c.base[Day(t)].closes

\* Over whole days the expected candles cover every instant of trading
\* once, and no other: none is missing, overlaps another or spans a close.
Tiles(c, days, lengths) ==
    \A first \in 0..(days - 1), last \in 1..days, length \in lengths :
        LET start == first * DayLength
            end == last * DayLength
        IN  Accepts(c, start, end) =>
              \A t \in start..(end - 1) :
                 Cardinality({b \in ExpectedBars(c, start, end, length) :
                                b.opens <= t /\ t < b.closes})
                   = IF Trading(c, t) THEN 1 ELSE 0

\* The calendar has authority over an instant.
Known(c, t) ==
    /\ c.from <= Day(t) /\ Day(t) <= c.to
    /\ \A gap \in c.unknown : Day(t) \notin gap[1]..gap[2]
    /\ c.research \/ c.reviewed <= Day(t)

\* A range is accepted exactly when each instant of it is known, and it may
\* be asked for in two parts: their candles are those of the whole but for
\* one that the cut goes through.
Splits(c, days, lengths) ==
    LET horizon == 0..(days * DayLength)
    IN  /\ \A start, end \in horizon :
              Accepts(c, start, end)
                <=> start < end /\ \A t \in start..(end - 1) : Known(c, t)
        /\ \A start, mid, end \in horizon, length \in lengths :
              start < mid /\ mid < end /\ Accepts(c, start, end) =>
                 ExpectedBars(c, start, mid, length)
                    \cup ExpectedBars(c, mid, end, length)
                   = {b \in ExpectedBars(c, start, end, length) :
                        ~(b.opens < mid /\ mid < b.closes)}

\* The next bar is the first candle after t of any range that has one.
NextAgrees(c, days, lengths) ==
    \A t, end \in 0..(days * DayLength), length \in lengths :
        LET later == {b.opens : b \in ExpectedBars(c, t, end, length)} \ {t}
        IN  Accepts(c, t, end) /\ Accepts(c, t, Limit(c)) /\ later # {} =>
              /\ NextOpenings(c, t, length) # {}
              /\ NextBar(c, t, length) = Min(later)
=============================================================================
