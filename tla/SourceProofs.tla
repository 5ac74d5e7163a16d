---------------------------- MODULE SourceProofs ----------------------------
(***************************************************************************)
(* Proofs about the market data a deployment draws on: for every calendar, *)
(* range and length of candles, the expected candles cover the hours of    *)
(* trading and do not depend on how a range is cut; and an import by the   *)
(* Yahoo provider gets rows that were verified for it.                     *)
(***************************************************************************)
EXTENDS Sources, FiniteSetTheorems, WellFoundedInduction, TLAPS

(***************************************************************************)
(* Days.                                                                   *)
(***************************************************************************)

\* A number lies between the multiples that its quotient names.
LEMMA Quotient ==
    ASSUME NEW a \in Nat, NEW n \in Nat \ {0}
    PROVE  /\ a \div n \in Nat /\ a % n \in Nat /\ a % n < n
           /\ n * (a \div n) \in Nat
           /\ n * (a \div n) <= a /\ a < n * (a \div n) + n
           /\ a % n = a - n * (a \div n)
<1>1. a \div n \in Nat /\ a % n \in Nat /\ a % n < n
  OBVIOUS
<1>2. a % n = a - n * (a \div n)
  OBVIOUS
<1>3. n * (a \div n) \in Nat
  BY <1>1
<1> QED
  <2> DEFINE m == n * (a \div n)
             rest == a % n
  <2>1. m \in Nat /\ rest \in Nat /\ rest < n /\ rest = a - m
    BY <1>1, <1>2, <1>3
  <2> HIDE DEF m, rest
  <2>2. m <= a /\ a < m + n
    BY <2>1
  <2> QED BY <1>1, <1>2, <1>3, <2>2 DEF m

\* There is one multiple of n in the n numbers up to a.
LEMMA OneQuotient ==
    ASSUME NEW n \in Nat \ {0}, NEW q \in Int, NEW r \in Int, NEW a \in Int,
           n * q <= a, a < n * q + n, n * r <= a, a < n * r + n
    PROVE  q = r
<1>1. ~(q < r)
  <2> SUFFICES ASSUME q + 1 <= r PROVE FALSE
    OBVIOUS
  <2>1. n * (q + 1) <= n * r
    OBVIOUS
  <2>2. n * (q + 1) = n * q + n
    OBVIOUS
  <2> QED BY <2>1, <2>2
<1>2. ~(r < q)
  <2> SUFFICES ASSUME r + 1 <= q PROVE FALSE
    OBVIOUS
  <2>1. n * (r + 1) <= n * q
    OBVIOUS
  <2>2. n * (r + 1) = n * r + n
    OBVIOUS
  <2> QED BY <2>1, <2>2
<1> QED BY <1>1, <1>2

\* An instant lies in its day.
LEMMA InDay ==
    ASSUME NEW t \in Nat
    PROVE  /\ Day(t) \in Nat
           /\ Day(t) * DayLength <= t /\ t < (Day(t) + 1) * DayLength
<1>1. DayLength \in Nat \ {0}
  BY CalendarAssumption
<1>2. /\ Day(t) \in Nat /\ DayLength * Day(t) <= t
      /\ t < DayLength * Day(t) + DayLength
  BY <1>1, Quotient DEF Day
<1>3. ASSUME NEW d \in Nat
      PROVE  /\ DayLength * d = d * DayLength
             /\ DayLength * d + DayLength = (d + 1) * DayLength
  BY <1>1
<1> QED BY <1>2, <1>3

\* An instant between the bounds of a day lies in no other.
LEMMA DayOf ==
    ASSUME NEW t \in Nat, NEW d \in Nat,
           d * DayLength <= t, t < (d + 1) * DayLength
    PROVE  Day(t) = d
<1>1. DayLength \in Nat \ {0}
  BY CalendarAssumption
<1>2. ASSUME NEW e \in Nat
      PROVE  /\ DayLength * e = e * DayLength
             /\ DayLength * e + DayLength = (e + 1) * DayLength
  BY <1>1
<1>3. Day(t) \in Nat /\ Day(t) * DayLength <= t /\ t < (Day(t) + 1) * DayLength
  BY InDay
<1> QED BY <1>1, <1>2, <1>3, OneQuotient

\* Days are in the order of their instants.
LEMMA DaysInOrder ==
    ASSUME NEW t \in Nat, NEW u \in Nat, t <= u
    PROVE  Day(t) <= Day(u)
<1>1. DayLength \in Nat \ {0}
  BY CalendarAssumption
<1> QED BY <1>1 DEF Day

\* Later days start no earlier than a day ends.
LEMMA DaysApart ==
    ASSUME NEW d \in Nat, NEW e \in Nat, d < e
    PROVE  /\ d * DayLength \in Nat /\ (d + 1) * DayLength \in Nat
           /\ e * DayLength \in Nat
           /\ (d + 1) * DayLength <= e * DayLength
<1>1. DayLength \in Nat \ {0}
  BY CalendarAssumption
<1>2. d + 1 \in Nat /\ d + 1 <= e
  OBVIOUS
<1> QED BY <1>1, <1>2

\* A day starts with an instant of its own.
LEMMA DayStarts ==
    ASSUME NEW d \in Nat
    PROVE  d * DayLength \in Nat /\ Day(d * DayLength) = d
<1>1. DayLength \in Nat \ {0}
  BY CalendarAssumption
<1>2. d * DayLength \in Nat /\ (d + 1) * DayLength = d * DayLength + DayLength
  BY <1>1
<1> QED BY <1>1, <1>2, DayOf

(***************************************************************************)
(* Accepted ranges.                                                        *)
(***************************************************************************)

\* What a policy's validation lets through, with sessions on their own days.
Valid(c) == ValidPolicy(c) /\ OwnHours(c)

\* The days of a range, whose end is excluded.
LEMMA RangeDays ==
    ASSUME NEW start \in Nat, NEW end \in Nat, start < end
    PROVE  /\ end - 1 \in Nat /\ start <= end - 1
           /\ Day(start) \in Nat /\ LastDay(end) \in Nat
           /\ Day(start) <= LastDay(end)
           /\ LastDay(end) = Day(end - 1)
<1>1. end - 1 \in Nat /\ start <= end - 1
  OBVIOUS
<1>2. Day(start) \in Nat /\ Day(end - 1) \in Nat /\ Day(start) <= Day(end - 1)
  BY <1>1, InDay, DaysInOrder
<1> QED BY <1>1, <1>2 DEF LastDay

\* Every day from a range's first to its last has an instant in the range.
LEMMA DayReached ==
    ASSUME NEW start \in Nat, NEW end \in Nat, start < end,
           NEW d \in Nat, Day(start) <= d, d <= LastDay(end)
    PROVE  \E t \in start..(end - 1) : Day(t) = d
<1>1. /\ end - 1 \in Nat /\ start <= end - 1
      /\ Day(start) \in Nat /\ LastDay(end) = Day(end - 1) /\ Day(end - 1) \in Nat
  BY RangeDays
<1>2. CASE d = Day(start)
  <2>1. start \in start..(end - 1)
    BY <1>1
  <2> QED BY <1>2, <2>1
<1>3. CASE Day(start) < d
  <2> DEFINE t == d * DayLength
  <2>1. t \in Nat /\ Day(t) = d
    BY DayStarts
  <2>2. start < (Day(start) + 1) * DayLength /\ Day(end - 1) * DayLength <= end - 1
    BY <1>1, InDay
  <2>3. (Day(start) + 1) * DayLength \in Nat /\ (Day(start) + 1) * DayLength <= t
    BY <1>1, <1>3, DaysApart
  <2>4. t <= Day(end - 1) * DayLength /\ Day(end - 1) * DayLength \in Nat
    <3>1. CASE d = Day(end - 1)
      BY <3>1, <2>1
    <3>2. CASE d < Day(end - 1)
      <4>1. /\ (d + 1) * DayLength \in Nat
            /\ (d + 1) * DayLength <= Day(end - 1) * DayLength
            /\ Day(end - 1) * DayLength \in Nat
        BY <1>1, <3>2, DaysApart
      <4>2. t < (d + 1) * DayLength
        BY <2>1, InDay
      <4> HIDE DEF t
      <4> QED BY <2>1, <4>1, <4>2
    <3> QED BY <1>1, <3>1, <3>2
  <2> HIDE DEF t
  <2>5. t \in start..(end - 1)
    BY <1>1, <2>1, <2>2, <2>3, <2>4
  <2> QED BY <2>1, <2>5
<1> QED BY <1>1, <1>2, <1>3

\* A range is accepted exactly when the calendar knows each instant of it:
\* provenance looks at the first and the last day and at ranges of unknown
\* days, and these decide about every instant between.
LEMMA AcceptsKnown ==
    ASSUME NEW c, Valid(c), NEW start \in Nat, NEW end \in Nat, start < end
    PROVE  Accepts(c, start, end) <=> \A t \in start..(end - 1) : Known(c, t)
<1> DEFINE first == Day(start)
           last == LastDay(end)
<1>1. /\ end - 1 \in Nat /\ start <= end - 1
      /\ first \in Nat /\ last \in Nat /\ first <= last /\ last = Day(end - 1)
  BY RangeDays
<1>2. /\ c.from \in Nat /\ c.reviewed \in Nat /\ c.to \in Nat
      /\ c.research \in BOOLEAN /\ c.from <= c.reviewed
      /\ \A gap \in c.unknown :
            gap[1] \in Nat /\ gap[2] \in Nat /\ gap[1] <= gap[2]
  BY DEF Valid, ValidPolicy, OwnHours
<1>3. \A t \in start..(end - 1) : t \in Nat /\ Day(t) \in Nat
                                   /\ first <= Day(t) /\ Day(t) <= last
  <2> TAKE t \in start..(end - 1)
  <2>1. t \in Nat /\ start <= t /\ t <= end - 1
    OBVIOUS
  <2> QED BY <1>1, <2>1, InDay, DaysInOrder
<1>4. start \in start..(end - 1) /\ end - 1 \in start..(end - 1)
  BY <1>1
<1>5. Accepts(c, start, end) <=>
        /\ c.from <= first /\ last <= c.to
        /\ \A gap \in c.unknown : ~(first <= gap[2] /\ last >= gap[1])
        /\ c.research \/ c.reviewed <= first
  <2>1. Outside(c, start, end) <=> ~(c.from <= first /\ last <= c.to)
    BY <1>1, <1>2 DEF Outside
  <2>2. Hole(c, start, end)
          <=> ~\A gap \in c.unknown : ~(first <= gap[2] /\ last >= gap[1])
    BY DEF Hole
  <2>3. first < c.reviewed <=> ~(c.reviewed <= first)
    BY <1>1, <1>2
  <2> DEFINE bad == Outside(c, start, end) \/ Hole(c, start, end)
             early == Day(start) < c.reviewed
  <2>4. /\ bad => Authority(c, start, end) = "UNSUPPORTED"
        /\ ~bad /\ early => Authority(c, start, end) = "UNKNOWN"
        /\ ~bad /\ ~early => Authority(c, start, end) = "REVIEWED_POLICY"
    <3>1. CASE bad
      BY <3>1 DEF Authority
    <3>2. CASE ~bad /\ early
      BY <3>2 DEF Authority
    <3>3. CASE ~bad /\ ~early
      BY <3>3 DEF Authority
    <3> QED BY <3>1, <3>2, <3>3
  <2>5. Accepts(c, start, end) <=> ~bad /\ (c.research \/ ~early)
    <3> HIDE DEF bad, early
    <3> QED BY <2>4 DEF Accepts
  <2> QED BY <2>1, <2>2, <2>3, <2>5
<1>6. ASSUME Accepts(c, start, end), NEW t \in start..(end - 1)
      PROVE  Known(c, t)
  <2>1. c.from <= Day(t) /\ Day(t) <= c.to
    BY <1>1, <1>2, <1>3, <1>5, <1>6
  <2>2. \A gap \in c.unknown : Day(t) \notin gap[1]..gap[2]
    BY <1>1, <1>2, <1>3, <1>5, <1>6
  <2>3. c.research \/ c.reviewed <= Day(t)
    BY <1>1, <1>2, <1>3, <1>5, <1>6
  <2> QED BY <2>1, <2>2, <2>3 DEF Known
<1>7. ASSUME \A t \in start..(end - 1) : Known(c, t)
      PROVE  Accepts(c, start, end)
  <2>1. Known(c, start) /\ Known(c, end - 1)
    BY <1>4, <1>7
  <2>2. /\ c.from <= first /\ last <= c.to
        /\ c.research \/ c.reviewed <= first
    BY <1>1, <2>1 DEF Known
  <2>3. ASSUME NEW gap \in c.unknown, first <= gap[2], last >= gap[1]
        PROVE  FALSE
    <3> DEFINE d == IF gap[1] <= first THEN first ELSE gap[1]
    <3>1. d \in Nat /\ first <= d /\ d <= last /\ d \in gap[1]..gap[2]
      BY <1>1, <1>2, <2>3
    <3> HIDE DEF d
    <3>2. PICK t \in start..(end - 1) : Day(t) = d
      BY <3>1, DayReached
    <3>3. Known(c, t)
      BY <1>7
    <3> QED BY <3>1, <3>2, <3>3 DEF Known
  <2> QED BY <1>5, <2>2, <2>3
<1> QED BY <1>6, <1>7

(***************************************************************************)
(* Candles.                                                                *)
(***************************************************************************)

\* Sessions have their hours on their own day, and a day has one at most.
LEMMA OwnSession ==
    ASSUME NEW c, Valid(c), NEW d, NEW s \in SessionOf(c, d)
    PROVE  /\ InItsDay(s, d)
           /\ \A other \in SessionOf(c, d) : other = s
<1>1. CASE d \in DOMAIN c.special
  <2>1. SessionOf(c, d) = {c.special[d]}
    BY <1>1 DEF SessionOf
  <2> QED BY <1>1, <2>1 DEF Valid, OwnHours
<1>2. CASE d \notin DOMAIN c.special /\ d \in DOMAIN c.base \ c.closed
  <2>1. SessionOf(c, d) = {c.base[d]}
    BY <1>2 DEF SessionOf
  <2> QED BY <1>2, <2>1 DEF Valid, OwnHours
<1>3. CASE d \notin DOMAIN c.special /\ d \notin DOMAIN c.base \ c.closed
  BY <1>3 DEF SessionOf
<1> QED BY <1>1, <1>2, <1>3

\* The lesser of two numbers.
LEMMA MinOfTwo ==
    ASSUME NEW a \in Int, NEW b \in Int
    PROVE  Min({a, b}) = IF a <= b THEN a ELSE b
<1>1. ASSUME NEW x \in {a, b}, \A y \in {a, b} : x <= y
      PROVE  x = IF a <= b THEN a ELSE b
  BY <1>1
<1>2. \E x \in {a, b} : \A y \in {a, b} : x <= y
  BY \A x \in Int : x <= x
<1> QED BY <1>1, <1>2 DEF Min

\* A candle lies in its session, and in the day of the session.
LEMMA CandleInSession ==
    ASSUME NEW s, NEW d, InItsDay(s, d), NEW length \in Nat \ {0},
           NEW t \in Openings(s, length)
    PROVE  LET b == Candle(s, t, length)
           IN  /\ b.opens = t /\ b.opens \in Nat /\ b.closes \in Nat
               /\ s.opens <= b.opens /\ b.opens < b.closes
               /\ b.closes <= b.opens + length /\ b.closes <= s.closes
               /\ b.closes = b.opens + length \/ b.closes = s.closes
               /\ (b.opens - s.opens) % length = 0
               /\ Day(b.opens) = d
<1>1. /\ d \in Nat /\ s.opens \in Nat /\ s.closes \in Nat
      /\ d * DayLength <= s.opens /\ s.closes <= (d + 1) * DayLength
  BY DEF InItsDay
<1>2. /\ t \in Nat /\ s.opens <= t /\ t < s.closes
      /\ (t - s.opens) % length = 0
  BY <1>1 DEF Openings
<1> DEFINE close == Min({t + length, s.closes})
<1>3. close = IF t + length <= s.closes THEN t + length ELSE s.closes
  BY <1>1, <1>2, MinOfTwo
<1>4. /\ close \in Nat /\ t < close
      /\ close <= t + length /\ close <= s.closes
      /\ close = t + length \/ close = s.closes
  <2> HIDE DEF close
  <2> QED BY <1>1, <1>2, <1>3
<1>5. Day(t) = d
  <2>1. d * DayLength \in Nat /\ (d + 1) * DayLength \in Nat
    BY <1>1, CalendarAssumption
  <2>2. d * DayLength <= t /\ t < (d + 1) * DayLength
    BY <1>1, <1>2, <2>1
  <2> QED BY <1>1, <1>2, <2>2, DayOf
<1>6. Candle(s, t, length).opens = t /\ Candle(s, t, length).closes = close
  BY DEF Candle
<1> HIDE DEF close
<1> QED BY <1>2, <1>4, <1>5, <1>6

\* The candles of all days a calendar has.
AllCandles(c, length) ==
    UNION {UNION {Candles(s, length) : s \in SessionOf(c, d)} : d \in Nat}

\* A candle of any day, with the session it is of.
LEMMA CandleOfDay ==
    ASSUME NEW c, Valid(c), NEW length \in Nat \ {0},
           NEW b \in AllCandles(c, length)
    PROVE  /\ b.opens \in Nat /\ b.closes \in Nat /\ b.opens < b.closes
           /\ b.closes <= b.opens + length
           /\ Day(b.opens) \in Nat
           /\ \E s \in SessionOf(c, Day(b.opens)) :
                 /\ InItsDay(s, Day(b.opens)) /\ b \in Candles(s, length)
                 /\ b = Candle(s, b.opens, length)
                 /\ s.opens <= b.opens /\ b.closes <= s.closes
                 /\ b.closes = b.opens + length \/ b.closes = s.closes
                 /\ (b.opens - s.opens) % length = 0
<1>0. PICK d \in Nat : \E s \in SessionOf(c, d) : b \in Candles(s, length)
  BY DEF AllCandles
<1>1. PICK s \in SessionOf(c, d) : b \in Candles(s, length)
  BY <1>0
<1>2. InItsDay(s, d)
  BY OwnSession
<1>3. PICK t \in Openings(s, length) : b = Candle(s, t, length)
  BY <1>1 DEF Candles
<1> QED BY <1>1, <1>2, <1>3, CandleInSession

\* The candles expected of a range are those of all days that lie within it:
\* no candle of a day outside lies within, and whole days are looked at.
LEMMA ExpectedWithin ==
    ASSUME NEW c, Valid(c), NEW length \in Nat \ {0},
           NEW start \in Nat, NEW end \in Nat, start < end
    PROVE  ExpectedBars(c, start, end, length) =
             {b \in AllCandles(c, length) : Within(b, start, end)}
<1>1. /\ end - 1 \in Nat /\ Day(start) \in Nat /\ Day(end - 1) \in Nat
      /\ LastDay(end) = Day(end - 1)
  BY RangeDays
<1>2. ASSUME NEW b \in ExpectedBars(c, start, end, length)
      PROVE  b \in AllCandles(c, length) /\ Within(b, start, end)
  <2>1. PICK d \in Day(start)..LastDay(end) :
           \E s \in SessionOf(c, d) : b \in Candles(s, length)
    BY DEF ExpectedBars, SessionsIn
  <2>2. d \in Nat
    BY <1>1
  <2> QED BY <2>1, <2>2 DEF ExpectedBars, AllCandles
<1>3. ASSUME NEW b \in AllCandles(c, length), Within(b, start, end)
      PROVE  b \in ExpectedBars(c, start, end, length)
  <2>1. /\ b.opens \in Nat /\ Day(b.opens) \in Nat
        /\ \E s \in SessionOf(c, Day(b.opens)) : b \in Candles(s, length)
    BY CandleOfDay
  <2>2. start <= b.opens /\ b.opens <= end - 1
    BY <1>3, <2>1 DEF Within
  <2>3. Day(start) <= Day(b.opens) /\ Day(b.opens) <= Day(end - 1)
    BY <1>1, <2>1, <2>2, DaysInOrder
  <2>4. Day(b.opens) \in Day(start)..LastDay(end)
    BY <1>1, <2>1, <2>3
  <2> QED BY <1>3, <2>1, <2>4 DEF ExpectedBars, SessionsIn
<1> QED BY <1>2, <1>3

\* A range may be asked for in two parts: a candle of the whole lies in one of
\* them unless the cut goes through it.
LEMMA SplitsAlways ==
    ASSUME NEW c, Valid(c), NEW days \in Nat, NEW lengths \in SUBSET (Nat \ {0})
    PROVE  Splits(c, days, lengths)
<1> DEFINE horizon == 0..(days * DayLength)
<1>1. horizon \subseteq Nat
  OBVIOUS
<1>2. ASSUME NEW start \in horizon, NEW end \in horizon
      PROVE  Accepts(c, start, end)
               <=> start < end /\ \A t \in start..(end - 1) : Known(c, t)
  <2>1. start \in Nat /\ end \in Nat
    BY <1>1
  <2>2. CASE start < end
    BY <2>1, <2>2, AcceptsKnown
  <2>3. CASE ~(start < end)
    BY <2>3 DEF Accepts
  <2> QED BY <2>2, <2>3
<1>3. ASSUME NEW start \in horizon, NEW mid \in horizon, NEW end \in horizon,
             NEW length \in lengths, start < mid, mid < end
      PROVE  ExpectedBars(c, start, mid, length)
               \cup ExpectedBars(c, mid, end, length)
               = {b \in ExpectedBars(c, start, end, length) :
                    ~(b.opens < mid /\ mid < b.closes)}
  <2>1. /\ start \in Nat /\ mid \in Nat /\ end \in Nat /\ start < end
        /\ length \in Nat \ {0}
    BY <1>1, <1>3
  <2>2. /\ ExpectedBars(c, start, mid, length) =
             {b \in AllCandles(c, length) : Within(b, start, mid)}
        /\ ExpectedBars(c, mid, end, length) =
             {b \in AllCandles(c, length) : Within(b, mid, end)}
        /\ ExpectedBars(c, start, end, length) =
             {b \in AllCandles(c, length) : Within(b, start, end)}
    BY <1>3, <2>1, ExpectedWithin
  <2>3. ASSUME NEW b \in AllCandles(c, length)
        PROVE  Within(b, start, mid) \/ Within(b, mid, end)
                 <=> Within(b, start, end) /\ ~(b.opens < mid /\ mid < b.closes)
    <3>1. b.opens \in Nat /\ b.closes \in Nat /\ b.opens < b.closes
      BY <2>1, CandleOfDay
    <3> QED BY <1>3, <2>1, <3>1 DEF Within
  <2> QED BY <2>2, <2>3
<1> QED BY <1>2, <1>3 DEF Splits

\* Candles of a calendar do not overlap: of two, the one that opens first has
\* closed when the other opens.
LEMMA CandlesApart ==
    ASSUME NEW c, Valid(c), NEW length \in Nat \ {0},
           NEW b \in AllCandles(c, length), NEW e \in AllCandles(c, length),
           b.opens < e.opens
    PROVE  b.closes <= e.opens
<1>1. /\ b.opens \in Nat /\ b.closes \in Nat /\ Day(b.opens) \in Nat
      /\ e.opens \in Nat /\ e.closes \in Nat /\ Day(e.opens) \in Nat
      /\ Day(b.opens) <= Day(e.opens)
      /\ b.closes <= b.opens + length
  BY CandleOfDay, DaysInOrder
<1>2. PICK s \in SessionOf(c, Day(b.opens)) :
         /\ InItsDay(s, Day(b.opens))
         /\ s.opens <= b.opens /\ b.closes <= s.closes
         /\ b.closes = b.opens + length \/ b.closes = s.closes
         /\ (b.opens - s.opens) % length = 0
  BY CandleOfDay
<1>3. PICK u \in SessionOf(c, Day(e.opens)) :
         /\ InItsDay(u, Day(e.opens))
         /\ u.opens <= e.opens /\ e.closes <= u.closes
         /\ (e.opens - u.opens) % length = 0
  BY CandleOfDay
<1>4. CASE Day(b.opens) < Day(e.opens)
  <2>1. /\ s.closes \in Nat /\ s.closes <= (Day(b.opens) + 1) * DayLength
        /\ u.opens \in Nat /\ Day(e.opens) * DayLength <= u.opens
    BY <1>2, <1>3 DEF InItsDay
  <2>2. /\ (Day(b.opens) + 1) * DayLength \in Nat
        /\ Day(e.opens) * DayLength \in Nat
        /\ (Day(b.opens) + 1) * DayLength <= Day(e.opens) * DayLength
    BY <1>1, <1>4, DaysApart
  <2> QED BY <1>1, <1>2, <1>3, <2>1, <2>2
<1>5. CASE Day(b.opens) = Day(e.opens)
  <2>1. u = s
    BY <1>2, <1>3, <1>5, OwnSession
  <2>2. s.opens \in Nat /\ s.closes \in Nat /\ e.opens < s.closes
    BY <1>1, <1>2, <1>3, <2>1, CandleOfDay DEF InItsDay
  <2> DEFINE x == b.opens - s.opens
             y == e.opens - s.opens
             q == x \div length
             r == y \div length
  <2>3. x \in Nat /\ y \in Nat /\ x < y /\ x % length = 0 /\ y % length = 0
    BY <1>1, <1>2, <1>3, <2>1, <2>2
  <2>4. /\ q \in Nat /\ length * q \in Nat /\ x = length * q
        /\ r \in Nat /\ length * r \in Nat /\ y = length * r
    <3> HIDE DEF x, y
    <3>1. /\ q \in Nat /\ length * q \in Nat /\ x % length = x - length * q
      BY <2>3, Quotient
    <3>2. /\ r \in Nat /\ length * r \in Nat /\ y % length = y - length * r
      BY <2>3, Quotient
    <3> HIDE DEF q, r
    <3> DEFINE m == length * q
               n == length * r
    <3>3. m \in Nat /\ n \in Nat /\ 0 = x - m /\ 0 = y - n
      BY <2>3, <3>1, <3>2
    <3> HIDE DEF m, n
    <3>4. x = m /\ y = n
      BY <2>3, <3>3
    <3> QED BY <3>1, <3>2, <3>4 DEF m, n
  <2>5. q + 1 <= r
    <3> HIDE DEF x, y, q, r
    <3>1. ~(r <= q)
      <4> SUFFICES ASSUME r <= q PROVE FALSE
        OBVIOUS
      <4>1. length * r <= length * q
        BY <2>4
      <4> QED BY <2>3, <2>4, <4>1
    <3> QED BY <2>4, <3>1
  <2>6. x + length <= y
    <3> HIDE DEF x, y, q, r
    <3>1. length * (q + 1) <= length * r
      BY <2>4, <2>5
    <3>2. length * (q + 1) = length * q + length
      BY <2>4
    <3> QED BY <2>4, <3>1, <3>2
  <2> QED BY <1>1, <2>2, <2>6
<1> QED BY <1>1, <1>4, <1>5


(***************************************************************************)
(* The next bar.                                                           *)
(***************************************************************************)

\* A set of numbers has a least one, and that is its minimum.
LEMMA LeastOf ==
    ASSUME NEW S \in SUBSET Nat, S # {}
    PROVE  Min(S) \in S /\ \A x \in S : Min(S) <= x
<1> DEFINE R == OpToRel(<, Nat)
<1>1. PICK m \in S : \A x \in S : ~ (<<x, m>> \in R)
  BY NatLessThanWellFounded, WFMin
<1>2. \A x \in S : x < m => <<x, m>> \in R
  BY DEF OpToRel
<1>3. \A x \in S : ~(x < m)
  BY <1>1, <1>2
<1> HIDE DEF R
<1>4. \A x \in S : m <= x
  BY <1>3, S \subseteq Nat
<1> QED BY <1>4 DEF Min

\* The least element, by its description.
LEMMA MinIs ==
    ASSUME NEW S \in SUBSET Nat, NEW m \in S, \A x \in S : m <= x
    PROVE  Min(S) = m
<1> DEFINE least == Min(S)
<1>1. least \in S /\ least <= m
  BY LeastOf
<1>2. m <= least /\ least \in Nat /\ m \in Nat
  BY <1>1
<1> HIDE DEF least
<1>3. least = m
  BY <1>1, <1>2
<1> QED BY <1>3 DEF least

\* The next bar is the first candle after an instant of any range that starts
\* there and has one.
LEMMA NextAgreesAlways ==
    ASSUME NEW c, Valid(c), NEW days \in Nat, NEW lengths \in SUBSET (Nat \ {0})
    PROVE  NextAgrees(c, days, lengths)
<1> SUFFICES ASSUME NEW t \in 0..(days * DayLength),
                    NEW end \in 0..(days * DayLength), NEW length \in lengths,
                    Accepts(c, t, end), Accepts(c, t, Limit(c)),
                    {b.opens : b \in ExpectedBars(c, t, end, length)} \ {t} # {}
             PROVE  /\ NextOpenings(c, t, length) # {}
                    /\ NextBar(c, t, length)
                         = Min({b.opens : b \in ExpectedBars(c, t, end, length)} \ {t})
  BY DEF NextAgrees
<1> DEFINE soon == {b.opens : b \in ExpectedBars(c, t, end, length)} \ {t}
           limit == Limit(c)
           ever == {b.opens : b \in ExpectedBars(c, t, limit, length)} \ {t}
<1>1. /\ t \in Nat /\ end \in Nat /\ length \in Nat \ {0} /\ t < end
      /\ c.to \in Nat
  BY DEF Accepts, Valid, OwnHours
<1>2. limit \in Nat /\ t < limit
  BY <1>1, CalendarAssumption DEF Accepts, Limit
<1>3. end <= limit
  <2>1. end - 1 \in Nat /\ LastDay(end) = Day(end - 1) /\ Day(end - 1) \in Nat
    BY <1>1, RangeDays
  <2>2. LastDay(end) <= c.to
    <3>1. ~Outside(c, t, end)
      BY DEF Accepts, Authority
    <3> QED BY <1>1, <2>1, <3>1 DEF Outside
  <2>3. end - 1 < (Day(end - 1) + 1) * DayLength
    BY <2>1, InDay
  <2>4. (Day(end - 1) + 1) * DayLength <= (c.to + 1) * DayLength
    BY <1>1, <2>1, <2>2, CalendarAssumption
  <2>5. (Day(end - 1) + 1) * DayLength \in Nat
    BY <2>1, CalendarAssumption
  <2> QED BY <1>1, <1>2, <2>3, <2>4, <2>5 DEF Limit
<1>4. /\ ExpectedBars(c, t, end, length) =
           {b \in AllCandles(c, length) : Within(b, t, end)}
      /\ ExpectedBars(c, t, limit, length) =
           {b \in AllCandles(c, length) : Within(b, t, limit)}
  <2> HIDE DEF limit
  <2> QED BY <1>1, <1>2, ExpectedWithin
<1>5. \A b \in AllCandles(c, length) : b.opens \in Nat /\ b.closes \in Nat
  BY <1>1, CandleOfDay
<1>6. soon \subseteq ever /\ ever \subseteq Nat
  <2> HIDE DEF limit
  <2>1. \A b \in AllCandles(c, length) : Within(b, t, end) => Within(b, t, limit)
    BY <1>1, <1>2, <1>3, <1>5 DEF Within
  <2> QED BY <1>4, <1>5, <2>1
<1>7. Min(soon) \in soon /\ \A x \in soon : Min(soon) <= x
  <2> HIDE DEF limit
  <2>1. soon \subseteq Nat /\ soon # {}
    BY <1>6
  <2> HIDE DEF soon
  <2> QED BY <2>1, LeastOf
<1>8. ASSUME NEW x \in ever PROVE Min(soon) <= x
  <2> HIDE DEF limit
  <2> DEFINE m == Min(soon)
  <2>1. PICK e \in AllCandles(c, length) : m = e.opens /\ Within(e, t, end)
    BY <1>4, <1>7
  <2>2. PICK b \in AllCandles(c, length) :
           x = b.opens /\ x # t /\ Within(b, t, limit)
    BY <1>4
  <2>3. /\ b.opens \in Nat /\ b.closes \in Nat /\ e.opens \in Nat
        /\ m \in Nat /\ x \in Nat
    BY <1>5, <2>1, <2>2
  <2>4. CASE x < m
    <3>0. b.opens < e.opens
      BY <2>1, <2>2, <2>4
    <3>1. b.closes <= e.opens
      BY <1>1, <3>0, CandlesApart
    <3>2. Within(b, t, end)
      BY <1>1, <2>1, <2>2, <2>3, <3>0, <3>1 DEF Within
    <3>3. x \in soon
      BY <1>4, <2>2, <3>2
    <3> QED BY <1>7, <3>3
  <2> HIDE DEF m
  <2> QED BY <2>3, <2>4 DEF m
<1>9. Min(ever) = Min(soon)
  <2>1. Min(soon) \in ever
    BY <1>6, <1>7
  <2> HIDE DEF soon, ever
  <2> QED BY <1>6, <1>8, <2>1, MinIs
<1>10. NextOpenings(c, t, length) = ever
  BY DEF NextOpenings
<1> QED BY <1>6, <1>9, <1>10 DEF NextBar

(***************************************************************************)
(* Whole days.                                                             *)
(***************************************************************************)

\* Trading is being in the session of one's day.
LEMMA TradingInSession ==
    ASSUME NEW c, NEW t
    PROVE  Trading(c, t) <=>
             \E s \in SessionOf(c, Day(t)) : s.opens <= t /\ t < s.closes
<1> DEFINE d == Day(t)
<1>1. CASE d \in DOMAIN c.special
  BY <1>1 DEF Trading, SessionOf
<1>2. CASE d \notin DOMAIN c.special /\ d \in DOMAIN c.base \ c.closed
  BY <1>2 DEF Trading, SessionOf
<1>3. CASE d \notin DOMAIN c.special /\ d \notin DOMAIN c.base \ c.closed
  BY <1>3 DEF Trading, SessionOf
<1> QED BY <1>1, <1>2, <1>3

\* The candle of an instant of a session.
LEMMA CandleAt ==
    ASSUME NEW s, NEW d, InItsDay(s, d), NEW length \in Nat \ {0},
           NEW t \in Nat, s.opens <= t, t < s.closes
    PROVE  \E b \in Candles(s, length) :
              /\ b.opens \in Nat /\ b.closes \in Nat
              /\ s.opens <= b.opens /\ b.opens <= t
              /\ t < b.closes /\ b.closes <= s.closes
<1>1. s.opens \in Nat /\ s.closes \in Nat
  BY DEF InItsDay
<1> DEFINE x == t - s.opens
           q == x \div length
           past == length * q
           o == s.opens + past
           b == Candle(s, o, length)
<1>2. /\ q \in Nat /\ past \in Nat /\ past <= x /\ x < past + length
      /\ past % length = 0
  <2>1. x \in Nat
    BY <1>1
  <2> HIDE DEF x
  <2>2. q \in Nat /\ past \in Nat /\ past <= x /\ x < past + length
    BY <2>1, Quotient
  <2> HIDE DEF q
  <2>3. \A n \in Nat : (length * n) % length = 0
    OBVIOUS
  <2> QED BY <2>2, <2>3
<1>3. /\ o \in Nat /\ s.opens <= o /\ o <= t /\ t < o + length
      /\ o <= s.closes - 1 /\ o - s.opens = past
  <2> HIDE DEF q, past
  <2> QED BY <1>1, <1>2
<1>4. o \in Openings(s, length)
  <2>1. o \in s.opens..(s.closes - 1) /\ (o - s.opens) % length = 0
    <3> HIDE DEF o, past
    <3> QED BY <1>1, <1>2, <1>3
  <2> HIDE DEF o
  <2> QED BY <2>1 DEF Openings
<1>5. /\ b.opens = o /\ b.opens \in Nat /\ b.closes \in Nat
      /\ b.closes <= s.closes
      /\ b.closes = b.opens + length \/ b.closes = s.closes
  <2> HIDE DEF o
  <2> QED BY <1>4, CandleInSession
<1>6. b \in Candles(s, length)
  <2> HIDE DEF o
  <2> QED BY <1>4 DEF Candles
<1>7. t < b.closes
  <2> HIDE DEF o, b
  <2> QED BY <1>3, <1>5
<1> HIDE DEF o, b
<1> QED BY <1>3, <1>5, <1>6, <1>7

\* Over whole days the expected candles cover every instant of trading once,
\* and no other: the candle of an instant of a session is cut at the session's
\* close only, and candles do not overlap.
LEMMA TilesAlways ==
    ASSUME NEW c, Valid(c), NEW days \in Nat, NEW lengths \in SUBSET (Nat \ {0})
    PROVE  Tiles(c, days, lengths)
<1> SUFFICES ASSUME NEW first \in 0..(days - 1), NEW last \in 1..days,
                    NEW length \in lengths,
                    Accepts(c, first * DayLength, last * DayLength),
                    NEW t \in (first * DayLength)..(last * DayLength - 1)
             PROVE  Cardinality({b \in ExpectedBars(c, first * DayLength,
                                                   last * DayLength, length) :
                                   b.opens <= t /\ t < b.closes})
                      = IF Trading(c, t) THEN 1 ELSE 0
  BY DEF Tiles
<1> DEFINE start == first * DayLength
           end == last * DayLength
           covering == {b \in ExpectedBars(c, start, end, length) :
                          b.opens <= t /\ t < b.closes}
<1>1. /\ first \in Nat /\ last \in Nat /\ length \in Nat \ {0}
      /\ DayLength \in Nat \ {0}
  BY CalendarAssumption
<1>2. start \in Nat /\ end \in Nat
  BY <1>1
<1>3. t \in Nat /\ start <= t /\ t < end
  <2> HIDE DEF start, end
  <2>1. t \in start..(end - 1)
    BY DEF start, end
  <2> QED BY <1>2, <2>1
<1>4. ExpectedBars(c, start, end, length) =
        {b \in AllCandles(c, length) : Within(b, start, end)}
  <2> HIDE DEF start, end
  <2> QED BY <1>1, <1>2, <1>3, ExpectedWithin
<1>5. \A b \in covering :
         /\ b \in AllCandles(c, length)
         /\ b.opens \in Nat /\ b.closes \in Nat
         /\ b.opens <= t /\ t < b.closes
  <2> HIDE DEF start, end
  <2> QED BY <1>1, <1>4, CandleOfDay
<1>6. ASSUME NEW b \in covering
      PROVE  Trading(c, t)
  <2>1. PICK s \in SessionOf(c, Day(b.opens)) :
           /\ InItsDay(s, Day(b.opens))
           /\ s.opens <= b.opens /\ b.closes <= s.closes
    BY <1>1, <1>5, CandleOfDay
  <2>2. s.opens \in Nat /\ s.closes \in Nat /\ Day(b.opens) \in Nat
        /\ Day(b.opens) * DayLength <= s.opens
        /\ s.closes <= (Day(b.opens) + 1) * DayLength
    BY <2>1 DEF InItsDay
  <2>3. s.opens <= t /\ t < s.closes
    <3> HIDE DEF covering
    <3> QED BY <1>3, <1>5, <2>1, <2>2
  <2>4. Day(t) = Day(b.opens)
    <3>1. Day(b.opens) * DayLength \in Nat /\ (Day(b.opens) + 1) * DayLength \in Nat
      BY <1>1, <2>2
    <3>2. Day(b.opens) * DayLength <= t /\ t < (Day(b.opens) + 1) * DayLength
      BY <1>3, <2>2, <2>3, <3>1
    <3> QED BY <1>3, <2>2, <3>2, DayOf
  <2> QED BY <2>1, <2>3, <2>4, TradingInSession
<1>7. ASSUME NEW b \in covering, NEW e \in covering
      PROVE  b = e
  <2> HIDE DEF covering
  <2>1. ~(b.opens < e.opens) /\ ~(e.opens < b.opens)
    <3>1. CASE b.opens < e.opens
      <4>1. b.closes <= e.opens
        BY <1>1, <1>5, <3>1, CandlesApart
      <4> QED BY <1>3, <1>5, <4>1
    <3>2. CASE e.opens < b.opens
      <4>1. e.closes <= b.opens
        BY <1>1, <1>5, <3>2, CandlesApart
      <4> QED BY <1>3, <1>5, <4>1
    <3> QED BY <3>1, <3>2
  <2>2. b.opens = e.opens
    BY <1>5, <2>1
  <2>3. PICK s \in SessionOf(c, Day(b.opens)) : b = Candle(s, b.opens, length)
    BY <1>1, <1>5, CandleOfDay
  <2>4. PICK u \in SessionOf(c, Day(e.opens)) : e = Candle(u, e.opens, length)
    BY <1>1, <1>5, CandleOfDay
  <2>5. u = s
    BY <2>2, <2>3, <2>4, OwnSession
  <2> QED BY <2>2, <2>3, <2>4, <2>5
<1>8. ASSUME Trading(c, t)
      PROVE  covering # {}
  <2>1. PICK s \in SessionOf(c, Day(t)) : s.opens <= t /\ t < s.closes
    BY <1>8, TradingInSession
  <2>2. InItsDay(s, Day(t))
    BY OwnSession
  <2>3. PICK b \in Candles(s, length) :
           /\ b.opens \in Nat /\ b.closes \in Nat
           /\ s.opens <= b.opens /\ b.opens <= t
           /\ t < b.closes /\ b.closes <= s.closes
    BY <1>1, <1>3, <2>1, <2>2, CandleAt
  <2>4. /\ Day(t) \in Nat /\ Day(t) * DayLength <= t
        /\ t < (Day(t) + 1) * DayLength
    BY <1>3, InDay
  <2>5. /\ s.opens \in Nat /\ s.closes \in Nat
        /\ Day(t) * DayLength <= s.opens
        /\ s.closes <= (Day(t) + 1) * DayLength
    BY <2>2 DEF InItsDay
  <2>6. first <= Day(t) /\ Day(t) < last
    <3>1. CASE Day(t) < first
      <4>1. (Day(t) + 1) * DayLength <= start /\ (Day(t) + 1) * DayLength \in Nat
        BY <1>1, <2>4, <3>1, DaysApart
      <4> HIDE DEF start
      <4> QED BY <1>2, <1>3, <2>4, <4>1
    <3>2. CASE last <= Day(t)
      <4>1. end <= Day(t) * DayLength /\ Day(t) * DayLength \in Nat
        BY <1>1, <2>4, <3>2
      <4> HIDE DEF end
      <4> QED BY <1>2, <1>3, <2>4, <4>1
    <3> QED BY <1>1, <2>4, <3>1, <3>2
  <2>7. /\ start <= Day(t) * DayLength /\ (Day(t) + 1) * DayLength <= end
        /\ Day(t) * DayLength \in Nat /\ (Day(t) + 1) * DayLength \in Nat
    <3>1. Day(t) + 1 \in Nat /\ Day(t) + 1 <= last
      BY <1>1, <2>4, <2>6
    <3> QED BY <1>1, <2>4, <2>6, <3>1
  <2>8. Within(b, start, end)
    <3> HIDE DEF start, end
    <3> QED BY <1>2, <1>3, <2>3, <2>5, <2>7 DEF Within
  <2>9. b \in AllCandles(c, length)
    BY <2>3, <2>4 DEF AllCandles
  <2> QED BY <1>4, <2>3, <2>8, <2>9
<1> HIDE DEF covering
<1>9. CASE Trading(c, t)
  <2>1. PICK b \in covering : TRUE
    BY <1>8, <1>9
  <2>2. covering = {b}
    BY <1>7, <2>1
  <2> QED BY <1>9, <2>2, FS_Singleton DEF covering
<1>10. CASE ~Trading(c, t)
  <2>1. covering = {}
    BY <1>6, <1>10
  <2> QED BY <1>10, <2>1, FS_EmptySet DEF covering
<1> QED BY <1>9, <1>10

(***************************************************************************)
(* The Yahoo provider.                                                     *)
(***************************************************************************)

IsSeq(s) == s \in Seq({s[n] : n \in DOMAIN s})

\* What is appended to a sequence comes after what it has.
LEMMA Appended ==
    ASSUME NEW s, IsSeq(s), NEW e
    PROVE  /\ IsSeq(Append(s, e))
           /\ \A n \in DOMAIN Append(s, e) :
                 \/ n \in DOMAIN s /\ Append(s, e)[n] = s[n]
                 \/ Append(s, e)[n] = e
<1> DEFINE S == {s[n] : n \in DOMAIN s} \cup {e}
           longer == Append(s, e)
<1>1. s \in Seq(S) /\ e \in S
  <2>1. {s[n] : n \in DOMAIN s} \subseteq S
    OBVIOUS
  <2>2. s \in Seq({s[n] : n \in DOMAIN s})
    BY DEF IsSeq
  <2> QED BY <2>1, <2>2
<1> HIDE DEF S
<1>2. /\ longer \in Seq(S) /\ Len(longer) = Len(s) + 1 /\ Len(s) \in Nat
      /\ DOMAIN longer = 1..(Len(s) + 1) /\ DOMAIN s = 1..Len(s)
      /\ \A n \in 1..Len(s) : longer[n] = s[n]
      /\ longer[Len(s) + 1] = e
  BY <1>1
<1> HIDE DEF longer
<1>3. longer \in Seq({longer[n] : n \in DOMAIN longer})
  BY <1>2
<1>4. \A n \in 1..(Len(s) + 1) : n \in 1..Len(s) \/ n = Len(s) + 1
  BY <1>2
<1> QED BY <1>2, <1>3, <1>4 DEF IsSeq, longer

\* What the gates verify of rows, and the evidence of it, as operators of the
\* calendar and the time at which they are looked at: whatever else changes
\* leaves them alone.  How recent a request's start is was tested when it was
\* prepared; how long finished it is stays true.
ExpectedOf(c, request) ==
    {b.opens : b \in ExpectedBars(c, request.start, request.end, request.length)}

VerifiedAt(c, t, request, stamps) ==
    LET sessions == SessionsIn(c, request.start, request.end)
    IN  /\ Fits(request)
        /\ Accepts(c, request.start, request.end)
        /\ Cardinality(sessions) \in 1..MaxSessions
        /\ \A s \in sessions : request.start <= s.opens /\ s.closes <= request.end
        /\ request.end <= t - Settling
        /\ Len(stamps) \in 1..MaxFrame
        /\ ToSet(stamps) \subseteq ExpectedOf(c, request)
        /\ \A s \in sessions : s.opens \in ToSet(stamps)

EvidenceAt(c, request, stamps) ==
    [symbols |-> request.symbols,
     first |-> Min(ToSet(stamps)), last |-> Max(ToSet(stamps)),
     received |-> Len(stamps),
     sessions |-> Cardinality(SessionsIn(c, request.start, request.end)),
     missing |-> Cardinality(ExpectedOf(c, request) \ ToSet(stamps))]

\* What was verified stays verified as time passes.
LEMMA VerifiedStands ==
    ASSUME NEW c, NEW t \in Nat, NEW later \in Nat, t <= later,
           NEW request \in Requests, NEW stamps, VerifiedAt(c, t, request, stamps)
    PROVE  VerifiedAt(c, later, request, stamps)
<1>1. request.end \in Nat /\ Settling \in Nat
  BY YahooAssumption
<1>2. request.end <= t - Settling
  BY DEF VerifiedAt
<1>3. request.end <= later - Settling
  BY <1>1, <1>2
<1> QED BY <1>3 DEF VerifiedAt

\* Preparing a request keeps rows that are verified, with their evidence.
LEMMA PreparedVerified ==
    ASSUME NEW request \in Requests, NEW frame \in Frames,
           PreparedWith(request, frame)
    PROVE  /\ VerifiedAt(calendar, now, request, frame.stamps)
           /\ held' = request /\ kept' = frame.stamps
           /\ evidence' = EvidenceAt(calendar, request, frame.stamps)
<1>1. VerifiedAt(calendar, now, request, frame.stamps)
  <2>1. Fits(request) /\ request.end <= now - Settling
        /\ Len(frame.stamps) \in 1..MaxFrame
        /\ WholeSessions(request) /\ Labelled(request, frame.stamps)
    BY DEF PreparedWith, Passes, Recent
  <2>2. ToSet(frame.stamps) \subseteq ExpectedOf(calendar, request)
    BY <2>1 DEF Labelled, ExpectedOpenings, ExpectedOf
  <2> QED BY <2>1, <2>2 DEF WholeSessions, Labelled, VerifiedAt
<1>2. evidence' = EvidenceAt(calendar, request, frame.stamps)
  BY DEF PreparedWith, EvidenceOf, EvidenceAt, ExpectedOpenings, ExpectedOf
<1> QED BY <1>1, <1>2 DEF PreparedWith

\* What is kept was verified for the request it is kept under, whatever was
\* prepared or refused before, and so was what imports were given.  A pilot's
\* import is of the kept request, and has the evidence of its rows.
YahooInv ==
    /\ calendar \in Calendars /\ now \in Nat
    /\ held \in Requests \cup {NoRequest}
    /\ held # NoRequest =>
          /\ VerifiedAt(calendar, now, held, kept)
          /\ evidence = EvidenceAt(calendar, held, kept)
    /\ pending # NoImport => pending.request \in Requests
    /\ pilot /\ pending # NoImport =>
          pending.request = held /\ pending.evidence = evidence
    /\ IsSeq(imports)
    /\ \A n \in DOMAIN imports :
          /\ imports[n].request \in Requests
          /\ VerifiedAt(calendar, now, imports[n].request, imports[n].rows)
          /\ pilot => imports[n].evidence =
                        EvidenceAt(calendar, imports[n].request, imports[n].rows)

\* No import has begun.
LEMMA YahooStarts == SourcesInit => YahooInv
<1> SUFFICES ASSUME SourcesInit PROVE YahooInv
  OBVIOUS
<1>1. imports = <<>> /\ held = NoRequest /\ pending = NoImport
      /\ now = FirstNow /\ calendar \in Calendars
  BY DEF SourcesInit, YahooInit
<1>2. IsSeq(<<>>) /\ DOMAIN <<>> = {}
  BY DEF IsSeq
<1> QED BY <1>1, <1>2, YahooAssumption DEF YahooInv

\* What an import is given joins the rows of others.
LEMMA GivenVerified ==
    ASSUME YahooInv, NEW stamps, Given(stamps), pending # NoImport,
           VerifiedAt(calendar, now, pending.request, stamps),
           pilot => pending.evidence = EvidenceAt(calendar, pending.request, stamps)
    PROVE  /\ IsSeq(imports)'
           /\ \A n \in DOMAIN imports' :
                 /\ imports'[n].request \in Requests
                 /\ VerifiedAt(calendar, now, imports'[n].request, imports'[n].rows)
                 /\ pilot => imports'[n].evidence =
                      EvidenceAt(calendar, imports'[n].request, imports'[n].rows)
<1> DEFINE given == [request |-> pending.request, evidence |-> pending.evidence,
                     rows |-> stamps]
<1>1. given.request = pending.request /\ given.rows = stamps
      /\ given.evidence = pending.evidence
  OBVIOUS
<1>2. imports' = Append(imports, given)
  BY DEF Given
<1> HIDE DEF given
<1>3. IsSeq(imports')
      /\ \A n \in DOMAIN imports' :
            \/ n \in DOMAIN imports /\ imports'[n] = imports[n]
            \/ imports'[n] = given
  BY <1>2, Appended DEF YahooInv
<1>4. IsSeq(imports)'
  BY <1>3 DEF IsSeq
<1> QED BY <1>1, <1>3, <1>4 DEF YahooInv

\* Every step keeps what is said of imports and of the request held.
LEMMA YahooStep ==
    ASSUME YahooInv, [SourcesNext]_sourcesVars
    PROVE  YahooInv'
<1> USE DEF YahooInv
<1>1. CASE UNCHANGED yahooVars
  BY <1>1 DEF yahooVars, IsSeq
<1>2. ASSUME NEW request \in Requests, Prepare(request)
      PROVE  YahooInv'
  <2>1. UNCHANGED <<calendar, pilot, now, pending, imports>> /\ pending = NoImport
    BY <1>2 DEF Prepare
  <2>2. CASE \E frame \in Frames : PreparedWith(request, frame)
    <3>1. PICK frame \in Frames : PreparedWith(request, frame)
      BY <2>2
    <3> QED BY <2>1, <3>1, PreparedVerified DEF IsSeq
  <2>3. CASE PreparationFails(request)
    BY <2>1, <2>3 DEF PreparationFails, HeldOf, IsSeq
  <2> QED BY <1>2, <2>2, <2>3 DEF Prepare
<1>3. ASSUME NEW request \in Requests, Identify(request)
      PROVE  YahooInv'
  <2>1. /\ UNCHANGED <<calendar, pilot, now, held, kept, evidence, imports>>
        /\ pilot => held = request
        /\ pending' = [request |-> request, evidence |-> evidence]
    BY <1>3 DEF Identify, Permitted
  <2>2. pending'.request = request /\ pending'.evidence = evidence
    BY <2>1
  <2> QED BY <2>1, <2>2 DEF IsSeq
<1>4. CASE FetchHeld
  <2>1. /\ pending # NoImport /\ held = pending.request
        /\ Given(kept) /\ UNCHANGED <<held, kept, evidence>>
    BY <1>4 DEF FetchHeld, Reuses
  <2>2. held # NoRequest
    BY <2>1, YahooAssumption DEF NoRequest
  <2>3. UNCHANGED <<calendar, pilot, now>> /\ pending' = NoImport
    BY <2>1 DEF Given
  <2> QED BY <2>1, <2>2, <2>3, GivenVerified
<1>5. CASE FetchPrepares
  <2>1. PICK frame \in Frames :
           PreparedWith(pending.request, frame) /\ Given(frame.stamps)
    BY <1>5 DEF FetchPrepares
  <2>2. pending # NoImport /\ ~pilot /\ pending.request \in Requests
    BY <1>5 DEF FetchPrepares, Reuses
  <2>3. UNCHANGED <<calendar, pilot, now>> /\ pending' = NoImport
    BY <2>1 DEF Given
  <2> QED BY <2>1, <2>2, <2>3, PreparedVerified, GivenVerified
<1>6. CASE FetchFails
  BY <1>6 DEF FetchFails, PreparationFails, HeldOf, IsSeq
<1>7. CASE Abandon
  BY <1>7 DEF Abandon, IsSeq
<1>8. CASE Tick
  <2>1. /\ now' = now + 1 /\ now' \in Nat /\ now <= now'
        /\ UNCHANGED <<calendar, pilot, held, kept, evidence, pending, imports>>
    BY <1>8 DEF Tick
  <2>2. held # NoRequest => VerifiedAt(calendar, now', held, kept)
    BY <2>1, VerifiedStands
  <2>3. \A n \in DOMAIN imports :
           VerifiedAt(calendar, now', imports[n].request, imports[n].rows)
    BY <2>1, VerifiedStands
  <2> QED BY <2>1, <2>2, <2>3 DEF IsSeq
<1> QED BY <1>1, <1>2, <1>3, <1>4, <1>5, <1>6, <1>7, <1>8
        DEF SourcesNext, YahooNext, sourcesVars

\* What is said of imports and of the request held is so throughout.
THEOREM YahooInvariant == SourcesSpec => []YahooInv
<1>1. SourcesInit => YahooInv
  BY YahooStarts
<1>2. YahooInv /\ [SourcesNext]_sourcesVars => YahooInv'
  BY YahooStep
<1> QED BY <1>1, <1>2, PTL DEF SourcesSpec

\* The rows an import is given were verified for the very request it made:
\* nothing that passed the gates for another request, or before a refusal, is
\* ever handed on (fetch_bars of the Yahoo provider).
THEOREM RowsVerified == SourcesSpec => []DeliveredVerified
<1>1. YahooInv => DeliveredVerified
  <2> SUFFICES ASSUME YahooInv, NEW n \in DOMAIN imports
               PROVE  LET request == imports[n].request
                      IN  /\ Fits(request) /\ WholeSessions(request)
                          /\ request.end <= now - Settling
                          /\ Len(imports[n].rows) \in 1..MaxFrame
                          /\ Labelled(request, imports[n].rows)
    BY DEF DeliveredVerified
  <2> DEFINE request == imports[n].request
             stamps == imports[n].rows
  <2>1. VerifiedAt(calendar, now, request, stamps)
    BY DEF YahooInv
  <2> HIDE DEF request, stamps
  <2>2. ToSet(stamps) \subseteq ExpectedOpenings(request)
    BY <2>1 DEF VerifiedAt, ExpectedOf, ExpectedOpenings
  <2>3. WholeSessions(request) /\ Labelled(request, stamps)
    BY <2>1, <2>2 DEF VerifiedAt, WholeSessions, Labelled
  <2>4. /\ Fits(request) /\ request.end <= now - Settling
        /\ Len(stamps) \in 1..MaxFrame
    BY <2>1 DEF VerifiedAt
  <2> QED BY <2>3, <2>4 DEF request, stamps
<1> QED BY <1>1, YahooInvariant, PTL

\* The evidence a pilot's import recorded before its fetch is the evidence of
\* the rows it was given then.
THEOREM PilotEvidence == SourcesSpec => []EvidenceMatchesRows
<1>1. YahooInv => EvidenceMatchesRows
  <2> SUFFICES ASSUME YahooInv, pilot, NEW n \in DOMAIN imports
               PROVE  imports[n].evidence =
                        EvidenceOf(imports[n].request, imports[n].rows)
    BY DEF EvidenceMatchesRows
  <2>1. imports[n].evidence =
          EvidenceAt(calendar, imports[n].request, imports[n].rows)
    BY DEF YahooInv
  <2> QED BY <2>1
          DEF EvidenceAt, EvidenceOf, ExpectedOf, ExpectedOpenings
<1> QED BY <1>1, YahooInvariant, PTL

\* Whatever calendar is in force, its expected candles cover the hours of
\* trading over whole days, each instant once (expected_bars).
THEOREM HoursCovered == SourcesSpec => []CandlesTile
<1>1. YahooInv => CandlesTile
  BY TilesAlways, YahooAssumption, SourcesAssumption
     DEF YahooInv, CandlesTile, Valid
<1> QED BY <1>1, YahooInvariant, PTL

\* Whatever calendar is in force, ranges are accepted when each instant is
\* known, have the candles of their parts, and agree with next_bar.
THEOREM RangesConsistent == SourcesSpec => []RangesAgree
<1>1. YahooInv => RangesAgree
  BY SplitsAlways, NextAgreesAlways, YahooAssumption, SourcesAssumption
     DEF YahooInv, RangesAgree, Valid
<1> QED BY <1>1, YahooInvariant, PTL

(***************************************************************************)
(* The Groww provider: seconds and chunks.                                 *)
(***************************************************************************)

\* The whole second of an instant is the last multiple up to it.
LEMMA WholeSecond ==
    ASSUME NEW a \in Nat
    PROVE  /\ Whole(a) \in Nat /\ Whole(a) <= a /\ a < Whole(a) + Second
           /\ Whole(a) = Second * (a \div Second) /\ a \div Second \in Nat
           /\ a % Second = 0 => Whole(a) = a
<1>1. Second \in Nat \ {0}
  BY GrowwAssumption
<1>2. /\ a \div Second \in Nat /\ a % Second \in Nat /\ a % Second < Second
      /\ Second * (a \div Second) \in Nat
      /\ Second * (a \div Second) <= a
      /\ a < Second * (a \div Second) + Second
      /\ a % Second = a - Second * (a \div Second)
  BY <1>1, Quotient
<1> DEFINE m == Second * (a \div Second)
           rest == a % Second
<1>3. Whole(a) = a - rest
  BY DEF Whole
<1>4. m \in Nat /\ rest = a - m /\ m <= a /\ a < m + Second /\ rest \in Nat
  BY <1>2
<1> HIDE DEF m, rest
<1>5. Whole(a) = m
  BY <1>3, <1>4
<1> QED BY <1>1, <1>2, <1>4, <1>5 DEF m, rest

\* A whole second up to an instant is one up to its whole second.
LEMMA MultipleBelow ==
    ASSUME NEW q \in Nat, NEW b \in Nat, Second * q <= b
    PROVE  Second * q <= Whole(b)
<1>1. Second \in Nat \ {0}
  BY GrowwAssumption
<1> DEFINE r == b \div Second
<1>2. r \in Nat /\ Whole(b) = Second * r /\ b < Second * r + Second
  BY WholeSecond
<1> HIDE DEF r
<1>3. ~(r < q)
  <2> SUFFICES ASSUME r + 1 <= q PROVE FALSE
    BY <1>2
  <2>1. Second * (r + 1) <= Second * q
    BY <1>1, <1>2
  <2>2. Second * (r + 1) = Second * r + Second
    BY <1>1, <1>2
  <2>3. Second * r \in Nat /\ Second * q \in Nat
    BY <1>1, <1>2
  <2> QED BY <1>1, <1>2, <2>1, <2>2, <2>3
<1>4. Second * q <= Second * r
  BY <1>1, <1>2, <1>3
<1> QED BY <1>2, <1>4

\* Whole seconds keep the order of instants, and those of instants a second
\* apart differ.
LEMMA WholeOrder ==
    ASSUME NEW a \in Nat, NEW b \in Nat, a <= b
    PROVE  /\ Whole(a) <= Whole(b)
           /\ a % Second = 0 => a <= Whole(b)
           /\ a + Second <= b => Whole(a) < Whole(b)
<1> DEFINE q == a \div Second
<1>1. Second \in Nat \ {0}
  BY GrowwAssumption
<1>2. /\ Whole(a) \in Nat /\ Whole(a) <= a /\ Whole(a) = Second * q /\ q \in Nat
      /\ a % Second = 0 => Whole(a) = a
  BY WholeSecond
<1> HIDE DEF q
<1>3. Whole(a) <= Whole(b)
  <2>1. Second * q <= b
    BY <1>2
  <2> QED BY <1>2, <2>1, MultipleBelow
<1>4. a + Second <= b => Whole(a) < Whole(b)
  <2> SUFFICES ASSUME a + Second <= b PROVE Whole(a) < Whole(b)
    OBVIOUS
  <2>1. Second * (q + 1) = Second * q + Second /\ q + 1 \in Nat
    BY <1>1, <1>2
  <2>2. Second * (q + 1) <= b
    BY <1>1, <1>2, <2>1
  <2>3. Second * (q + 1) <= Whole(b)
    BY <2>1, <2>2, MultipleBelow
  <2> QED BY <1>1, <1>2, <2>1, <2>3, WholeSecond
<1> QED BY <1>2, <1>3, <1>4

\* Where the seams lie as seen from the start of a chunk.
LEMMA SeamsSeen ==
    ASSUME wanted \in Wanted, NEW k \in Nat, NEW c \in Nat,
           c = wanted.start + k * MaxRange, c < wanted.end
    PROVE  /\ k # 0 => Whole(c) \in Seams
           /\ \A t \in Seams :
                /\ t \in Nat /\ Whole(wanted.start) < t /\ t < wanted.end
                /\ \/ t <= Whole(c)
                   \/ Whole(c + MaxRange) <= t /\ c + MaxRange < wanted.end
<1> DEFINE begin == wanted.start
           end == wanted.end
<1>1. /\ Second \in Nat \ {0} /\ MaxRange \in Nat /\ Second <= MaxRange
      /\ begin \in Nat /\ end \in Nat
  BY GrowwAssumption
<1>2. ASSUME k # 0 PROVE Whole(c) \in Seams
  <2>1. k <= k * MaxRange
    BY <1>1
  <2>2. k * MaxRange = c - begin /\ c - begin < end - begin
    BY <1>1
  <2>3. k \in 1..(end - begin)
    BY <1>1, <1>2, <2>1, <2>2
  <2> QED BY <2>3 DEF Seams
<1>3. ASSUME NEW t \in Seams
      PROVE  /\ t \in Nat /\ Whole(begin) < t /\ t < end
             /\ \/ t <= Whole(c)
                \/ Whole(c + MaxRange) <= t /\ c + MaxRange < end
  <2>1. PICK j \in 1..(end - begin) :
            t = Whole(begin + j * MaxRange) /\ begin + j * MaxRange < end
    BY DEF Seams
  <2> DEFINE at == begin + j * MaxRange
  <2>2. j \in Nat \ {0} /\ j * MaxRange \in Nat /\ MaxRange <= j * MaxRange
    BY <1>1, <2>1
  <2>3. at \in Nat /\ begin + Second <= at /\ at < end /\ t = Whole(at)
    BY <1>1, <2>1, <2>2
  <2>4. j <= k => at <= c
    <3> SUFFICES ASSUME j <= k PROVE j * MaxRange <= k * MaxRange
      BY <1>1, <2>2
    <3> QED BY <1>1, <2>2
  <2>5. ~(j <= k) => c + MaxRange <= at
    <3> SUFFICES ASSUME k + 1 <= j PROVE c + MaxRange <= at
      BY <2>2
    <3>1. (k + 1) * MaxRange <= j * MaxRange
      BY <1>1, <2>2
    <3>2. (k + 1) * MaxRange = k * MaxRange + MaxRange /\ k * MaxRange \in Nat
      BY <1>1
    <3> QED BY <1>1, <2>2, <3>1, <3>2
  <2> HIDE DEF at, begin, end
  <2>6. t \in Nat /\ t <= at
    BY <2>3, WholeSecond
  <2>7. Whole(begin) < t
    BY <1>1, <2>3, WholeOrder
  <2>8. CASE j <= k
    <3>1. t <= Whole(c)
      BY <2>3, <2>4, <2>8, WholeOrder
    <3> QED BY <1>1, <2>3, <2>6, <2>7, <3>1
  <2>9. CASE ~(j <= k)
    <3>1. c + MaxRange \in Nat /\ c + MaxRange <= at
      BY <1>1, <2>5, <2>9
    <3>2. Whole(c + MaxRange) <= t
      BY <2>3, <3>1, WholeOrder
    <3> QED BY <1>1, <2>3, <2>6, <2>7, <3>1, <3>2
  <2> QED BY <2>8, <2>9
<1> QED BY <1>2, <1>3

\* A finite set of numbers can be put in order.
LEMMA AscendingExists ==
    ASSUME NEW times \in SUBSET Nat, IsFiniteSet(times)
    PROVE  /\ Ascending(times) \in [1..Cardinality(times) -> times]
           /\ \A n, m \in 1..Cardinality(times) :
                n < m => Ascending(times)[n] < Ascending(times)[m]
<1> DEFINE Orders(q, S) ==
             /\ q \in [1..Cardinality(S) -> S]
             /\ \A n, m \in 1..Cardinality(S) : n < m => q[n] < q[m]
           without == {k \in Nat : \E S \in SUBSET times :
                          Cardinality(S) = k /\ ~\E q : Orders(q, S)}
<1>1. without = {}
  <2> SUFFICES ASSUME without # {} PROVE FALSE
    OBVIOUS
  <2>1. PICK k \in without : \A j \in without : k <= j
    <3>1. without \in SUBSET Nat
      OBVIOUS
    <3> DEFINE least == Min(without)
    <3>2. least \in without /\ \A j \in without : least <= j
      <4> HIDE DEF without
      <4> QED BY <3>1, LeastOf
    <3> QED BY <3>2
  <2>2. PICK S \in SUBSET times : Cardinality(S) = k /\ ~\E q : Orders(q, S)
    OBVIOUS
  <2>3. k \in Nat /\ IsFiniteSet(S) /\ S \in SUBSET Nat
    BY FS_Subset
  <2>4. S # {}
    <3> SUFFICES ASSUME S = {} PROVE FALSE
      OBVIOUS
    <3>1. Cardinality(S) = 0
      BY FS_EmptySet
    <3>2. Orders(<<>>, S)
      BY <3>1
    <3> QED BY <2>2, <3>2
  <2>5. PICK x \in S : \A y \in S : x <= y
    BY <2>3, <2>4, LeastOf
  <2> DEFINE R == S \ {x}
  <2>6. k # 0 /\ Cardinality(R) = k - 1 /\ R \in SUBSET times
    BY <2>2, <2>3, <2>4, <2>5, FS_RemoveElement, FS_EmptySet
  <2>7. k - 1 \in Nat /\ ~(k <= k - 1)
    BY <2>3, <2>6
  <2>8. PICK p : Orders(p, R)
    <3>1. k - 1 \notin without
      <4> HIDE DEF without
      <4> QED BY <2>1, <2>7
    <3> QED BY <2>6, <2>7, <3>1
  <2> DEFINE q == [n \in 1..k |-> IF n = 1 THEN x ELSE p[n - 1]]
  <2>9. /\ p \in [1..(k - 1) -> R]
        /\ \A n, m \in 1..(k - 1) : n < m => p[n] < p[m]
    BY <2>6, <2>8
  <2>10. \A n \in 1..k : n # 1 => n - 1 \in 1..(k - 1) /\ p[n - 1] \in R
    BY <2>3, <2>9
  <2>11. q \in [1..k -> S]
    BY <2>5, <2>10
  <2>12. ASSUME NEW n \in 1..k, NEW m \in 1..k, n < m PROVE q[n] < q[m]
    <3>1. m # 1 /\ q[m] = p[m - 1] /\ p[m - 1] \in R /\ m - 1 \in 1..(k - 1)
      BY <2>3, <2>10, <2>12
    <3>2. CASE n = 1
      <4>1. q[n] = x /\ x <= p[m - 1] /\ p[m - 1] # x /\ p[m - 1] \in Nat
        BY <2>3, <2>5, <3>1, <3>2
      <4> QED BY <2>3, <2>5, <3>1, <4>1
    <3>3. CASE n # 1
      <4>1. n - 1 \in 1..(k - 1) /\ n - 1 < m - 1 /\ q[n] = p[n - 1]
        BY <2>3, <2>10, <2>12, <3>3
      <4> QED BY <2>9, <3>1, <4>1
    <3> QED BY <3>2, <3>3
  <2>13. Orders(q, S)
    BY <2>2, <2>11, <2>12
  <2> QED BY <2>2, <2>13
<1>2. \E q : Orders(q, times)
  <2>1. Cardinality(times) \in Nat
    BY FS_CardinalityType
  <2> QED BY <1>1, <2>1
<1>3. Ascending(times)
        = CHOOSE q \in [1..Cardinality(times) -> times] :
            \A n, m \in DOMAIN q : n < m => q[n] < q[m]
  BY DEF Ascending
<1>4. \E q \in [1..Cardinality(times) -> times] :
         \A n, m \in DOMAIN q : n < m => q[n] < q[m]
  BY <1>2
<1>5. /\ Ascending(times) \in [1..Cardinality(times) -> times]
      /\ \A n, m \in DOMAIN Ascending(times) :
           n < m => Ascending(times)[n] < Ascending(times)[m]
  BY <1>3, <1>4
<1> QED BY <1>5

(***************************************************************************)
(* The Groww provider: the rows of a chunk.                                *)
(***************************************************************************)

RowRecord == [symbol : Symbols, time : Nat, blank : BOOLEAN]

\* Where a list has rows of one candle, and the rows a chunk adds.
Places(list, symbol, t) ==
    {n \in DOMAIN list : list[n].symbol = symbol /\ list[n].time = t}
Batch(symbol, times, spoiled) ==
    [n \in DOMAIN Ascending(times) |-> Row(symbol, Ascending(times)[n], spoiled)]

\* A list with one row of each of the candles, in order.
ChunkRows(batch, symbol, times, spoiled) ==
    /\ batch \in Seq(RowRecord)
    /\ \A n \in DOMAIN batch :
         /\ batch[n].symbol = symbol /\ batch[n].time \in times
         /\ batch[n].blank = (batch[n].time \in spoiled)
    /\ \A n, m \in DOMAIN batch : n < m => batch[n].time < batch[m].time
    /\ \A t \in times : \E n \in DOMAIN batch : batch[n].time = t

\* A list to which such rows were appended.
ChunkAppended(more, list, symbol, times, spoiled) ==
    /\ more \in Seq(RowRecord)
    /\ \A n \in DOMAIN more :
         \/ n \in DOMAIN list /\ more[n] = list[n]
         \/ /\ n > Len(list) /\ more[n].symbol = symbol
            /\ more[n].time \in times
            /\ more[n].blank = (more[n].time \in spoiled)
    /\ \A n, m \in DOMAIN more :
         n > Len(list) /\ n < m => more[n].time < more[m].time
    /\ \A other, t :
         Cardinality(Places(more, other, t)) =
           Cardinality(Places(list, other, t))
             + (IF other = symbol /\ t \in times THEN 1 ELSE 0)

\* A chunk has one row of each of its candles, in order.
LEMMA BatchRows ==
    ASSUME NEW symbol \in Symbols, NEW times \in SUBSET Nat, IsFiniteSet(times),
           NEW spoiled
    PROVE  ChunkRows(Batch(symbol, times, spoiled), symbol, times, spoiled)
<1> DEFINE q == Ascending(times)
           k == Cardinality(times)
           batch == Batch(symbol, times, spoiled)
<1>1. /\ q \in [1..k -> times] /\ k \in Nat
      /\ \A n, m \in 1..k : n < m => q[n] < q[m]
  BY AscendingExists, FS_CardinalityType
<1>2. \A t \in times : \E n \in 1..k : q[n] = t
  <2>1. IsFiniteSet(1..k) /\ Cardinality(1..k) = k
    BY <1>1, FS_Interval
  <2>2. \A n, m \in 1..k : q[n] = q[m] => n = m
    <3>1. ASSUME NEW n \in 1..k, NEW m \in 1..k, q[n] = q[m] PROVE n = m
      <4>1. ~(n < m) /\ ~(m < n)
        <5>1. q[n] \in Nat /\ q[m] \in Nat
          BY <1>1
        <5> HIDE DEF q, k
        <5> QED BY <1>1, <3>1, <5>1
      <4> QED BY <4>1
    <3> QED BY <3>1
  <2> DEFINE D == 1..k
  <2>3. /\ \A n \in D : q[n] \in times
        /\ \A n, m \in D : q[n] = q[m] => n = m
        /\ q \in [D -> times]
    BY <1>1, <2>2
  <2> SUFFICES ASSUME NEW t \in times, \A n \in D : q[n] # t PROVE FALSE
    OBVIOUS
  <2> DEFINE rest == times \ {t}
  <2>4. IsFiniteSet(rest) /\ Cardinality(rest) = k - 1
    BY FS_RemoveElement
  <2>5. q \in [D -> rest] /\ IsFiniteSet(D) /\ Cardinality(D) = k
    BY <2>1, <2>3
  <2>6. Cardinality(rest) < Cardinality(D)
    BY <1>1, <2>4, <2>5
  <2> HIDE DEF D, rest, q, k
  <2>7. \E x, y \in D : x # y /\ q[x] = q[y]
    BY <2>4, <2>5, <2>6, FS_PigeonHole
  <2> QED BY <2>3, <2>7
<1> HIDE DEF k
<1>3. DOMAIN q = 1..k
  BY <1>1
<1>4. DOMAIN batch = 1..k
  BY <1>3 DEF Batch
<1>5. ASSUME NEW n \in 1..k
      PROVE  /\ batch[n] \in RowRecord
             /\ batch[n].symbol = symbol /\ batch[n].time = q[n]
             /\ batch[n].blank = (q[n] \in spoiled) /\ q[n] \in times
  <2> DEFINE row == Row(symbol, q[n], spoiled)
  <2>1. batch[n] = row /\ q[n] \in times /\ q[n] \in Nat
    BY <1>1, <1>3 DEF Batch
  <2>2. /\ row.symbol = symbol /\ row.time = q[n]
        /\ row.blank = (q[n] \in spoiled)
    BY DEF Row
  <2>3. row \in RowRecord
    <3>1. (q[n] \in spoiled) \in BOOLEAN
      OBVIOUS
    <3> HIDE DEF q
    <3> QED BY <2>1, <3>1 DEF Row, RowRecord
  <2> HIDE DEF row, batch
  <2> QED BY <2>1, <2>2, <2>3
<1> HIDE DEF q
<1>6. batch \in Seq(RowRecord)
  <2>1. batch = [n \in 1..k |-> batch[n]]
    BY <1>3 DEF Batch, q
  <2> HIDE DEF batch
  <2> QED BY <1>1, <1>4, <1>5, <2>1
<1> HIDE DEF batch
<1>7. \A n \in DOMAIN batch :
         /\ batch[n].symbol = symbol /\ batch[n].time \in times
         /\ batch[n].blank = (batch[n].time \in spoiled)
  <2> SUFFICES ASSUME NEW n \in 1..k
               PROVE  /\ batch[n].symbol = symbol /\ batch[n].time \in times
                      /\ batch[n].blank = (batch[n].time \in spoiled)
    BY <1>4
  <2> QED BY <1>5
<1>8. \A n, m \in DOMAIN batch : n < m => batch[n].time < batch[m].time
  <2> SUFFICES ASSUME NEW n \in 1..k, NEW m \in 1..k, n < m
               PROVE  batch[n].time < batch[m].time
    BY <1>4
  <2>1. q[n] < q[m]
    BY <1>1
  <2> QED BY <1>5, <2>1
<1>9. \A t \in times : \E n \in DOMAIN batch : batch[n].time = t
  <2> SUFFICES ASSUME NEW t \in times
               PROVE  \E n \in 1..k : batch[n].time = t
    BY <1>4
  <2>1. PICK n \in 1..k : q[n] = t
    BY <1>2
  <2> QED BY <1>5, <2>1
<1>10. ChunkRows(batch, symbol, times, spoiled)
  BY <1>6, <1>7, <1>8, <1>9 DEF ChunkRows
<1> QED BY <1>10 DEF batch

\* What a chunk adds to a list.
LEMMA BatchAdded ==
    ASSUME NEW list \in Seq(RowRecord), NEW symbol \in Symbols,
           NEW times \in SUBSET Nat, IsFiniteSet(times), NEW spoiled
    PROVE  ChunkAppended(list \o Batch(symbol, times, spoiled),
                    list, symbol, times, spoiled)
<1> DEFINE batch == Batch(symbol, times, spoiled)
           more == list \o batch
           l == Len(list)
           k == Len(batch)
<1>1. /\ batch \in Seq(RowRecord)
      /\ \A n \in DOMAIN batch :
           /\ batch[n].symbol = symbol /\ batch[n].time \in times
           /\ batch[n].blank = (batch[n].time \in spoiled)
      /\ \A n, m \in DOMAIN batch : n < m => batch[n].time < batch[m].time
      /\ \A t \in times : \E n \in DOMAIN batch : batch[n].time = t
  <2>1. ChunkRows(batch, symbol, times, spoiled)
    BY BatchRows
  <2> HIDE DEF batch
  <2> QED BY <2>1 DEF ChunkRows
<1> HIDE DEF batch
<1>2. /\ l \in Nat /\ k \in Nat /\ DOMAIN list = 1..l /\ DOMAIN batch = 1..k
      /\ more \in Seq(RowRecord) /\ DOMAIN more = 1..(l + k)
      /\ \A n \in 1..l : more[n] = list[n]
      /\ \A n \in (l + 1)..(l + k) : more[n] = batch[n - l]
  BY <1>1
<1> HIDE DEF more, l, k
<1>3. \A n \in 1..(l + k) :
        \/ n \in 1..l
        \/ n \in (l + 1)..(l + k) /\ n - l \in 1..k /\ n > l
  BY <1>2
<1>4. \A n \in DOMAIN more :
        \/ n \in DOMAIN list /\ more[n] = list[n]
        \/ /\ n > l /\ more[n].symbol = symbol
           /\ more[n].time \in times
           /\ more[n].blank = (more[n].time \in spoiled)
  <2> SUFFICES ASSUME NEW n \in DOMAIN more, n \notin 1..l
               PROVE  /\ n > l /\ more[n].symbol = symbol
                      /\ more[n].time \in times
                      /\ more[n].blank = (more[n].time \in spoiled)
    BY <1>2
  <2>1. /\ n \in (l + 1)..(l + k) /\ n - l \in DOMAIN batch /\ n > l
        /\ more[n] = batch[n - l]
    BY <1>2, <1>3
  <2> QED BY <1>1, <2>1
<1>5. ASSUME NEW n \in DOMAIN more, NEW m \in DOMAIN more, n > l, n < m
      PROVE  more[n].time < more[m].time
  <2>1. /\ n \in (l + 1)..(l + k) /\ m \in (l + 1)..(l + k)
        /\ n - l \in 1..k /\ m - l \in 1..k /\ n - l < m - l
    BY <1>2, <1>5
  <2> QED BY <1>1, <1>2, <2>1
<1>6. ASSUME NEW other, NEW t
      PROVE  Cardinality(Places(more, other, t)) =
               Cardinality(Places(list, other, t))
                 + (IF other = symbol /\ t \in times THEN 1 ELSE 0)
  <2> DEFINE old == Places(list, other, t)
             new == Places(more, other, t)
  <2>1. IsFiniteSet(old) /\ Cardinality(old) \in Nat /\ old \in SUBSET (1..l)
    <3>1. IsFiniteSet(1..l) /\ old \in SUBSET (1..l)
      BY <1>2, FS_Interval DEF Places
    <3> QED BY <3>1, FS_Subset, FS_CardinalityType
  <2>2. \A n \in 1..l : n \in new <=> n \in old
    <3>1. \A n \in 1..l : n \in DOMAIN more
      BY <1>2
    <3> QED BY <1>2, <3>1 DEF Places
  <2>3. CASE ~(other = symbol /\ t \in times)
    <3>1. new \subseteq 1..l
      BY <1>2, <1>4, <2>3 DEF Places
    <3>2. new = old
      BY <2>1, <2>2, <3>1
    <3> QED BY <2>1, <2>3, <3>2
  <2>4. CASE other = symbol /\ t \in times
    <3>1. PICK n \in 1..k : batch[n].time = t
      BY <1>1, <1>2, <2>4
    <3> DEFINE at == l + n
    <3>2. at \in (l + 1)..(l + k) /\ at - l = n /\ at \in DOMAIN more /\ at \notin 1..l
      BY <1>2, <3>1
    <3>3. at \in new
      BY <1>1, <1>2, <2>4, <3>1, <3>2 DEF Places
    <3>4. ASSUME NEW m \in new, m \notin 1..l PROVE m = at
      <4>1. m \in DOMAIN more /\ more[m].time = t /\ more[at].time = t
        BY <3>3 DEF Places
      <4>2. m > l /\ at > l /\ m \in Int /\ at \in Int /\ at \in DOMAIN more
        BY <1>2, <3>2, <3>4, <4>1
      <4>3. t \in Nat
        BY <2>4
      <4>4. ~(m < at) /\ ~(at < m)
        <5> HIDE DEF at
        <5> QED BY <1>5, <4>1, <4>2, <4>3
      <4> HIDE DEF at
      <4> QED BY <4>2, <4>4
    <3> HIDE DEF at
    <3>5. new = old \cup {at}
      <4>1. new \subseteq old \cup {at}
        BY <2>2, <3>4
      <4>2. old \cup {at} \subseteq new
        BY <2>1, <2>2, <3>3
      <4> QED BY <4>1, <4>2
    <3>6. at \notin old
      BY <2>1, <3>2
    <3> HIDE DEF old, new
    <3>7. Cardinality(new) = Cardinality(old) + 1
      BY <2>1, <3>5, <3>6, FS_AddElement
    <3> QED BY <2>4, <3>7 DEF old, new
  <2> QED BY <2>3, <2>4
<1>7. ChunkAppended(more, list, symbol, times, spoiled)
  BY <1>2, <1>4, <1>5, <1>6 DEF ChunkAppended, l
<1> QED BY <1>7 DEF more, batch

(***************************************************************************)
(* The Groww provider: the rows of a fetch.                                *)
(***************************************************************************)

CopiesAt(list, symbol, t) == Cardinality(Places(list, symbol, t))

\* What FetchComplete says of a symbol.
Complete(list, symbol) ==
    \A t \in quotes[symbol] :
        /\ t \in Seams => CopiesAt(list, symbol, t) = 2
        /\ t \notin Seams =>
             IF Whole(wanted.start) <= t /\ t < wanted.end
             THEN CopiesAt(list, symbol, t) = 1
             ELSE \A n \in DOMAIN list :
                     list[n].symbol = symbol /\ list[n].time = t =>
                        list[n].blank /\ t = wanted.end

\* What holds of a symbol asked for up to c: its candles are there once, those
\* at the seams before c twice.
Counted(list, symbol, c) ==
    \A t \in quotes[symbol] :
        IF c # wanted.start /\ Whole(wanted.start) <= t /\ t <= Whole(c)
        THEN CopiesAt(list, symbol, t)
               = IF t \in Seams /\ t < Whole(c) THEN 2 ELSE 1
        ELSE CopiesAt(list, symbol, t) = 0

\* The rows are of symbols asked for, those of the present one up to c.
RowsWithin(list, p, c) ==
    \A n \in DOMAIN list :
        \/ \E q \in 1..(p - 1) : list[n].symbol = wanted.symbols[q]
        \/ /\ list[n].symbol = wanted.symbols[p]
           /\ c # wanted.start /\ list[n].time <= Whole(c)

\* The rows of a symbol are in the order of time.
InTime(list) ==
    \A n, m \in DOMAIN list :
        n < m /\ list[n].symbol = list[m].symbol =>
            list[n].time <= list[m].time

\* A cursor is a whole number of chunks from the start.
AtChunk(c) ==
    /\ c \in Nat /\ c < wanted.end
    /\ \E k \in Nat : c = wanted.start + k * MaxRange

GrowwInv ==
    /\ wanted \in Wanted /\ quotes \in Histories
    /\ step \in {"resolve", "ask", "done", "failed"}
    /\ rows \in Seq(RowRecord) /\ InTime(rows)
    /\ part \in 1..Len(wanted.symbols)
    /\ step = "resolve" => rows = <<>> /\ part = 1 /\ cursor = wanted.start
    /\ step = "ask" =>
          /\ Resolves /\ AtChunk(cursor)
          /\ \A p \in 1..(part - 1) : Complete(rows, wanted.symbols[p])
          /\ Counted(rows, wanted.symbols[part], cursor)
          /\ RowsWithin(rows, part, cursor)
    /\ step = "done" =>
          \A p \in 1..Len(wanted.symbols) : Complete(rows, wanted.symbols[p])

\* The fields of a request and of a history.
LEMMA RequestFields ==
    ASSUME wanted \in Wanted, quotes \in Histories
    PROVE  /\ wanted.symbols \in Seq(Symbols) /\ Len(wanted.symbols) \in Nat \ {0}
           /\ wanted.start \in Nat /\ wanted.end \in Nat
           /\ wanted.start < wanted.end
           /\ \A p, q \in 1..Len(wanted.symbols) :
                wanted.symbols[p] = wanted.symbols[q] => p = q
           /\ \A p \in 1..Len(wanted.symbols) : wanted.symbols[p] \in Symbols
           /\ \A s \in Symbols : \A t \in quotes[s] :
                t \in Nat /\ t % Second = 0
           /\ Second \in Nat \ {0} /\ MaxRange \in Nat /\ Second <= MaxRange
  BY GrowwAssumption DEF ValidRequest, IsInjective

\* A symbol of which there are no rows is counted up to the start.
LEMMA NoneCounted ==
    ASSUME NEW list, NEW symbol,
           \A n \in DOMAIN list : list[n].symbol # symbol
    PROVE  Counted(list, symbol, wanted.start)
<1>1. ASSUME NEW t PROVE CopiesAt(list, symbol, t) = 0
  <2>1. Places(list, symbol, t) = {}
    BY DEF Places
  <2> QED BY <2>1, FS_EmptySet DEF CopiesAt
<1> QED BY <1>1 DEF Counted

\* Of what is started with nothing is wrong.
LEMMA GrowwStarts == GrowwInit => GrowwInv
<1> SUFFICES ASSUME GrowwInit PROVE GrowwInv
  OBVIOUS
<1>1. /\ wanted \in Wanted /\ quotes \in Histories /\ step = "resolve"
      /\ part = 1 /\ cursor = wanted.start /\ rows = <<>>
  BY DEF GrowwInit
<1>2. part \in 1..Len(wanted.symbols)
  BY <1>1, RequestFields
<1>3. rows \in Seq(RowRecord) /\ InTime(rows)
  BY <1>1 DEF InTime
<1> QED BY <1>1, <1>2, <1>3 DEF GrowwInv

\* The chunk from c to e, where e is no later than the end, adds rows of
\* these candles.
Times(symbol, c, e, spoiled) == Yielded(Answer(symbol, c, e), spoiled)

LEMMA ChunkTimes ==
    ASSUME wanted \in Wanted, quotes \in Histories, NEW symbol \in Symbols,
           NEW c \in Nat, NEW e \in Nat, NEW spoiled
    PROVE  /\ Times(symbol, c, e, spoiled) \in SUBSET Nat
           /\ IsFiniteSet(Times(symbol, c, e, spoiled))
           /\ \A t \in quotes[symbol] :
                t \in Times(symbol, c, e, spoiled) <=>
                   /\ Whole(c) <= t /\ t <= Whole(e)
                   /\ t \in spoiled \/ t # wanted.end
           /\ \A t \in Times(symbol, c, e, spoiled) :
                t \in quotes[symbol] /\ Whole(c) <= t /\ t <= Whole(e)
<1> DEFINE times == Times(symbol, c, e, spoiled)
<1>1. /\ \A t \in quotes[symbol] :
           t \in times <=> /\ Whole(c) <= t /\ t <= Whole(e)
                           /\ t \in spoiled \/ t # wanted.end
      /\ \A t \in times : t \in quotes[symbol] /\ Whole(c) <= t /\ t <= Whole(e)
  BY DEF Times, Yielded, Answer
<1>2. times \in SUBSET Nat
  BY <1>1, RequestFields
<1>3. Whole(e) \in Nat
  BY WholeSecond
<1> HIDE DEF times
<1>4. IsFiniteSet(times)
  BY <1>1, <1>2, <1>3, FS_BoundedSetOfNaturals
<1> QED BY <1>1, <1>2, <1>4 DEF times

\* No copies are no rows.
LEMMA NoCopies ==
    ASSUME NEW list \in Seq(RowRecord), NEW symbol, NEW t,
           CopiesAt(list, symbol, t) = 0, NEW n \in DOMAIN list
    PROVE  ~(list[n].symbol = symbol /\ list[n].time = t)
<1>1. IsFiniteSet(1..Len(list)) /\ DOMAIN list = 1..Len(list)
  BY FS_Interval
<1>2. IsFiniteSet(Places(list, symbol, t))
  BY <1>1, FS_Subset DEF Places
<1>3. Places(list, symbol, t) = {}
  BY <1>2, FS_EmptySet DEF CopiesAt
<1> QED BY <1>3 DEF Places

\* A chunk from the cursor to e is either a whole one, or the last.
ChunkTo(e) ==
    /\ e \in Nat /\ cursor < e /\ e <= wanted.end
    /\ \/ e # wanted.end /\ e = cursor + MaxRange
       \/ e = wanted.end /\ e <= cursor + MaxRange

\* A chunk that is not the last leaves its symbol counted up to its end.
LEMMA ChunkCounted ==
    ASSUME GrowwInv, step = "ask", NEW e, ChunkTo(e), e # wanted.end,
           NEW spoiled, NEW list,
           \A t : CopiesAt(list, wanted.symbols[part], t) =
                    CopiesAt(rows, wanted.symbols[part], t)
                      + (IF t \in Times(wanted.symbols[part], cursor, e, spoiled)
                         THEN 1 ELSE 0)
    PROVE  Counted(list, wanted.symbols[part], e)
<1> DEFINE x == wanted.symbols[part]
           c == cursor
           begin == wanted.start
<1>1. /\ begin \in Nat /\ wanted.end \in Nat /\ x \in Symbols
      /\ \A t \in quotes[x] : t \in Nat /\ t % Second = 0
      /\ Second \in Nat \ {0} /\ MaxRange \in Nat /\ Second <= MaxRange
      /\ wanted \in Wanted /\ quotes \in Histories
  BY RequestFields DEF GrowwInv
<1>2. PICK k \in Nat : c = begin + k * MaxRange
  BY DEF GrowwInv, AtChunk
<1>3. /\ c \in Nat /\ c < wanted.end /\ Counted(rows, x, c)
      /\ e \in Nat /\ e = c + MaxRange /\ e < wanted.end
  BY <1>1 DEF GrowwInv, AtChunk, ChunkTo
<1>4. /\ k # 0 => Whole(c) \in Seams
      /\ \A t \in Seams :
            /\ t \in Nat /\ Whole(begin) < t
            /\ t <= Whole(c) \/ Whole(e) <= t
  BY <1>1, <1>2, <1>3, SeamsSeen
<1>5. k = 0 <=> c = begin
  <2>1. CASE k = 0
    BY <1>1, <1>2, <2>1
  <2>2. CASE k # 0
    <3>1. MaxRange <= k * MaxRange /\ k * MaxRange \in Nat
      BY <1>1, <2>2
    <3> QED BY <1>1, <1>2, <2>2, <3>1
  <2> QED BY <2>1, <2>2
<1>6. begin <= c /\ begin < e /\ c <= e /\ c + Second <= e
  <2>1. k * MaxRange \in Nat
    BY <1>1
  <2> QED BY <1>1, <1>2, <1>3, <2>1
<1>7. /\ Whole(begin) \in Nat /\ Whole(c) \in Nat /\ Whole(e) \in Nat
      /\ Whole(e) <= e /\ Whole(begin) <= Whole(c) /\ Whole(c) < Whole(e)
  BY <1>1, <1>3, <1>6, WholeSecond, WholeOrder
<1>8. \A t \in quotes[x] :
         t \in Times(x, c, e, spoiled) <=> Whole(c) <= t /\ t <= Whole(e)
  <2>1. ASSUME NEW t \in quotes[x], t <= Whole(e) PROVE t # wanted.end
    BY <1>1, <1>3, <1>7, <2>1
  <2> QED BY <1>1, <1>3, <2>1, ChunkTimes
<1> HIDE DEF x, c, begin
<1>9. ASSUME NEW t \in quotes[x]
      PROVE  IF Whole(begin) <= t /\ t <= Whole(e)
             THEN CopiesAt(list, x, t)
                    = IF t \in Seams /\ t < Whole(e) THEN 2 ELSE 1
             ELSE CopiesAt(list, x, t) = 0
  <2> DEFINE old == CopiesAt(rows, x, t)
             new == CopiesAt(list, x, t)
  <2>1. t \in Nat
    BY <1>1
  <2>2. IF c # begin /\ Whole(begin) <= t /\ t <= Whole(c)
        THEN old = IF t \in Seams /\ t < Whole(c) THEN 2 ELSE 1
        ELSE old = 0
    BY <1>3 DEF Counted, begin
  <2>3. new = old + (IF Whole(c) <= t /\ t <= Whole(e) THEN 1 ELSE 0)
    BY <1>8 DEF x, c
  <2> HIDE DEF old, new
  <2>4. CASE t < Whole(c)
    <3>1. new = old /\ t < Whole(e)
      BY <1>7, <2>1, <2>2, <2>3, <2>4
    <3>2. c = begin => ~(Whole(begin) <= t)
      BY <1>7, <2>1, <2>4
    <3> QED BY <1>7, <2>1, <2>2, <2>4, <3>1, <3>2 DEF new
  <2>5. CASE t = Whole(c) /\ c = begin
    <3>1. t \notin Seams /\ old = 0 /\ new = 1
      BY <1>4, <1>7, <2>1, <2>2, <2>3, <2>5
    <3> QED BY <1>7, <2>5, <3>1 DEF new
  <2>6. CASE t = Whole(c) /\ c # begin
    <3>1. t \in Seams /\ old = 1 /\ new = 2
      BY <1>4, <1>5, <1>7, <2>1, <2>2, <2>3, <2>6
    <3> QED BY <1>7, <2>6, <3>1 DEF new
  <2>7. CASE t > Whole(c)
    <3>1. old = 0
      BY <1>7, <2>1, <2>2, <2>7
    <3>2. ~(t \in Seams /\ t < Whole(e))
      BY <1>4, <1>7, <2>1, <2>7
    <3> QED BY <1>7, <2>1, <2>3, <2>7, <3>1, <3>2 DEF new
  <2> QED BY <1>7, <2>1, <2>4, <2>5, <2>6, <2>7 DEF new
<1>10. e # begin
  BY <1>1, <1>3, <1>6
<1> QED BY <1>9, <1>10 DEF Counted, begin, x

\* The last chunk completes its symbol.
LEMMA ChunkCompletes ==
    ASSUME GrowwInv, step = "ask", NEW e, ChunkTo(e), e = wanted.end,
           NEW spoiled, NEW list,
           \A t : CopiesAt(list, wanted.symbols[part], t) =
                    CopiesAt(rows, wanted.symbols[part], t)
                      + (IF t \in Times(wanted.symbols[part], cursor, e, spoiled)
                         THEN 1 ELSE 0),
           \A n \in DOMAIN list :
             \/ n \in DOMAIN rows /\ list[n] = rows[n]
             \/ /\ list[n].time \in Times(wanted.symbols[part], cursor, e, spoiled)
                /\ list[n].blank = (list[n].time \in spoiled)
    PROVE  Complete(list, wanted.symbols[part])
<1> DEFINE x == wanted.symbols[part]
           c == cursor
           begin == wanted.start
           end == wanted.end
<1>1. /\ begin \in Nat /\ end \in Nat /\ x \in Symbols
      /\ \A t \in quotes[x] : t \in Nat /\ t % Second = 0
      /\ Second \in Nat \ {0} /\ MaxRange \in Nat /\ Second <= MaxRange
      /\ wanted \in Wanted /\ quotes \in Histories
  BY RequestFields DEF GrowwInv
<1>2. PICK k \in Nat : c = begin + k * MaxRange
  BY DEF GrowwInv, AtChunk
<1>3. /\ c \in Nat /\ c < end /\ Counted(rows, x, c)
      /\ e = end /\ end <= c + MaxRange /\ rows \in Seq(RowRecord)
  BY <1>1 DEF GrowwInv, AtChunk, ChunkTo
<1>4. /\ k # 0 => Whole(c) \in Seams
      /\ \A t \in Seams :
            /\ t \in Nat /\ Whole(begin) < t /\ t < end
            /\ t <= Whole(c)
  <2>1. ~(c + MaxRange < end)
    BY <1>1, <1>3
  <2> QED BY <1>1, <1>2, <1>3, <2>1, SeamsSeen
<1>5. k = 0 => c = begin
  BY <1>1, <1>2
<1>6. begin <= c
  <2>1. k * MaxRange \in Nat
    BY <1>1
  <2> QED BY <1>1, <1>2, <1>3, <2>1
<1>7. /\ Whole(begin) \in Nat /\ Whole(c) \in Nat /\ Whole(end) \in Nat
      /\ Whole(end) <= end /\ Whole(c) <= c
      /\ Whole(begin) <= Whole(c) /\ Whole(c) <= Whole(end)
      /\ \A t \in quotes[x] : t < end => t <= Whole(end)
  <2>1. c <= end
    BY <1>1, <1>3
  <2>2. ASSUME NEW t \in quotes[x], t < end PROVE t <= Whole(end)
    <3>1. t \in Nat /\ t % Second = 0 /\ t <= end
      BY <1>1, <2>2
    <3> QED BY <1>1, <3>1, WholeOrder
  <2> HIDE DEF x, c, begin, end
  <2>3. /\ Whole(begin) \in Nat /\ Whole(c) \in Nat /\ Whole(end) \in Nat
        /\ Whole(end) <= end /\ Whole(c) <= c
    BY <1>1, <1>3, WholeSecond
  <2>4. Whole(begin) <= Whole(c) /\ Whole(c) <= Whole(end)
    BY <1>1, <1>3, <1>6, <2>1, WholeOrder
  <2> QED BY <2>2, <2>3, <2>4
<1>8. \A t \in quotes[x] :
         t \in Times(x, c, end, spoiled) <=>
            Whole(c) <= t /\ t <= Whole(end) /\ (t \in spoiled \/ t # end)
  BY <1>1, <1>3, ChunkTimes
<1> HIDE DEF x, c, begin, end
<1>9. ASSUME NEW t \in quotes[x]
      PROVE  /\ t \in Seams => CopiesAt(list, x, t) = 2
             /\ t \notin Seams =>
                  IF Whole(begin) <= t /\ t < end
                  THEN CopiesAt(list, x, t) = 1
                  ELSE \A n \in DOMAIN list :
                          list[n].symbol = x /\ list[n].time = t =>
                             list[n].blank /\ t = end
  <2> DEFINE old == CopiesAt(rows, x, t)
             new == CopiesAt(list, x, t)
             added == t \in Times(x, c, end, spoiled)
  <2>1. t \in Nat /\ (t < end => t <= Whole(end))
    BY <1>1, <1>7
  <2>2. IF c # begin /\ Whole(begin) <= t /\ t <= Whole(c)
        THEN old = IF t \in Seams /\ t < Whole(c) THEN 2 ELSE 1
        ELSE old = 0
    BY <1>3 DEF Counted, begin
  <2>3. new = old + (IF added THEN 1 ELSE 0)
    BY <1>3 DEF x, c
  <2>4. added <=> Whole(c) <= t /\ t <= Whole(end) /\ (t \in spoiled \/ t # end)
    BY <1>8
  <2> HIDE DEF old, new, added
  <2>5. ASSUME t \in Seams PROVE new = 2
    <3>1. Whole(begin) < t /\ t < end /\ t <= Whole(c)
      BY <1>4, <2>5
    <3>2. c # begin
      BY <1>7, <2>1, <3>1
    <3>3. CASE t < Whole(c)
      BY <1>7, <2>1, <2>2, <2>3, <2>4, <2>5, <3>1, <3>2, <3>3
    <3>4. CASE t = Whole(c)
      <4>1. old = 1
        BY <1>7, <2>1, <2>2, <3>1, <3>2, <3>4
      <4>2. added
        BY <1>1, <1>7, <2>1, <2>4, <3>1, <3>4
      <4> QED BY <2>3, <4>1, <4>2
    <3> QED BY <1>7, <2>1, <3>1, <3>3, <3>4
  <2>6. ASSUME t \notin Seams, Whole(begin) <= t, t < end PROVE new = 1
    <3>1. t <= Whole(end) /\ t # end
      BY <1>1, <2>1, <2>6
    <3>2. CASE t < Whole(c)
      <4>1. c # begin /\ old = 1 /\ ~added
        BY <1>7, <2>1, <2>2, <2>4, <2>6, <3>2
      <4> QED BY <2>3, <4>1
    <3>3. CASE t = Whole(c)
      <4>1. c = begin /\ old = 0 /\ added
        BY <1>4, <1>5, <1>7, <2>1, <2>2, <2>4, <2>6, <3>1, <3>3
      <4> QED BY <2>3, <4>1
    <3>4. CASE t > Whole(c)
      <4>1. old = 0 /\ added
        BY <1>7, <2>1, <2>2, <2>4, <3>1, <3>4
      <4> QED BY <2>3, <4>1
    <3> QED BY <1>7, <2>1, <3>2, <3>3, <3>4
  <2>7. ASSUME t \notin Seams, ~(Whole(begin) <= t /\ t < end),
               NEW n \in DOMAIN list, list[n].symbol = x, list[n].time = t
        PROVE  list[n].blank /\ t = end
    <3>1. old = 0
      BY <1>1, <1>3, <1>7, <2>1, <2>2, <2>7
    <3>2. ~(n \in DOMAIN rows /\ list[n] = rows[n])
      BY <1>3, <2>7, <3>1, NoCopies DEF old
    <3>3. added /\ list[n].blank = (t \in spoiled)
      BY <1>3, <2>7, <3>2 DEF added, x, c
    <3>4. t = end
      BY <1>1, <1>7, <2>1, <2>4, <2>7, <3>3
    <3> QED BY <2>4, <3>3, <3>4
  <2> QED BY <2>5, <2>6, <2>7 DEF new
<1> QED BY <1>9 DEF Complete, begin, end, x

\* A chunk's rows leave the rows of its symbol in order and others alone.
LEMMA ChunkKeeps ==
    ASSUME GrowwInv, step = "ask", NEW e, ChunkTo(e), NEW spoiled
    PROVE  LET x == wanted.symbols[part]
               times == Times(x, cursor, e, spoiled)
               more == rows \o Batch(x, times, spoiled)
           IN  /\ more \in Seq(RowRecord) /\ InTime(more)
               /\ \A p \in 1..(part - 1) : Complete(more, wanted.symbols[p])
               /\ \A n \in DOMAIN more :
                    \/ n \in DOMAIN rows /\ more[n] = rows[n]
                    \/ /\ more[n].time \in times
                       /\ more[n].blank = (more[n].time \in spoiled)
               /\ \A n \in DOMAIN more :
                    \/ \E q \in 1..(part - 1) :
                          more[n].symbol = wanted.symbols[q]
                    \/ more[n].symbol = x /\ more[n].time <= Whole(e)
               /\ \A t : CopiesAt(more, x, t) =
                           CopiesAt(rows, x, t) + (IF t \in times THEN 1 ELSE 0)
<1> DEFINE x == wanted.symbols[part]
           c == cursor
           times == Times(x, c, e, spoiled)
           more == rows \o Batch(x, times, spoiled)
<1>1. /\ x \in Symbols /\ wanted \in Wanted /\ quotes \in Histories
      /\ part \in 1..Len(wanted.symbols) /\ Len(wanted.symbols) \in Nat
      /\ \A p, q \in 1..Len(wanted.symbols) :
           wanted.symbols[p] = wanted.symbols[q] => p = q
  BY RequestFields DEF GrowwInv
<1>2. /\ c \in Nat /\ e \in Nat /\ c < e /\ Whole(c) \in Nat /\ Whole(e) \in Nat
      /\ Whole(c) <= Whole(e)
  BY WholeSecond, WholeOrder DEF GrowwInv, AtChunk, ChunkTo
<1>3. /\ rows \in Seq(RowRecord) /\ InTime(rows) /\ RowsWithin(rows, part, c)
      /\ \A p \in 1..(part - 1) : Complete(rows, wanted.symbols[p])
  BY DEF GrowwInv
<1>4. /\ times \in SUBSET Nat /\ IsFiniteSet(times)
      /\ \A t \in times : Whole(c) <= t /\ t <= Whole(e)
  BY <1>1, <1>2, ChunkTimes
<1> HIDE DEF x, times, c
<1>5. /\ more \in Seq(RowRecord)
      /\ \A n \in DOMAIN more :
           \/ n \in DOMAIN rows /\ more[n] = rows[n]
           \/ /\ n > Len(rows) /\ more[n].symbol = x
              /\ more[n].time \in times
              /\ more[n].blank = (more[n].time \in spoiled)
      /\ \A n, m \in DOMAIN more :
           n > Len(rows) /\ n < m => more[n].time < more[m].time
      /\ \A other, t :
           Cardinality(Places(more, other, t)) =
             Cardinality(Places(rows, other, t))
               + (IF other = x /\ t \in times THEN 1 ELSE 0)
  <2>1. ChunkAppended(more, rows, x, times, spoiled)
    BY <1>1, <1>3, <1>4, BatchAdded
  <2> HIDE DEF more
  <2> QED BY <2>1 DEF ChunkAppended
<1> HIDE DEF more
<1>6. \A p \in 1..(part - 1) : p \in 1..Len(wanted.symbols) /\ wanted.symbols[p] # x
  BY <1>1 DEF x
<1>7. /\ Len(rows) \in Nat /\ DOMAIN rows = 1..Len(rows)
      /\ DOMAIN more = 1..Len(more) /\ Len(more) \in Nat
      /\ \A n \in DOMAIN rows : rows[n].time \in Nat
      /\ \A n \in DOMAIN more : more[n].time \in Nat
  <2>1. \A row \in RowRecord : row.time \in Nat
    BY DEF RowRecord
  <2>2. /\ Len(rows) \in Nat /\ DOMAIN rows = 1..Len(rows)
        /\ \A n \in DOMAIN rows : rows[n] \in RowRecord
    BY <1>3
  <2>3. /\ Len(more) \in Nat /\ DOMAIN more = 1..Len(more)
        /\ \A n \in DOMAIN more : more[n] \in RowRecord
    BY <1>5
  <2> QED BY <2>1, <2>2, <2>3
<1>8. \A n \in DOMAIN rows : rows[n].symbol = x => rows[n].time <= Whole(c)
  BY <1>3, <1>6 DEF RowsWithin, x
<1>9. InTime(more)
  <2> SUFFICES ASSUME NEW n \in DOMAIN more, NEW m \in DOMAIN more, n < m,
                      more[n].symbol = more[m].symbol
               PROVE  more[n].time <= more[m].time
    BY DEF InTime
  <2>1. CASE n \in DOMAIN rows /\ m \in DOMAIN rows
    <3>1. more[n] = rows[n] /\ more[m] = rows[m]
      <4>1. ~(n > Len(rows)) /\ ~(m > Len(rows))
        BY <1>7, <2>1
      <4> QED BY <1>5, <4>1
    <3> QED BY <1>3, <2>1, <3>1 DEF InTime
  <2>2. CASE n \in DOMAIN rows /\ m \notin DOMAIN rows
    <3>1. ~(n > Len(rows))
      BY <1>7, <2>2
    <3>2. more[n] = rows[n] /\ more[m].symbol = x /\ more[m].time \in times
      BY <1>5, <2>2, <3>1
    <3>3. rows[n].time <= Whole(c) /\ Whole(c) <= more[m].time
      BY <1>4, <1>8, <2>2, <3>2
    <3> QED BY <1>2, <1>7, <3>2, <3>3
  <2>3. CASE n \notin DOMAIN rows
    <3>1. n > Len(rows)
      BY <1>5, <2>3
    <3>2. more[n].time < more[m].time
      BY <1>5, <3>1
    <3> QED BY <1>7, <3>2
  <2> QED BY <2>1, <2>2, <2>3
<1>10. ASSUME NEW p \in 1..(part - 1) PROVE Complete(more, wanted.symbols[p])
  <2> DEFINE y == wanted.symbols[p]
  <2>1. y # x /\ Complete(rows, y)
    BY <1>3, <1>6
  <2> HIDE DEF y
  <2>2. \A t : CopiesAt(more, y, t) = CopiesAt(rows, y, t)
    <3>1. ASSUME NEW t PROVE CopiesAt(rows, y, t) \in Nat
      <4>1. IsFiniteSet(1..Len(rows)) /\ Places(rows, y, t) \in SUBSET (1..Len(rows))
        BY <1>7, FS_Interval DEF Places
      <4> QED BY <4>1, FS_Subset, FS_CardinalityType DEF CopiesAt
    <3>2. ASSUME NEW t PROVE CopiesAt(more, y, t) = CopiesAt(rows, y, t) + 0
      BY <1>5, <2>1 DEF CopiesAt
    <3> QED BY <3>1, <3>2
  <2>3. \A n \in DOMAIN more :
          more[n].symbol = y => n \in DOMAIN rows /\ more[n] = rows[n]
    BY <1>5, <2>1
  <2>4. Complete(more, y)
    BY <2>1, <2>2, <2>3 DEF Complete
  <2> QED BY <2>4 DEF y
<1>11. \A n \in DOMAIN more :
         \/ \E q \in 1..(part - 1) : more[n].symbol = wanted.symbols[q]
         \/ more[n].symbol = x /\ more[n].time <= Whole(e)
  <2>1. ASSUME NEW n \in DOMAIN rows
        PROVE  \/ \E q \in 1..(part - 1) : rows[n].symbol = wanted.symbols[q]
               \/ rows[n].symbol = x /\ rows[n].time <= Whole(e)
    <3>1. \/ \E q \in 1..(part - 1) : rows[n].symbol = wanted.symbols[q]
          \/ rows[n].symbol = x /\ rows[n].time <= Whole(c)
      BY <1>3 DEF RowsWithin, x
    <3>2. rows[n].time <= Whole(c) => rows[n].time <= Whole(e)
      BY <1>2, <1>7
    <3> QED BY <3>1, <3>2
  <2> QED BY <1>4, <1>5, <2>1
<1>12. \A t : CopiesAt(more, x, t) =
                CopiesAt(rows, x, t) + (IF t \in times THEN 1 ELSE 0)
  BY <1>5 DEF CopiesAt
<1> QED BY <1>5, <1>9, <1>10, <1>11, <1>12 DEF more, times, x, c

\* A chunk keeps what is said of the fetch.
LEMMA ChunkStep ==
    ASSUME GrowwInv, Chunk PROVE GrowwInv'
<1> DEFINE x == wanted.symbols[part]
           e == ChunkEnd
           begin == wanted.start
           l == Len(wanted.symbols)
<1>1. /\ step = "ask" /\ wanted \in Wanted /\ quotes \in Histories
      /\ UNCHANGED <<wanted, quotes>>
  BY DEF GrowwInv, Chunk
<1>2. /\ l \in Nat /\ part \in 1..l /\ begin \in Nat /\ wanted.end \in Nat
      /\ MaxRange \in Nat \ {0} /\ begin < wanted.end
      /\ \A p, q \in 1..l : wanted.symbols[p] = wanted.symbols[q] => p = q
  <2>1. part \in 1..l
    BY DEF GrowwInv
  <2> QED BY <1>1, <2>1, RequestFields
<1>3. /\ Resolves /\ AtChunk(cursor) /\ cursor \in Nat /\ cursor < wanted.end
  BY <1>1 DEF GrowwInv, AtChunk
<1>4. PICK k \in Nat : cursor = begin + k * MaxRange
  BY <1>3 DEF AtChunk
<1>5. e = IF cursor + MaxRange < wanted.end THEN cursor + MaxRange
          ELSE wanted.end
  BY DEF ChunkEnd, Lower
<1>6. ChunkTo(e)
  BY <1>2, <1>3, <1>5 DEF ChunkTo
<1> DEFINE times(spoiled) == Times(x, cursor, e, spoiled)
<1>7. PICK spoiled : rows' = rows \o Batch(x, times(spoiled), spoiled)
  BY DEF Chunk, Batch, Times
<1> HIDE DEF e
<1>8. /\ rows' \in Seq(RowRecord) /\ InTime(rows')
      /\ \A p \in 1..(part - 1) : Complete(rows', wanted.symbols[p])
      /\ \A n \in DOMAIN rows' :
           \/ n \in DOMAIN rows /\ rows'[n] = rows[n]
           \/ /\ rows'[n].time \in times(spoiled)
              /\ rows'[n].blank = (rows'[n].time \in spoiled)
      /\ \A n \in DOMAIN rows' :
           \/ \E q \in 1..(part - 1) : rows'[n].symbol = wanted.symbols[q]
           \/ rows'[n].symbol = x /\ rows'[n].time <= Whole(e)
      /\ \A t : CopiesAt(rows', x, t) =
                  CopiesAt(rows, x, t) + (IF t \in times(spoiled) THEN 1 ELSE 0)
  BY <1>1, <1>6, <1>7, ChunkKeeps
<1>9. Seams' = Seams
  BY <1>1 DEF Seams
<1>10. ASSUME NEW s PROVE Complete(rows', s) => Complete(rows, s)'
  BY <1>1, <1>9 DEF Complete, Places, CopiesAt
<1>11. ASSUME NEW s, Counted(rows', s, cursor'), (wanted.symbols[part])' = s
       PROVE  Counted(rows, wanted.symbols[part], cursor)'
  BY <1>1, <1>9, <1>11 DEF Counted, Places, CopiesAt
<1>12. ASSUME \A n \in DOMAIN rows' :
                 \/ \E q \in 1..(part' - 1) : rows'[n].symbol = wanted.symbols[q]
                 \/ /\ rows'[n].symbol = wanted.symbols[part']
                    /\ cursor' # begin /\ rows'[n].time <= Whole(cursor')
       PROVE  RowsWithin(rows, part, cursor)'
  BY <1>1, <1>12 DEF RowsWithin
<1>13. /\ Resolves' = Resolves /\ InTime(rows)'
  BY <1>1, <1>8 DEF Resolves, InTime
<1>14. begin <= cursor /\ cursor < e
  <2>1. k * MaxRange \in Nat
    BY <1>2
  <2> QED BY <1>2, <1>4, <1>6, <2>1 DEF ChunkTo
<1>15. CASE e < wanted.end /\ cursor' = e /\ UNCHANGED <<step, part>>
  <2>1. e = cursor + MaxRange /\ e \in Nat /\ e # wanted.end
    BY <1>2, <1>3, <1>5, <1>15 DEF e
  <2>2. AtChunk(cursor)'
    <3>1. e = begin + (k + 1) * MaxRange
      <4>1. (k + 1) * MaxRange = k * MaxRange + MaxRange /\ k * MaxRange \in Nat
        BY <1>2
      <4> QED BY <1>2, <1>4, <2>1, <4>1
    <3> QED BY <1>1, <1>15, <2>1, <3>1 DEF AtChunk
  <2>3. Counted(rows', x, e)
    BY <1>1, <1>6, <1>8, <2>1, ChunkCounted
  <2>4. Counted(rows, wanted.symbols[part], cursor)'
    BY <1>1, <1>11, <1>15, <2>3
  <2>5. RowsWithin(rows, part, cursor)'
    <3>1. e # begin
      BY <1>2, <1>3, <1>14, <2>1
    <3> HIDE DEF begin
    <3> QED BY <1>8, <1>12, <1>15, <3>1
  <2> QED BY <1>1, <1>2, <1>3, <1>8, <1>10, <1>13, <1>15, <2>2, <2>4, <2>5
          DEF GrowwInv
<1>16. CASE e = wanted.end
  <2>1. Complete(rows', x)
    BY <1>1, <1>6, <1>8, <1>16, ChunkCompletes
  <2>2. \A p \in 1..part : Complete(rows', wanted.symbols[p])
    BY <1>2, <1>8, <2>1
  <2>3. \A p \in 1..part : Complete(rows, wanted.symbols[p])'
    BY <1>1, <1>10, <2>2
  <2>4. CASE part < l /\ part' = part + 1 /\ cursor' = begin /\ UNCHANGED step
    <3>1. AtChunk(cursor)'
      <4>1. begin = begin + 0 * MaxRange
        BY <1>2
      <4> QED BY <1>1, <1>2, <2>4, <4>1 DEF AtChunk
    <3>2. \A n \in DOMAIN rows' :
            \E q \in 1..part : rows'[n].symbol = wanted.symbols[q]
      BY <1>2, <1>8
    <3>3. \A n \in DOMAIN rows' : rows'[n].symbol # wanted.symbols[part + 1]
      BY <1>2, <2>4, <3>2
    <3>4. Counted(rows', wanted.symbols[part + 1], begin)
      BY <3>3, NoneCounted
    <3>5. Counted(rows, wanted.symbols[part], cursor)'
      BY <1>1, <1>11, <2>4, <3>4
    <3>6. RowsWithin(rows, part, cursor)'
      BY <1>2, <1>12, <2>4, <3>2
    <3>7. part' \in 1..l /\ part' - 1 = part
      BY <1>2, <2>4
    <3> QED BY <1>1, <1>3, <1>8, <1>13, <2>3, <2>4, <3>1, <3>5, <3>6, <3>7
            DEF GrowwInv
  <2>5. CASE part = l /\ step' = "done" /\ UNCHANGED <<part, cursor>>
    BY <1>1, <1>2, <1>8, <1>13, <2>3, <2>5 DEF GrowwInv
  <2> QED BY <1>16, <2>4, <2>5, <1>2 DEF Chunk, e
<1>17. \/ e < wanted.end /\ cursor' = e /\ UNCHANGED <<step, part>>
       \/ e = wanted.end
  BY DEF Chunk, e
<1> QED BY <1>15, <1>16, <1>17

\* Every step keeps what is said of the fetch.
LEMMA GrowwStep ==
    ASSUME GrowwInv, [SourcesNext]_sourcesVars
    PROVE  GrowwInv'
<1>1. CASE UNCHANGED growwVars
  <2>1. UNCHANGED <<wanted, quotes, step, part, cursor, rows>>
    BY <1>1 DEF growwVars
  <2>2. Seams' = Seams /\ Resolves' = Resolves
    BY <2>1 DEF Seams, Resolves
  <2>3. ASSUME NEW s, Complete(rows, s) PROVE Complete(rows, s)'
    BY <2>1, <2>2, <2>3 DEF Complete, Places, CopiesAt
  <2>4. Counted(rows, wanted.symbols[part], cursor)
          => Counted(rows, wanted.symbols[part], cursor)'
    BY <2>1, <2>2 DEF Counted, Places, CopiesAt
  <2>5. RowsWithin(rows, part, cursor) => RowsWithin(rows, part, cursor)'
    BY <2>1 DEF RowsWithin
  <2>6. InTime(rows)' = InTime(rows) /\ AtChunk(cursor)' = AtChunk(cursor)
    BY <2>1 DEF InTime, AtChunk
  <2> QED BY <2>1, <2>2, <2>3, <2>4, <2>5, <2>6 DEF GrowwInv
<1>2. CASE Resolve
  <2>1. /\ step = "resolve" /\ rows = <<>> /\ part = 1 /\ cursor = wanted.start
        /\ wanted \in Wanted /\ quotes \in Histories
        /\ UNCHANGED <<wanted, quotes, part, cursor, rows>>
        /\ step' = IF Resolves THEN "ask" ELSE "failed"
    BY <1>2 DEF Resolve, GrowwInv
  <2>2. AtChunk(wanted.start)
    <3>1. wanted.start = wanted.start + 0 * MaxRange
      BY <2>1, RequestFields
    <3> QED BY <2>1, <3>1, RequestFields DEF AtChunk
  <2>3. Counted(<<>>, wanted.symbols[1], wanted.start)
    BY NoneCounted
  <2>4. RowsWithin(<<>>, 1, wanted.start)
    BY DEF RowsWithin
  <2>5. /\ AtChunk(cursor)' /\ Resolves' = Resolves
        /\ Counted(rows, wanted.symbols[part], cursor)'
        /\ RowsWithin(rows, part, cursor)' /\ InTime(rows)'
    <3>1. Seams' = Seams
      BY <2>1 DEF Seams
    <3> QED BY <2>1, <2>2, <2>3, <2>4, <3>1
            DEF AtChunk, Counted, RowsWithin, InTime, CopiesAt, Places, Resolves
  <2>6. \A p \in 1..(part' - 1) : FALSE
    BY <2>1
  <2> QED BY <2>1, <2>5, <2>6 DEF GrowwInv
<1>3. CASE Chunk
  BY <1>3, ChunkStep
<1>4. CASE ChunkFails
  BY <1>4 DEF ChunkFails, GrowwInv, InTime
<1> QED BY <1>1, <1>2, <1>3, <1>4
        DEF SourcesNext, sourcesVars, GrowwNext

\* A fetch that is done has handed on every candle the vendor has of every
\* symbol in the range asked for, once or at a seam of two chunks twice, none
\* from the excluded end on that could be read, and a symbol's candles in
\* their order (fetch_bars of the Groww provider).
THEOREM FetchesComplete == SourcesSpec => []FetchComplete
<1>1. SourcesInit => GrowwInv
  BY GrowwStarts DEF SourcesInit
<1>2. GrowwInv /\ [SourcesNext]_sourcesVars => GrowwInv'
  BY GrowwStep
<1>3. GrowwInv => FetchComplete
  <2> SUFFICES ASSUME GrowwInv, step = "done" PROVE FetchComplete
    BY DEF FetchComplete
  <2>1. InTime(rows)
    BY DEF GrowwInv
  <2>2. ASSUME NEW symbol \in ToSet(wanted.symbols) PROVE Complete(rows, symbol)
    <3>1. wanted.symbols \in Seq(Symbols)
      BY RequestFields DEF GrowwInv
    <3>2. PICK p \in 1..Len(wanted.symbols) : symbol = wanted.symbols[p]
      BY <3>1 DEF ToSet
    <3> QED BY <3>2 DEF GrowwInv
  <2>3. ASSUME NEW symbol \in ToSet(wanted.symbols), NEW t \in quotes[symbol]
        PROVE  LET copies == Copies(symbol, t)
               IN  CASE t \in Seams -> copies = 2
                     [] t \notin Seams /\ Whole(wanted.start) <= t
                          /\ t < wanted.end -> copies = 1
                     [] OTHER ->
                          \A n \in DOMAIN rows :
                             rows[n].symbol = symbol /\ rows[n].time = t =>
                                rows[n].blank /\ t = wanted.end
    <3>1. Copies(symbol, t) = CopiesAt(rows, symbol, t)
      BY DEF Copies, CopiesAt, Places
    <3>2. Complete(rows, symbol)
      BY <2>2
    <3>3. CASE t \in Seams
      BY <3>1, <3>2, <3>3 DEF Complete
    <3>4. CASE t \notin Seams
      BY <3>1, <3>2, <3>4 DEF Complete
    <3> QED BY <3>3, <3>4
  <2> QED BY <2>1, <2>3 DEF FetchComplete, InTime
<1> QED BY <1>1, <1>2, <1>3, PTL DEF SourcesSpec

=============================================================================
