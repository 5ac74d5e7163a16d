----------------------------- MODULE MCSources -----------------------------
EXTENDS Sources, TLC

\* Three days of six instants; the first has no hours in the package, the
\* others trade from their second to their fifth.
Hours(d, opens, closes) ==
    [opens |-> DayLength * d + opens, closes |-> DayLength * d + closes]

Plain ==
    [from |-> 0, to |-> 2, reviewed |-> 0, unknown |-> {}, closed |-> {},
     special |-> <<>>, research |-> FALSE,
     base |-> 1 :> Hours(1, 1, 5) @@ 2 :> Hours(2, 1, 5)]

\* A holiday of the package with a short session, a short day, a closure,
\* days not reviewed with and without the opt-in, not covered, not known.
MCCalendars ==
    {Plain,
     [Plain EXCEPT !.special = 0 :> Hours(0, 2, 5) @@ 1 :> Hours(1, 0, 3)],
     [Plain EXCEPT !.closed = {1}],
     [Plain EXCEPT !.reviewed = 2],
     [Plain EXCEPT !.reviewed = 2, !.research = TRUE,
                   !.special = 2 :> Hours(2, 3, 6)],
     [Plain EXCEPT !.from = 1, !.reviewed = 1, !.to = 1],
     [Plain EXCEPT !.unknown = {<<0, 0>>}],
     [Plain EXCEPT !.unknown = {<<2, 2>>}, !.closed = {0}]}

Ask(symbols, native, length, start, end) ==
    [symbols |-> symbols, native |-> native, length |-> length,
     start |-> start, end |-> end]

\* One whole session, two, a whole day, and what the gates refuse.
MCRequests ==
    {Ask({"A"}, TRUE, 2, 7, 11), Ask({"A"}, TRUE, 2, 7, 17),
     Ask({"A"}, TRUE, 2, 6, 12), Ask({"A"}, TRUE, 2, 7, 10),
     Ask({"A", "B"}, TRUE, 2, 7, 11), Ask({"A"}, FALSE, 2, 7, 11)}

\* Whole sessions, with a candle missing, out of order or repeated, of two
\* sessions or a special one; an opening missing, a label not expected, too
\* many rows, none, or anything else that is not as it should be.
MCFrames ==
    {[sound |-> TRUE, stamps |-> s] :
        s \in {<<7, 9>>, <<7>>, <<9, 7>>, <<7, 7>>, <<7, 13>>, <<6, 8>>,
               <<9>>, <<7, 8>>, <<7, 9, 13>>, <<>>}}
      \cup {[sound |-> FALSE, stamps |-> <<7, 9>>]}

\* Whole and broken seconds at start, seams and end; two symbols, one of
\* them unknown to the vendor, other conventions.
GrowwAsk(symbols, start, end, agreed) ==
    [symbols |-> symbols, start |-> start, end |-> end, agreed |-> agreed]
MCWanted ==
    {GrowwAsk(<<"A">>, start, end, TRUE) :
        start \in 1..2, end \in {6, 7, 10, 11}}
      \cup {GrowwAsk(<<"B", "A">>, 1, 9, TRUE),
            GrowwAsk(<<"A", "C">>, 1, 9, TRUE),
            GrowwAsk(<<"A">>, 1, 9, FALSE)}

\* The history of one symbol may lack a candle, that of the other all.
MCHistories ==
    LET whole == {0, 2, 4, 6, 8, 10}
    IN  {"A" :> whole \ {t} @@ "B" :> b @@ "C" :> {} :
            t \in whole \cup {12}, b \in {{}, whole}}
=============================================================================
