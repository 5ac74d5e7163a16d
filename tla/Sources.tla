------------------------------ MODULE Sources ------------------------------
(***************************************************************************)
(* The market data a deployment draws on: the trading calendar, and one of *)
(* its two remote providers.                                               *)
(***************************************************************************)
EXTENDS Groww, Yahoo

CONSTANTS
    Days,           \* the calendars are looked at over days 0..Days - 1
    Lengths         \* lengths of candles

ASSUME SourcesAssumption == Days \in Nat /\ Lengths \subseteq Nat \ {0}

VARIABLE provider

sourcesVars == <<provider, growwVars, yahooVars>>

\* The other provider stays as it is made, whatever it is given.
SourcesInit ==
    /\ provider \in {"groww", "yahoo_finance"}
    /\ GrowwInit /\ YahooInit
    /\ provider = "groww" =>
          calendar = (CHOOSE c \in Calendars : TRUE) /\ ~pilot
    /\ provider = "yahoo_finance" =>
          /\ wanted = (CHOOSE w \in Wanted : TRUE)
          /\ quotes = (CHOOSE h \in Histories : TRUE)

SourcesOver ==
    \/ provider = "groww" /\ GrowwOver
    \/ provider = "yahoo_finance" /\ now = LastNow

SourcesNext ==
    \/ provider = "groww" /\ GrowwNext /\ UNCHANGED <<provider, yahooVars>>
    \/ provider = "yahoo_finance" /\ YahooNext
         /\ UNCHANGED <<provider, growwVars>>
    \/ SourcesOver /\ UNCHANGED sourcesVars

SourcesSpec == SourcesInit /\ [][SourcesNext]_sourcesVars

(***************************************************************************)
(* Properties of the calendar, looked at before anything is asked of it.   *)
(***************************************************************************)

Unused ==
    /\ provider = "yahoo_finance"
    /\ now = FirstNow /\ pending = NoImport /\ imports = <<>>
    /\ held = NoRequest /\ evidence = NoEvidence

\* Over whole days the expected candles, clipped at short, special and
\* ordinary closes, cover each instant of trading once and nothing else.
CandlesTile == Unused => Tiles(calendar, Days, Lengths)

\* Ranges are accepted and have candles consistently: an accepted range is
\* one whose every instant the calendar knows, the parts of a range have its
\* candles but for one that is cut, and the next bar is the range's.
RangesAgree ==
    Unused => Splits(calendar, Days, Lengths)
                /\ NextAgrees(calendar, Days, Lengths)
=============================================================================
