------------------------------- MODULE Yahoo -------------------------------
(***************************************************************************)
(* The Yahoo provider and the imports that use it.  The provider keeps the *)
(* rows of the last request that passed its gates, with the evidence that  *)
(* they did; a fetch of that request uses them again, a fetch of another   *)
(* one prepares it first.  An import records the evidence the provider has *)
(* before it fetches.  A pilot prepares a request before it imports it.    *)
(***************************************************************************)
EXTENDS Calendar, Sequences, SequencesExt

CONSTANTS
    Calendars,      \* calendars the provider may be given
    Requests,       \* symbols, length of candles, native, start, end
    Listed,          \* the symbols with a name at the vendor
    Interval,       \* the one length of candles the provider accepts
    MaxAge,         \* how far back a request may start
    Settling,       \* how long before now it must have ended
    MaxSessions,
    MaxFrame,       \* rows accepted at most
    Frames,         \* answers of the vendor: labels in order, and whether
                    \* columns, instrument, interval and zone are as expected
    FirstNow, LastNow,  \* the clock's first instant and a bound on it
    MaxImports      \* a bound on completed imports

ASSUME YahooAssumption ==
    /\ \A c \in Calendars : ValidPolicy(c) /\ OwnHours(c)
    /\ \A r \in Requests :
          /\ r.symbols # {}
          /\ r.start \in Nat /\ r.end \in Nat /\ r.start < r.end
    /\ FirstNow \in Nat /\ Settling \in Nat
    /\ MaxSessions \in Nat /\ MaxFrame \in Nat

NoRequest == [symbols |-> {}]
NoEvidence == [received |-> 0]
NoImport == [request |-> NoRequest]

VARIABLES
    calendar,
    pilot,          \* every import is of a request prepared before
    now,
    held,           \* the request whose rows are kept
    kept,           \* the openings of these rows, in the vendor's order
    evidence,
    pending,        \* the import under way, with the evidence it recorded
    imports         \* the imports that were given their rows

yahooVars == <<calendar, pilot, now, held, kept, evidence, pending, imports>>

YahooInit ==
    /\ calendar \in Calendars
    /\ pilot \in BOOLEAN
    /\ now = FirstNow
    /\ held = NoRequest /\ kept = <<>> /\ evidence = NoEvidence
    /\ pending = NoImport
    /\ imports = <<>>

(***************************************************************************)
(* The gates.                                                              *)
(***************************************************************************)

Fits(request) ==
    /\ request.native /\ request.length = Interval
    /\ Cardinality(request.symbols) = 1 /\ request.symbols \subseteq Listed

Recent(request) ==
    request.start >= now - MaxAge /\ request.end <= now - Settling

\* A few sessions, all of them whole.
WholeSessions(request) ==
    LET sessions == SessionsIn(calendar, request.start, request.end)
    IN  /\ Accepts(calendar, request.start, request.end)
        /\ Cardinality(sessions) \in 1..MaxSessions
        /\ \A s \in sessions :
              request.start <= s.opens /\ s.closes <= request.end

ExpectedOpenings(request) ==
    {b.opens : b \in ExpectedBars(calendar, request.start, request.end,
                                  request.length)}

\* Every label is an expected opening, and every session's first is there.
Labelled(request, stamps) ==
    /\ ToSet(stamps) \subseteq ExpectedOpenings(request)
    /\ \A s \in SessionsIn(calendar, request.start, request.end) :
          s.opens \in ToSet(stamps)

Passes(request, frame) ==
    /\ Fits(request) /\ Recent(request) /\ WholeSessions(request)
    /\ frame.sound /\ Len(frame.stamps) \in 1..MaxFrame
    /\ Labelled(request, frame.stamps)

EvidenceOf(request, stamps) ==
    [symbols |-> request.symbols,
     first |-> Min(ToSet(stamps)), last |-> Max(ToSet(stamps)),
     received |-> Len(stamps),
     sessions |-> Cardinality(SessionsIn(calendar, request.start, request.end)),
     missing |-> Cardinality(ExpectedOpenings(request) \ ToSet(stamps))]

(***************************************************************************)
(* prepare: nothing is kept until every gate is passed.                    *)
(***************************************************************************)

PreparedWith(request, frame) ==
    /\ Passes(request, frame)
    /\ held' = request
    /\ kept' = frame.stamps
    /\ evidence' = EvidenceOf(request, frame.stamps)

\* Mutant of HeldOf: the request is kept before its gates are tried.
HeldOfRefused(request) == request

HeldOf(request) == NoRequest

\* A gate refuses, or the vendor does not answer.
PreparationFails(request) ==
    /\ held' = HeldOf(request)
    /\ kept' = <<>>
    /\ evidence' = NoEvidence

Prepare(request) ==
    /\ pending = NoImport
    /\ \/ \E frame \in Frames : PreparedWith(request, frame)
       \/ PreparationFails(request)
    /\ UNCHANGED <<calendar, pilot, now, pending, imports>>

(***************************************************************************)
(* An import: its identity with the evidence, then the rows.               *)
(***************************************************************************)

\* The pilot goes on to import only when preparing has succeeded.
Permitted(request) == pilot => held = request

Identify(request) ==
    /\ pending = NoImport /\ Len(imports) < MaxImports
    /\ Permitted(request)
    /\ pending' = [request |-> request, evidence |-> evidence]
    /\ UNCHANGED <<calendar, pilot, now, held, kept, evidence, imports>>

\* Mutant of Reuses: a fetch always prepares its request.
ReusesNever(request) == FALSE

Reuses(request) == held = request

Given(stamps) ==
    /\ imports' = Append(imports, [request |-> pending.request,
                                   evidence |-> pending.evidence,
                                   rows |-> stamps])
    /\ pending' = NoImport
    /\ UNCHANGED <<calendar, pilot, now>>

FetchHeld ==
    /\ pending # NoImport /\ Reuses(pending.request)
    /\ Given(kept)
    /\ UNCHANGED <<held, kept, evidence>>

FetchPrepares ==
    /\ pending # NoImport /\ ~Reuses(pending.request)
    /\ \E frame \in Frames :
          PreparedWith(pending.request, frame) /\ Given(frame.stamps)

FetchFails ==
    /\ pending # NoImport /\ ~Reuses(pending.request)
    /\ PreparationFails(pending.request)
    /\ pending' = NoImport
    /\ UNCHANGED <<calendar, pilot, now, imports>>

\* The calendar or the database ends the import before it fetches.
Abandon ==
    /\ pending # NoImport
    /\ pending' = NoImport
    /\ UNCHANGED <<calendar, pilot, now, held, kept, evidence, imports>>

Tick ==
    /\ now < LastNow
    /\ now' = now + 1
    /\ UNCHANGED <<calendar, pilot, held, kept, evidence, pending, imports>>

YahooNext ==
    \/ \E request \in Requests : Prepare(request) \/ Identify(request)
    \/ FetchHeld \/ FetchPrepares \/ FetchFails \/ Abandon \/ Tick

(***************************************************************************)
(* Properties.                                                             *)
(***************************************************************************)

\* The rows an import is given were verified for the very request it made,
\* whether prepared before, with other requests or refusals in between, or
\* during the fetch: its sessions are finished, its labels expected, and
\* every session's opening is there.  How far back the request starts is
\* tested when it is prepared only.
DeliveredVerified ==
    \A n \in DOMAIN imports :
        LET request == imports[n].request
        IN  /\ Fits(request) /\ WholeSessions(request)
            /\ request.end <= now - Settling
            /\ Len(imports[n].rows) \in 1..MaxFrame
            /\ Labelled(request, imports[n].rows)

\* What a pilot recorded as evidence before it fetched is the evidence of
\* the rows it was given.
EvidenceMatchesRows ==
    pilot =>
        \A n \in DOMAIN imports :
            LET given == imports[n]
            IN  given.evidence = EvidenceOf(given.request, given.rows)
=============================================================================
