------------------------- MODULE HistoricalDocuments -------------------------
(***************************************************************************)
(* What the historical evidence workflow computes from the three documents *)
(* of an attestation: the evidence with a listing's prices, the realized   *)
(* calendar and the listing reference.  Functions of their arguments only. *)
(*                                                                         *)
(* Sessions are days in order.  A document is its content, so its object   *)
(* id is the document.  Prices keep their session and whether they are a   *)
(* positive number, company actions their effective day and validity.      *)
(***************************************************************************)
EXTENDS Naturals, Sequences, FiniteSets, SequencesExt

CONSTANTS
    Anchor,      \* 20: sessions of history before the anchor session
    Horizons,    \* {1, 5, 20}: sessions from the anchor to a label's target
    Platform     \* an observation reference of the platform:// scheme

ASSUME DocumentsAssumption == Anchor \in Nat \ {0} /\ Horizons \subseteq Nat \ {0}

\* The reason of the first check that fails, in the order of the code.
FirstFailure(checks) ==
    LET failed == {i \in DOMAIN checks : ~checks[i][1]}
    IN  IF failed = {} THEN "none"
        ELSE checks[CHOOSE i \in failed : \A j \in failed : i <= j][2]

LevelOf(kind) ==
    CASE kind = "platform_observation" -> "platform_observed"
      [] kind = "official_archive" -> "archive_attested"
      [] OTHER -> "unknown"

\* A retrieval receipt is of the current content or of an archive's.
ModeOf(level) == IF level = "platform_observed" THEN "current" ELSE "historical"

PricedSessions(evidence) == {evidence.prices[i].session : i \in DOMAIN evidence.prices}

Increasing(s) == \A i \in 2..Len(s) : s[i - 1] < s[i]

StatusRank == [active |-> 1, delisted |-> 2, suspended |-> 3]

LifecycleSorted(events) ==
    \A i \in 2..Len(events) :
        \/ events[i - 1].on < events[i].on
        \/ /\ events[i - 1].on = events[i].on
           /\ StatusRank[events[i - 1].status] <= StatusRank[events[i].status]

\* The listing's last lifecycle event by a session says it is active.
ActiveOn(events, session) ==
    LET past == {i \in DOMAIN events : events[i].on <= session}
    IN  /\ past # {}
        /\ \A i \in past : (\A j \in past : j <= i) => events[i].status = "active"

SymbolOn(symbols, session) ==
    \E i \in DOMAIN symbols : symbols[i].from <= session /\ session <= symbols[i].to

\* _validate_listing_evidence.
ListingFailure(listing, evidence, calendar, reference) ==
    LET sessions == evidence.sessions
    IN  FirstFailure(<<
          <<sessions # <<>> /\ Increasing(sessions) /\ evidence.prices # <<>>
              /\ evidence.lifecycle # <<>> /\ evidence.symbols # <<>>, "invalid">>,
          <<evidence.complete, "company_actions_incomplete">>,
          <<calendar.version = evidence.calendar /\ calendar.sessions = sessions,
            "calendar_mismatch">>,
          <<reference.listing = listing
              /\ reference.symbols = evidence.symbols
              /\ reference.lifecycle = evidence.lifecycle
              /\ reference.actions = evidence.actions, "reference_mismatch">>,
          <<sessions # <<>> => evidence.coverage = <<sessions[1], Last(sessions)>>,
            "session_mismatch">>,
          <<\A i \in DOMAIN evidence.prices :
                evidence.prices[i].positive /\ evidence.prices[i].session \in ToSet(sessions),
            "price_invalid">>,
          <<[i \in DOMAIN evidence.prices |-> evidence.prices[i].session]
               = SelectSeq(sessions, LAMBDA s : s \in PricedSessions(evidence)),
            "session_mismatch">>,
          <<LifecycleSorted(evidence.lifecycle)
              /\ \A s \in ToSet(sessions) : ActiveOn(evidence.lifecycle, s),
            "lifecycle_mismatch">>,
          <<\A i \in DOMAIN evidence.symbols :
                evidence.symbols[i].from <= evidence.symbols[i].to, "symbol_invalid">>,
          <<\A s \in ToSet(sessions) : SymbolOn(evidence.symbols, s), "symbol_mismatch">>,
          <<\A i \in DOMAIN evidence.actions : evidence.actions[i].valid,
            "company_action_invalid">> >>)

-----------------------------------------------------------------------------
(* Labels *)

\* The anchor session, twenty sessions into the history or the last there is.
AnchorIndex(sessions) == IF Len(sessions) > Anchor THEN Anchor + 1 ELSE Len(sessions)

\* _adjusted_prices keeps a row for each price: corporate actions change its
\* value and never its session.
AdjustedSessions(evidence) == PricedSessions(evidence)

\* _mature_labels: the target of a horizon is that many sessions after the
\* anchor, and a session or price that is missing is never stepped over.
LabelStatus(evidence, horizon) ==
    LET sessions == evidence.sessions
        anchor == AnchorIndex(sessions)
        known == AdjustedSessions(evidence)
    IN  IF anchor <= Anchor \/ \E i \in 1..anchor : sessions[i] \notin known
        THEN "invalid_history"
        ELSE IF anchor + horizon > Len(sessions) \/ sessions[anchor + horizon] \notin known
        THEN "invalid_endpoint"
        ELSE "mature"

Exclusions(evidence) ==
    {<<LabelStatus(evidence, h), h>> :
        h \in {k \in Horizons : LabelStatus(evidence, k) # "mature"}}

\* _can_build_reconstruction; built: the rule versions are all named.
ReconstructionReady(evidence) == evidence.complete /\ evidence.built

UseScope(level, evidence) ==
    IF level = "archive_attested" THEN {"historical_reconstruction"}
    ELSE {"production"}
           \cup (IF ReconstructionReady(evidence) THEN {"historical_reconstruction"} ELSE {})
=============================================================================
