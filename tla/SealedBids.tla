----------------------------- MODULE SealedBids -----------------------------
(***************************************************************************)
(* The two-envelope tender: quotations arrive sealed, are judged on their  *)
(* technical content alone, are opened by the engineer's approval and only *)
(* then priced and ranked (application/quotation_ingestion.py,             *)
(* technical_comparison.py, commercial_normalization.py, bid_ranking.py,   *)
(* the technical approval route and the activities that call them).        *)
(*                                                                         *)
(* A quotation row is kept per supplier and negotiation round: only the    *)
(* highest revision of a round is ever listed, so a revision replaces the  *)
(* row it supersedes.  What a supplier sends is abstracted to its offer: a *)
(* priced offer is named by the set of part numbers it quotes, NoLines is  *)
(* a text no line could be parsed from, Decline a refusal to quote.        *)
(***************************************************************************)
EXTENDS SourcingCase

CONSTANTS Parts,               \* the part-number sets a supplier may offer
          Decline, NoLines,    \* the two kinds of text without lines
          SealedBidEnabled,    \* settings.sealed_bid_enabled
          RoundsAhead          \* how far ahead of the case's round a person
                               \* may name a round at manual entry

ASSUME BidAssumption ==
  /\ Decline \notin Parts
  /\ NoLines \notin Parts
  /\ Decline # NoLines
  /\ SealedBidEnabled \in BOOLEAN
  /\ RoundsAhead \in Nat

VARIABLES case,      \* the sourcing case
          quotes,    \* quotes[v][r]: newest revision of supplier v in round r
          ranking    \* rows of the newest ranking run

vars == <<case, quotes, ranking>>

Rounds == 0..MaxRounds
Offers == Parts \cup {Decline, NoLines}
Verdicts == {"UNKNOWN", "YES", "NO"}

\* "NONE" is the absence of a row.  judged is the offer whose compliance
\* assessments the verdict comes from; the code keeps it as the quotation id
\* of the assessment rows and never reads it back.  legible: where the prices
\* of the offer can be read without a key.
Places == {"columns", "extract", "mail"}

Quotation ==
  [status  : {"NONE", "SEALED", "PARSED", "WITHDRAWN",
              "TECHNICALLY_QUALIFIED", "TECHNICALLY_DISQUALIFIED"},
   offer   : Offers,
   sealed  : BOOLEAN,
   verdict : Verdicts,
   judged  : Offers,
   legible : SUBSET Places]

NoQuotation == [status |-> "NONE", offer |-> NoLines, sealed |-> FALSE,
                verdict |-> "UNKNOWN", judged |-> NoLines, legible |-> {}]

TypeOK ==
  /\ case \in Case
  /\ quotes \in [Suppliers -> [Rounds -> Quotation]]
  /\ ranking \in [qualified : SUBSET Suppliers,
                  disqualified : SUBSET Suppliers]

Init ==
  /\ case = NewCase
  /\ quotes = [v \in Suppliers |-> [r \in Rounds |-> NoQuotation]]
  /\ ranking = [qualified |-> {}, disqualified |-> {}]

-----------------------------------------------------------------------------
(* Reading quotation rows *)

Exists(q) == q.status # "NONE"

\* list_for_case leaves superseded and withdrawn rows out.
Listed(q) == q.status \notin {"NONE", "WITHDRAWN"}

ListedRounds(v) == {r \in Rounds : Listed(quotes[v][r])}

\* latest_only: the highest round, and in it the highest revision.
IsLatest(v, r) ==
  /\ r \in ListedRounds(v)
  /\ \A s \in ListedRounds(v) : s <= r

StatusOf(verdict) == IF verdict = "YES" THEN "TECHNICALLY_QUALIFIED"
                                        ELSE "TECHNICALLY_DISQUALIFIED"

-----------------------------------------------------------------------------
(* Receiving a quotation *)

\* What is stored of an offer with prices beside the envelope: the parser's
\* whole result in raw_extract, always; the mail it came in, if it did; the
\* price columns and the prices of the lines, unless it is sealed.
LegibleIn(offer, sealed, mailed) ==
  {p \in Places : /\ offer \in Parts
                  /\ p = "columns" => ~sealed
                  /\ p = "mail" => mailed}

\* The row of an offer, sealed or not, before the verdict is inherited.
Row(offer, sealed, mailed) ==
  [status  |-> IF offer = Decline THEN "WITHDRAWN"
               ELSE IF sealed THEN "SEALED" ELSE "PARSED",
   offer   |-> offer,
   sealed  |-> sealed,
   verdict |-> "UNKNOWN",
   judged  |-> offer,
   legible |-> LegibleIn(offer, sealed, mailed)]

\* Faulty variant: only the quotations of the quote window are sealed.
ReceivedSealedInWindow(offer, mailed) ==
  Row(offer, /\ SealedBidEnabled
             /\ case.state = "WAITING_FOR_QUOTES"
             /\ offer # Decline, mailed)

\* ingest_text: a commercial payload is sealed until the case is unlocked, a
\* refusal has nothing to seal.
Received(offer, mailed) ==
  Row(offer, SealedBidEnabled /\ ~case.unlocked /\ offer # Decline, mailed)

\* The row a revision may take its verdict from: the revision it replaces,
\* else the supplier's row in the nearest earlier round.
IsSource(v, r, s) ==
  /\ s \in 0..r
  /\ Exists(quotes[v][s])
  /\ \A t \in (s + 1)..r : ~Exists(quotes[v][t])

\* Faulty variant: a verdict is inherited whatever the part numbers.
PartsUncompared(before, now) == FALSE

\* Two offers are told apart by their part numbers only if both have lines.
PartsChanged(before, now) ==
  before \in Parts /\ now \in Parts /\ before # now

\* _inherit_technical_result
Inherited(new, source) ==
  IF source.verdict = "UNKNOWN" \/ PartsChanged(source.offer, new.offer)
  THEN new
  ELSE [new EXCEPT !.verdict = source.verdict,
                   !.judged = source.judged,
                   !.status = StatusOf(source.verdict)]

\* The round is the case's, or the one a person names at manual entry; mailed
\* if the text is the body of a mail.  The invitation row this also answers is
\* held by the RFQ module.
IngestQuotation(v, r, offer, mailed) ==
  /\ r <= case.round + RoundsAhead
  /\ \/ /\ ~ \E s \in Rounds : IsSource(v, r, s)
        /\ quotes' = [quotes EXCEPT ![v][r] = Received(offer, mailed)]
     \/ \E s \in Rounds :
          /\ IsSource(v, r, s)
          /\ quotes' = [quotes EXCEPT
               ![v][r] = Inherited(Received(offer, mailed), quotes[v][s])]
  /\ UNCHANGED <<case, ranking>>

-----------------------------------------------------------------------------
(* Technical evaluation *)

\* evaluate_case: a verdict for the latest listed row of every supplier.
Evaluated(verdict) ==
  [v \in Suppliers |-> [r \in Rounds |->
     IF IsLatest(v, r)
     THEN [quotes[v][r] EXCEPT !.verdict = verdict[v],
                               !.judged = quotes[v][r].offer,
                               !.status = StatusOf(verdict[v])]
     ELSE quotes[v][r]]]

\* GET .../comparison?recompute=true, in any state of the case.
RecomputeComparison ==
  /\ \E verdict \in [Suppliers -> {"YES", "NO"}] :
       quotes' = Evaluated(verdict)
  /\ UNCHANGED <<case, ranking>>

\* The activity moves the case before and after the comparison; both saves
\* are in one session, so TECHNICAL_EVALUATION is passed through.
EvaluateTechnical ==
  /\ \E verdict \in [Suppliers -> {"YES", "NO"}] :
       quotes' = Evaluated(verdict)
  /\ case' = IF case.state \in {"WAITING_FOR_QUOTES", "TECHNICAL_EVALUATION"}
             THEN Transition(case, "WAITING_FOR_TECHNICAL_APPROVAL")
             ELSE case
  /\ UNCHANGED ranking

-----------------------------------------------------------------------------
(* Opening the envelopes *)

\* unseal_case, for one row: the payload is written into the price columns and
\* the lines, and the technical verdict outlives the envelope.
Opened(q) ==
  IF Listed(q) /\ q.sealed
  THEN [q EXCEPT !.sealed = FALSE,
                 !.legible = IF q.offer \in Parts THEN @ \cup {"columns"}
                                                  ELSE @,
                 !.status = IF q.verdict = "YES" THEN "TECHNICALLY_QUALIFIED"
                                                 ELSE q.status]
  ELSE q

\* Faulty variant: unseal_case lists with latest_only left at its default.
UnsealedLatestOnly ==
  [v \in Suppliers |-> [r \in Rounds |->
     IF IsLatest(v, r) THEN Opened(quotes[v][r]) ELSE quotes[v][r]]]

Unsealed == [v \in Suppliers |-> [r \in Rounds |-> Opened(quotes[v][r])]]

\* approve_technical, positive decision: policy, save and unseal_case.
ApproveTechnical ==
  /\ MayUnlockCommercial(case)
  /\ case' = ApplyTechnicalApproval(case)
  /\ quotes' = Unsealed
  /\ UNCHANGED ranking

\* unseal_bids_activity, which the workflow runs once more after the signal.
UnsealBids ==
  /\ case.unlocked
  /\ quotes' = Unsealed
  /\ UNCHANGED <<case, ranking>>

-----------------------------------------------------------------------------
(* Commercial evaluation *)

Comparable(q) == Listed(q) /\ ~q.sealed /\ q.offer \in Parts

\* normalize_case: the listed rows of one round or, when that round has none,
\* the latest row of every supplier.
Normalized(r) ==
  LET inRound == {v \in Suppliers : Listed(quotes[v][r])}
  IN  IF inRound # {}
      THEN {v \in inRound : Comparable(quotes[v][r])}
      ELSE {v \in Suppliers : \E s \in Rounds :
              IsLatest(v, s) /\ Comparable(quotes[v][s])}

\* rank: the verdict is read from the supplier's latest row, whatever round
\* its prices were normalised from.
IsQualified(v) ==
  \E s \in Rounds : IsLatest(v, s) /\ quotes[v][s].verdict = "YES"

\* A run that ranks nobody saves no row: the previous run stays the newest.
RankedAfter(candidates) ==
  IF candidates = {} THEN ranking
  ELSE [qualified    |-> {v \in candidates : IsQualified(v)},
        disqualified |-> {v \in candidates : ~IsQualified(v)}]

Candidates == Normalized(case.round)

Bids == {v \in Candidates : IsQualified(v)}

\* commercial_evaluation_activity, for the case's round.
EvaluateCommercial ==
  /\ case.unlocked
  /\ ranking' = RankedAfter(Candidates)
  /\ UNCHANGED <<case, quotes>>

\* negotiation_recommendation_activity: ranks afresh and, if a bid is left to
\* negotiate with, opens the next round.
RecommendNegotiation ==
  /\ MayOpenNegotiation(case)
  /\ ranking.qualified \cup ranking.disqualified # {}
  /\ ranking' = RankedAfter(Candidates)
  /\ case' = IF Bids # {} THEN OpenRound(Transition(case, "NEGOTIATION"))
                          ELSE case
  /\ UNCHANGED quotes

\* po_recommendation_activity: ranks afresh and refuses, in any state, a
\* supplier the new run does not qualify.  The order itself is held by the
\* award module.
RecommendPo ==
  /\ case.unlocked
  /\ Bids # {}
  /\ ranking' = RankedAfter(Candidates)
  /\ IF case.state = "WAITING_FOR_AWARD_APPROVAL"
     THEN /\ MayTransition(case, "PO_RECOMMENDATION")
          /\ case' = Transition(case, "PO_RECOMMENDATION")
     ELSE UNCHANGED case
  /\ UNCHANGED quotes

-----------------------------------------------------------------------------
(* The rest of the system, through the case *)

\* The driven transitions no action above makes.
MoveCase ==
  \E s \in {"VALIDATING_PR", "SOURCING_STRATEGY", "READY_FOR_RFQ",
            "WAITING_FOR_QUOTES", "WAITING_FOR_AWARD_APPROVAL",
            "ORDER_PLACED"} \cup TerminalStates :
    /\ <<case.state, s>> \in DrivenTransitions
    /\ MayTransition(case, s)
    /\ case' = Transition(case, s)
    /\ UNCHANGED <<quotes, ranking>>

\* approve_award, once the approval chain is complete.
ApproveAward(v) ==
  /\ MayRecordAward(case, v)
  /\ case' = RecordAward(case, v)
  /\ UNCHANGED <<quotes, ranking>>

Next ==
  \/ \E v \in Suppliers, r \in Rounds, offer \in Offers, mailed \in BOOLEAN :
       IngestQuotation(v, r, offer, mailed)
  \/ RecomputeComparison
  \/ EvaluateTechnical
  \/ ApproveTechnical
  \/ UnsealBids
  \/ EvaluateCommercial
  \/ RecommendNegotiation
  \/ RecommendPo
  \/ MoveCase
  \/ \E v \in Suppliers : ApproveAward(v)

Spec == Init /\ [][Next]_vars

-----------------------------------------------------------------------------
(* Properties *)

Priced(q) == q.offer \in Parts /\ Exists(q)

\* "While sealed, the plaintext columns hold no prices at all": under sealed
\* bidding the price columns and the lines of every quotation are blank until
\* a person has approved the technical evaluation, whichever route it came in
\* by, in whatever state of the case, and whatever the comparison and later
\* revisions make of its row.  Of the columns only: see PricesUnread below.
ColumnsBlankUntilApproval ==
  SealedBidEnabled =>
    \A v \in Suppliers, r \in Rounds :
      "columns" \in quotes[v][r].legible => case.unlocked

\* Once a case is unlocked no supplier's newest quotation is stranded in its
\* envelope, and its prices are where the ranking reads them: unseal_case opens
\* the rows it lists, ingestion stops sealing, and no row can fall between the
\* two.
NoBidStranded ==
  case.unlocked =>
    \A v \in Suppliers, r \in Rounds :
      /\ ~quotes[v][r].sealed
      /\ Priced(quotes[v][r]) => "columns" \in quotes[v][r].legible

\* The row has part numbers and carries a verdict on something else.
Misjudged(q) ==
  q.verdict # "UNKNOWN" /\ q.offer \in Parts /\ q.judged # q.offer

\* Revisions and rounds hand verdicts on, and only across a quotation without
\* lines does one pass to part numbers it was not given for: a row that
\* carries a verdict on something else has it from one that carried the same
\* for the same part numbers, or from one that had none to compare.
VerdictsKeepToTheirParts ==
  [][\A v \in Suppliers, r \in Rounds :
       Misjudged(quotes'[v][r]) =>
         \E s \in Rounds :
           /\ quotes[v][s].verdict = quotes'[v][r].verdict
           /\ quotes[v][s].judged = quotes'[v][r].judged
           /\ quotes[v][s].offer \in Parts
                => quotes[v][s].offer = quotes'[v][r].offer]_vars

\* A case is worked on commercially (ranked, negotiated, awarded, ordered,
\* completed) only after the approval, along whatever path it got there.
CommercialOnlyAfterApproval ==
  case.state \in CommercialStates \/ ranking.qualified # {}
    => case.unlocked

-----------------------------------------------------------------------------
(* What the documents and comments say and the code does not keep: each of   *)
(* these fails.                                                              *)

\* "Nobody reads a supplier's prices before the technical evaluation is
\* approved", "nothing priced is written in clear": what raw_extract and the
\* mail of a sealed offer hold is not sealed.
PricesUnread ==
  SealedBidEnabled =>
    \A v \in Suppliers, r \in Rounds :
      quotes[v][r].legible # {} => case.unlocked

\* A refusal to quote is never taken for an offer: as long as it is the
\* supplier's newest row of a round, evaluation and ranking do not list it.
RefusalIsNotListed ==
  \A v \in Suppliers, r \in Rounds :
    quotes[v][r].offer = Decline => ~Listed(quotes[v][r])

\* A technical verdict belongs to what the supplier offers: a listed row that
\* carries one was judged on the same part numbers.
VerdictIsOnWhatIsOffered ==
  \A v \in Suppliers, r \in Rounds :
    LET q == quotes[v][r]
    IN  q.verdict # "UNKNOWN" /\ q.offer \in Parts => q.judged = q.offer

\* Ranking drops nobody who passed: as long as a supplier's latest row is an
\* open, priced and technically qualified offer, a new run ranks it.
QualifiedOfferIsRanked ==
  case.unlocked =>
    \A v \in Suppliers :
      (\E r \in Rounds : IsLatest(v, r) /\ Comparable(quotes[v][r])
                            /\ quotes[v][r].verdict = "YES")
        => v \in Candidates
=============================================================================
