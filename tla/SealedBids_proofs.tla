-------------------------- MODULE SealedBids_proofs --------------------------
(***************************************************************************)
(* What SealedBids guarantees for every set of suppliers and of offers and *)
(* every number of rounds, with sealing on or off.  The argument is one    *)
(* inductive invariant, IInv: the three properties of the module, the fact *)
(* unseal_case rests on, that a sealed row is never one it does not list,  *)
(* and that the price columns of a row are filled if and only if its offer *)
(* has prices and its envelope is open.                                    *)
(***************************************************************************)
EXTENDS SealedBids, SourcingCase_proofs

\* unseal_case lists rows before it opens them; a sealed row it would not
\* list (withdrawn, or absent) would stay sealed for ever.
SealedRowsAreListed ==
  \A v \in Suppliers, r \in Rounds :
    quotes[v][r].sealed => Listed(quotes[v][r])

\* The seal of a row says whether its columns are blank.
ColumnsFollowTheSeal ==
  \A v \in Suppliers, r \in Rounds :
    /\ "columns" \in quotes[v][r].legible => ~quotes[v][r].sealed
    /\ Priced(quotes[v][r]) /\ ~quotes[v][r].sealed
         => "columns" \in quotes[v][r].legible

CommercialIsUnlocked ==
  /\ case.state \in CommercialStates => case.unlocked
  /\ ranking.qualified # {} => case.unlocked

IInv ==
  /\ TypeOK
  /\ ColumnsBlankUntilApproval
  /\ NoBidStranded
  /\ CommercialIsUnlocked
  /\ SealedRowsAreListed
  /\ ColumnsFollowTheSeal

-----------------------------------------------------------------------------
(* Lemmas about the operators *)

\* What ingest_text stores is a row, listed if it is sealed, and with blank
\* columns as long as sealing is on and the case is locked.
LEMMA ReceivedRow ==
  ASSUME NEW offer \in Offers, NEW mailed \in BOOLEAN, case \in Case
  PROVE  LET q == Received(offer, mailed)
         IN  /\ q \in Quotation
             /\ q.offer = offer
             /\ q.sealed => Listed(q)
             /\ q.sealed => ~case.unlocked
             /\ "columns" \in q.legible => ~q.sealed /\ q.offer \in Parts
             /\ q.offer \in Parts /\ ~q.sealed => "columns" \in q.legible
             /\ SealedBidEnabled /\ "columns" \in q.legible => case.unlocked
<1> DEFINE sealed == SealedBidEnabled /\ ~case.unlocked /\ offer # Decline
           q == Row(offer, sealed, mailed)
<1>1. Received(offer, mailed) = q
  BY DEF Received
<1>2. sealed \in BOOLEAN /\ case.unlocked \in BOOLEAN
  BY BidAssumption DEF Case
<1>3. LegibleIn(offer, sealed, mailed) \in SUBSET Places
  BY DEF LegibleIn
<1>4. "columns" \in LegibleIn(offer, sealed, mailed)
        <=> offer \in Parts /\ ~sealed
  BY DEF LegibleIn, Places
<1>5. /\ q.status = IF offer = Decline THEN "WITHDRAWN"
                    ELSE IF sealed THEN "SEALED" ELSE "PARSED"
      /\ q.offer = offer /\ q.sealed = sealed
      /\ q.legible = LegibleIn(offer, sealed, mailed)
  BY DEF Row
<1>6. q \in Quotation
  <2> HIDE DEF sealed
  <2> QED
    BY <1>2, <1>3 DEF Row, Quotation, Verdicts
<1>7. q.sealed => Listed(q)
  BY <1>5 DEF Listed
<1>8. offer \in Parts => offer # Decline
  BY BidAssumption
<1> QED
  BY <1>1, <1>2, <1>4, <1>5, <1>6, <1>7, <1>8

\* Inheriting a verdict touches neither the offer nor the seal nor what can be
\* read, and the row it yields is listed.
LEMMA InheritedRow ==
  ASSUME NEW new \in Quotation, NEW source \in Quotation
  PROVE  /\ Inherited(new, source) \in Quotation
         /\ Inherited(new, source).offer = new.offer
         /\ Inherited(new, source).sealed = new.sealed
         /\ Inherited(new, source).legible = new.legible
         /\ Listed(new) => Listed(Inherited(new, source))
BY DEF Inherited, Quotation, Verdicts, Listed, StatusOf

\* The comparison touches neither the offer nor the seal of any row nor what
\* can be read of it, and lists every row that was listed.
LEMMA EvaluatedRows ==
  ASSUME quotes \in [Suppliers -> [Rounds -> Quotation]],
         NEW verdict \in [Suppliers -> {"YES", "NO"}]
  PROVE  /\ Evaluated(verdict) \in [Suppliers -> [Rounds -> Quotation]]
         /\ \A v \in Suppliers, r \in Rounds :
              LET new == Evaluated(verdict)[v][r]
                  old == quotes[v][r]
              IN  /\ new.offer = old.offer
                  /\ new.sealed = old.sealed
                  /\ new.legible = old.legible
                  /\ Listed(new) <=> Listed(old)
                  /\ Exists(new) <=> Exists(old)
<1> SUFFICES ASSUME NEW v \in Suppliers, NEW r \in Rounds
             PROVE  LET new == Evaluated(verdict)[v][r]
                        old == quotes[v][r]
                    IN  /\ new \in Quotation
                        /\ new.offer = old.offer
                        /\ new.sealed = old.sealed
                        /\ new.legible = old.legible
                        /\ Listed(new) <=> Listed(old)
                        /\ Exists(new) <=> Exists(old)
  BY DEF Evaluated
<1> DEFINE old == quotes[v][r]
           new == [old EXCEPT !.verdict = verdict[v],
                              !.judged = old.offer,
                              !.status = StatusOf(verdict[v])]
<1>1. old \in Quotation /\ verdict[v] \in {"YES", "NO"}
  OBVIOUS
<1>2. CASE IsLatest(v, r)
  <2>1. Evaluated(verdict)[v][r] = new
    BY <1>2 DEF Evaluated
  <2>2. Listed(old)
    BY <1>2 DEF IsLatest, ListedRounds
  <2>3. /\ new \in Quotation
        /\ new.offer = old.offer /\ new.sealed = old.sealed
        /\ new.legible = old.legible
        /\ new.status = StatusOf(verdict[v])
    BY <1>1 DEF Quotation, Verdicts, StatusOf
  <2> QED
    BY <2>1, <2>2, <2>3 DEF Listed, Exists, StatusOf
<1>3. CASE ~IsLatest(v, r)
  BY <1>1, <1>3 DEF Evaluated
<1> QED
  BY <1>2, <1>3

\* unseal_case opens every listed row, fills the columns of those it opens and
\* changes no offer.
LEMMA UnsealedRows ==
  ASSUME quotes \in [Suppliers -> [Rounds -> Quotation]]
  PROVE  /\ Unsealed \in [Suppliers -> [Rounds -> Quotation]]
         /\ \A v \in Suppliers, r \in Rounds :
              LET new == Unsealed[v][r]
                  old == quotes[v][r]
              IN  /\ new.offer = old.offer
                  /\ new.sealed => old.sealed /\ ~Listed(old)
                  /\ Priced(new) => Priced(old)
                  /\ old.sealed /\ ~new.sealed /\ new.offer \in Parts
                       => "columns" \in new.legible
                  /\ ~old.sealed => new = old
<1> SUFFICES ASSUME NEW v \in Suppliers, NEW r \in Rounds
             PROVE  LET new == Opened(quotes[v][r])
                        old == quotes[v][r]
                    IN  /\ new \in Quotation
                        /\ new.offer = old.offer
                        /\ new.sealed => old.sealed /\ ~Listed(old)
                        /\ Priced(new) => Priced(old)
                        /\ old.sealed /\ ~new.sealed /\ new.offer \in Parts
                             => "columns" \in new.legible
                        /\ ~old.sealed => new = old
  BY DEF Unsealed
<1> DEFINE old == quotes[v][r]
<1>1. old \in Quotation
  OBVIOUS
<1>2. CASE ~(Listed(old) /\ old.sealed)
  BY <1>1, <1>2 DEF Opened, Quotation
<1>3. CASE Listed(old) /\ old.sealed
  <2> DEFINE places == IF old.offer \in Parts
                       THEN old.legible \cup {"columns"} ELSE old.legible
             status == IF old.verdict = "YES" THEN "TECHNICALLY_QUALIFIED"
                                              ELSE old.status
             new == [old EXCEPT !.sealed = FALSE, !.legible = places,
                                !.status = status]
  <2>1. Opened(old) = new
    BY <1>3 DEF Opened
  <2>2. places \in SUBSET Places
    BY <1>1 DEF Quotation, Places
  <2>3. /\ new \in Quotation /\ new.offer = old.offer
        /\ new.sealed = FALSE /\ new.legible = places
    <3> HIDE DEF places
    <3> QED
      BY <1>1, <2>2 DEF Quotation
  <2> QED
    BY <1>3, <2>1, <2>3 DEF Priced, Exists, Listed
<1> QED
  BY <1>2, <1>3

\* A ranking run yields a ranking.
LEMMA RankingRun ==
  ASSUME ranking \in [qualified : SUBSET Suppliers,
                      disqualified : SUBSET Suppliers]
  PROVE  RankedAfter(Candidates) \in [qualified : SUBSET Suppliers,
                                      disqualified : SUBSET Suppliers]
<1>1. Candidates \in SUBSET Suppliers
  BY DEF Candidates, Normalized
<1> QED
  BY <1>1 DEF RankedAfter

\* The driven transitions into a commercial state start in one, the technical
\* approval's aside.
LEMMA DrivenIntoCommercial ==
  ASSUME NEW s, NEW t, <<s, t>> \in DrivenTransitions,
         t \in CommercialStates, t # "COMMERCIAL_EVALUATION"
  PROVE  s \in CommercialStates
BY DEF DrivenTransitions, LegalTransitions, CommercialStates, Abandoned

-----------------------------------------------------------------------------
(* The invariant *)

\* A new case is locked, has no quotation and was never ranked.
LEMMA InitInv == Init => IInv
BY CaseAssumption
   DEF Init, IInv, TypeOK, ColumnsBlankUntilApproval, NoBidStranded,
       CommercialIsUnlocked, SealedRowsAreListed, ColumnsFollowTheSeal,
       NewCase, Case, CaseStates, CommercialStates, NoQuotation, Quotation,
       Places, Verdicts, Offers, Rounds, Listed, Priced, Exists

\* Receiving a quotation keeps the invariant: what is new is sealed exactly
\* as long as the case is locked, and inheriting leaves the seal alone.
LEMMA IngestStep ==
  ASSUME IInv, NEW v \in Suppliers, NEW r \in Rounds, NEW offer \in Offers,
         NEW mailed \in BOOLEAN, IngestQuotation(v, r, offer, mailed)
  PROVE  IInv'
<1> USE DEF IInv, TypeOK
<1> DEFINE Good(q) == /\ q \in Quotation
                      /\ q.sealed => Listed(q) /\ ~case.unlocked
                      /\ "columns" \in q.legible => ~q.sealed
                      /\ Priced(q) /\ ~q.sealed => "columns" \in q.legible
                      /\ SealedBidEnabled /\ "columns" \in q.legible
                           => case.unlocked
           new == Received(offer, mailed)
<1>1. \A w \in Suppliers, s \in Rounds : Good(quotes[w][s])
  BY DEF ColumnsBlankUntilApproval, NoBidStranded, SealedRowsAreListed,
         ColumnsFollowTheSeal
<1>2. Good(new) /\ (new.offer \in Parts /\ ~new.sealed
                     => "columns" \in new.legible)
  BY ReceivedRow DEF Priced
<1>3. \A q \in Quotation : Good(Inherited(new, q))
  <2> HIDE DEF new
  <2> QED
    BY <1>2, InheritedRow DEF Priced
<1>4. PICK q : Good(q) /\ quotes' = [quotes EXCEPT ![v][r] = q]
  <2>1. CASE quotes' = [quotes EXCEPT ![v][r] = new]
    BY <2>1, <1>2
  <2>2. CASE \E s \in Rounds :
               quotes' = [quotes EXCEPT ![v][r] = Inherited(new, quotes[v][s])]
    <3>1. \A s \in Rounds : quotes[v][s] \in Quotation
      OBVIOUS
    <3> QED
      BY <2>2, <3>1, <1>3
  <2> QED
    BY <2>1, <2>2 DEF IngestQuotation
<1>5. /\ quotes' \in [Suppliers -> [Rounds -> Quotation]]
      /\ \A w \in Suppliers, s \in Rounds : Good(quotes'[w][s])
  <2>1. quotes' \in [Suppliers -> [Rounds -> Quotation]]
    BY <1>4
  <2>2. ASSUME NEW w \in Suppliers, NEW s \in Rounds
        PROVE  quotes'[w][s] = q \/ quotes'[w][s] = quotes[w][s]
    BY <1>4
  <2>3. ASSUME NEW w \in Suppliers, NEW s \in Rounds
        PROVE  Good(quotes'[w][s])
    BY <2>2, <1>1, <1>4
  <2> QED
    BY <2>1, <2>3
<1>6. UNCHANGED <<case, ranking>>
  BY DEF IngestQuotation
<1> QED
  BY <1>5, <1>6
     DEF ColumnsBlankUntilApproval, NoBidStranded, SealedRowsAreListed,
         ColumnsFollowTheSeal, CommercialIsUnlocked

\* A comparison, whatever its verdicts, keeps the invariant: it opens nothing
\* and hides nothing, and the case ends where no commercial work is done.
LEMMA EvaluateStep ==
  ASSUME IInv,
         NEW verdict \in [Suppliers -> {"YES", "NO"}],
         quotes' = Evaluated(verdict),
         \/ case' = case
         \/ case' = Transition(case, "WAITING_FOR_TECHNICAL_APPROVAL"),
         UNCHANGED ranking
  PROVE  IInv'
<1> USE DEF IInv, TypeOK
<1>1. /\ quotes' \in [Suppliers -> [Rounds -> Quotation]]
      /\ \A v \in Suppliers, r \in Rounds :
           /\ quotes'[v][r].offer = quotes[v][r].offer
           /\ quotes'[v][r].sealed = quotes[v][r].sealed
           /\ quotes'[v][r].legible = quotes[v][r].legible
           /\ Listed(quotes'[v][r]) <=> Listed(quotes[v][r])
           /\ Exists(quotes'[v][r]) <=> Exists(quotes[v][r])
  BY EvaluatedRows
<1>2. /\ case' \in Case
      /\ case'.unlocked = case.unlocked
      /\ case'.state \in CommercialStates => case.state \in CommercialStates
  <2> DEFINE moved == Transition(case, "WAITING_FOR_TECHNICAL_APPROVAL")
  <2>1. /\ moved \in Case
        /\ moved.unlocked = case.unlocked
        /\ moved.state = "WAITING_FOR_TECHNICAL_APPROVAL"
    <3>1. case \in Case /\ "WAITING_FOR_TECHNICAL_APPROVAL" \in CaseStates
      BY DEF CaseStates
    <3> QED
      BY ONLY <3>1, TransitionCase
  <2> HIDE DEF moved
  <2>2. case' = case \/ case' = moved
    BY DEF moved
  <2> QED
    BY <2>1, <2>2 DEF CommercialStates
<1>3. \A v \in Suppliers, r \in Rounds :
        Priced(quotes'[v][r]) <=> Priced(quotes[v][r])
  BY <1>1 DEF Priced
<1>4. TypeOK' /\ SealedRowsAreListed' /\ CommercialIsUnlocked'
  <2>1. TypeOK'
    BY <1>1, <1>2
  <2>2. SealedRowsAreListed'
    BY <1>1 DEF SealedRowsAreListed
  <2>3. CommercialIsUnlocked'
    BY <1>2 DEF CommercialIsUnlocked
  <2> QED
    BY <2>1, <2>2, <2>3
<1>5. ColumnsBlankUntilApproval' /\ ColumnsFollowTheSeal'
  <2>1. ColumnsBlankUntilApproval'
    BY <1>1, <1>2 DEF ColumnsBlankUntilApproval
  <2>2. ColumnsFollowTheSeal'
    BY <1>1, <1>3 DEF ColumnsFollowTheSeal
  <2> QED
    BY <2>1, <2>2
<1>6. NoBidStranded'
  BY <1>1, <1>2, <1>3 DEF NoBidStranded
<1> QED
  BY <1>4, <1>5, <1>6

\* Opening envelopes of an unlocked case keeps the invariant: every sealed
\* row is listed, so none is left behind.
LEMMA UnsealStep ==
  ASSUME IInv, quotes' = Unsealed, case' \in Case, case'.unlocked = TRUE,
         UNCHANGED ranking
  PROVE  IInv'
<1> USE DEF IInv, TypeOK
<1>1. /\ quotes' \in [Suppliers -> [Rounds -> Quotation]]
      /\ \A v \in Suppliers, r \in Rounds :
           /\ ~quotes'[v][r].sealed
           /\ Priced(quotes'[v][r]) => "columns" \in quotes'[v][r].legible
  <2>1. \A v \in Suppliers, r \in Rounds : Unsealed[v][r].sealed \in BOOLEAN
    BY UnsealedRows DEF Quotation
  <2>2. \A v \in Suppliers, r \in Rounds : ~quotes'[v][r].sealed
    BY UnsealedRows, <2>1 DEF SealedRowsAreListed
  <2>3. ASSUME NEW v \in Suppliers, NEW r \in Rounds, Priced(quotes'[v][r])
        PROVE  "columns" \in quotes'[v][r].legible
    <3>1. CASE quotes[v][r].sealed
      BY <2>2, <2>3, <3>1, UnsealedRows DEF Priced
    <3>2. CASE ~quotes[v][r].sealed
      BY <2>3, <3>2, UnsealedRows DEF ColumnsFollowTheSeal
    <3> QED
      BY <3>1, <3>2
  <2> QED
    BY UnsealedRows, <2>2, <2>3
<1> QED
  BY <1>1
     DEF ColumnsBlankUntilApproval, NoBidStranded, SealedRowsAreListed,
         ColumnsFollowTheSeal, CommercialIsUnlocked

\* Steps that leave the quotations alone keep the invariant as long as they
\* leave the lock alone and do commercial work on unlocked cases only.
LEMMA CaseStep ==
  ASSUME IInv, UNCHANGED quotes, case' \in Case,
         case'.unlocked = case.unlocked,
         \/ ranking' = ranking
         \/ case.unlocked /\ ranking' = RankedAfter(Candidates),
         case'.state \in CommercialStates => case.unlocked
  PROVE  IInv'
<1> USE DEF IInv, TypeOK
<1>1. ranking' \in [qualified : SUBSET Suppliers,
                    disqualified : SUBSET Suppliers]
  BY RankingRun
<1>2. ranking'.qualified # {} => case.unlocked
  BY DEF CommercialIsUnlocked
<1> QED
  BY <1>1, <1>2
     DEF ColumnsBlankUntilApproval, NoBidStranded, SealedRowsAreListed,
         ColumnsFollowTheSeal, CommercialIsUnlocked

\* Every step keeps the invariant.
LEMMA NextInv == IInv /\ [Next]_vars => IInv'
<1> SUFFICES ASSUME IInv, [Next]_vars
             PROVE  IInv'
  OBVIOUS
<1>0. case \in Case
  BY DEF IInv, TypeOK
<1>1. ASSUME NEW v \in Suppliers, NEW r \in Rounds, NEW offer \in Offers,
             NEW mailed \in BOOLEAN, IngestQuotation(v, r, offer, mailed)
      PROVE  IInv'
  BY <1>1, IngestStep
<1>2. CASE RecomputeComparison
  BY <1>2, EvaluateStep DEF RecomputeComparison
<1>3. CASE EvaluateTechnical
  BY <1>3, EvaluateStep DEF EvaluateTechnical
<1>4. CASE ApproveTechnical
  <2>1. case' \in Case /\ case'.unlocked = TRUE
    BY <1>0, <1>4, UnlockedCase DEF ApproveTechnical
  <2> QED
    BY <1>4, <2>1, UnsealStep DEF ApproveTechnical
<1>5. CASE UnsealBids
  <2>1. case' \in Case /\ case'.unlocked = TRUE
    BY <1>0, <1>5 DEF UnsealBids, Case
  <2> QED
    BY <1>5, <2>1, UnsealStep DEF UnsealBids
<1>6. CASE EvaluateCommercial
  BY <1>0, <1>6, CaseStep DEF EvaluateCommercial
<1>7. CASE RecommendNegotiation
  <2>1. /\ case' \in Case
        /\ case'.unlocked = case.unlocked
    BY <1>0, <1>7, OpenedRoundCase DEF RecommendNegotiation, MayOpenNegotiation
  <2>2. case.unlocked
    BY <1>7 DEF RecommendNegotiation, MayOpenNegotiation, MayOpenRound
  <2> QED
    BY <1>7, <2>1, <2>2, CaseStep DEF RecommendNegotiation
<1>8. CASE RecommendPo
  <2> DEFINE moved == Transition(case, "PO_RECOMMENDATION")
  <2>1. moved \in Case /\ moved.unlocked = case.unlocked
    BY <1>0, TransitionCase DEF CaseStates
  <2> HIDE DEF moved
  <2>2. case' = case \/ case' = moved
    BY <1>8 DEF RecommendPo, moved
  <2>3. case.unlocked /\ UNCHANGED quotes /\ ranking' = RankedAfter(Candidates)
    BY <1>8 DEF RecommendPo
  <2> QED
    BY <1>0, <2>1, <2>2, <2>3, CaseStep
<1>9. CASE MoveCase
  <2>1. PICK s \in CaseStates \ {"COMMERCIAL_EVALUATION"} :
          /\ <<case.state, s>> \in DrivenTransitions
          /\ case' = Transition(case, s)
    BY <1>9 DEF MoveCase, CaseStates, TerminalStates
  <2>2. /\ case' \in Case
        /\ case'.state = s
        /\ case'.unlocked = case.unlocked
    BY <1>0, <2>1, TransitionCase
  <2>3. s \in CommercialStates => case.unlocked
    BY <2>1, DrivenIntoCommercial DEF IInv, CommercialIsUnlocked
  <2> QED
    BY <1>9, <2>2, <2>3, CaseStep DEF MoveCase
<1>10. ASSUME NEW v \in Suppliers, ApproveAward(v)
       PROVE  IInv'
  <2>1. /\ case' \in Case
        /\ case'.state = case.state
        /\ case'.unlocked = case.unlocked
    BY <1>0, <1>10, AwardedCase DEF ApproveAward
  <2> QED
    BY <1>10, <2>1, CaseStep DEF ApproveAward, IInv, CommercialIsUnlocked
<1>11. CASE UNCHANGED vars
  BY <1>11
     DEF vars, IInv, TypeOK, ColumnsBlankUntilApproval, NoBidStranded,
         CommercialIsUnlocked, SealedRowsAreListed, ColumnsFollowTheSeal,
         Listed, Priced, Exists
<1> QED
  BY <1>1, <1>2, <1>3, <1>4, <1>5, <1>6, <1>7, <1>8, <1>9, <1>10, <1>11
     DEF Next

-----------------------------------------------------------------------------
(* The theorems *)

\* The invariant holds of every behaviour.
LEMMA Invariance == Spec => []IInv
BY InitInv, NextInv, PTL DEF Spec

\* Every variable keeps its type: in particular no service drives a case
\* outside its state graph or a negotiation round past the limit.
THEOREM TypeCorrect == Spec => []TypeOK
<1>1. IInv => TypeOK
  BY DEF IInv
<1> QED
  BY Invariance, <1>1, PTL

\* The price columns of a sealed tender stay blank until the technical
\* approval: nothing that creates, judges, revises or re-reads a quotation
\* fills them before.  What is legible elsewhere (raw_extract, the mail) is
\* not claimed: PricesUnread fails.
THEOREM Sealing == Spec => []ColumnsBlankUntilApproval
<1>1. IInv => ColumnsBlankUntilApproval
  BY DEF IInv
<1> QED
  BY Invariance, <1>1, PTL

\* The approval leaves no envelope behind, and no offer whose prices the
\* ranking could not read.
THEOREM Unsealing == Spec => []NoBidStranded
<1>1. IInv => NoBidStranded
  BY DEF IInv
<1> QED
  BY Invariance, <1>1, PTL

\* No commercial work is done on a locked case.
THEOREM CommercialGate == Spec => []CommercialOnlyAfterApproval
<1>1. IInv => CommercialOnlyAfterApproval
  BY DEF IInv, CommercialIsUnlocked, CommercialOnlyAfterApproval
<1> QED
  BY Invariance, <1>1, PTL

\* What ingest_text stores carries no verdict on something else unless it
\* inherits one, and then the part numbers could not be compared or agree.
LEMMA VerdictOfARevision ==
  ASSUME NEW source \in Quotation, NEW offer \in Offers, NEW mailed \in BOOLEAN,
         Misjudged(Inherited(Received(offer, mailed), source))
  PROVE  LET row == Inherited(Received(offer, mailed), source)
         IN  /\ source.verdict = row.verdict
             /\ source.judged = row.judged
             /\ source.offer \in Parts => source.offer = row.offer
<1> USE DEF Row
<1> DEFINE new == Received(offer, mailed)
<1>1. ~Misjudged(new) /\ new.offer = offer
  BY DEF Misjudged, Received
<1>2. source.verdict # "UNKNOWN" /\ ~PartsChanged(source.offer, new.offer)
  BY <1>1 DEF Inherited
<1>3. Inherited(new, source) =
        [new EXCEPT !.verdict = source.verdict, !.judged = source.judged,
                    !.status = StatusOf(source.verdict)]
  BY <1>2 DEF Inherited
<1>4. /\ Inherited(new, source).verdict = source.verdict
      /\ Inherited(new, source).judged = source.judged
      /\ Inherited(new, source).offer = offer
  BY <1>3 DEF Received
<1> QED
  BY <1>1, <1>2, <1>4 DEF Misjudged, PartsChanged

\* A row that is not ingested keeps its offer, and its verdict unless it is
\* judged anew.
LEMMA VerdictsOfAStep ==
  ASSUME TypeOK, [Next]_vars, NEW v \in Suppliers, NEW r \in Rounds,
         Misjudged(quotes'[v][r])
  PROVE  \E s \in Rounds :
           /\ quotes[v][s].verdict = quotes'[v][r].verdict
           /\ quotes[v][s].judged = quotes'[v][r].judged
           /\ quotes[v][s].offer \in Parts
                => quotes[v][s].offer = quotes'[v][r].offer
<1> DEFINE Handed(s) ==
             /\ quotes[v][s].verdict = quotes'[v][r].verdict
             /\ quotes[v][s].judged = quotes'[v][r].judged
             /\ quotes[v][s].offer \in Parts
                  => quotes[v][s].offer = quotes'[v][r].offer
<1>1. quotes \in [Suppliers -> [Rounds -> Quotation]]
  BY DEF TypeOK
<1>2. ASSUME quotes'[v][r] = quotes[v][r] PROVE Handed(r)
  BY <1>2
<1>3. ASSUME NEW w \in Suppliers, NEW t \in Rounds, NEW offer \in Offers,
             NEW mailed \in BOOLEAN, IngestQuotation(w, t, offer, mailed)
      PROVE  \E s \in Rounds : Handed(s)
  <2>1. CASE w = v /\ t = r
    <3>1. CASE quotes' = [quotes EXCEPT ![w][t] = Received(offer, mailed)]
      <4>1. quotes'[v][r] = Received(offer, mailed)
        BY <1>1, <2>1, <3>1
      <4> QED
        BY <4>1 DEF Misjudged, Received, Row
    <3>2. ASSUME NEW s \in Rounds,
                 quotes' = [quotes EXCEPT
                   ![w][t] = Inherited(Received(offer, mailed), quotes[w][s])]
          PROVE  Handed(s)
      <4>1. /\ quotes'[v][r] = Inherited(Received(offer, mailed), quotes[v][s])
            /\ quotes[v][s] \in Quotation
        BY <1>1, <2>1, <3>2
      <4> QED
        BY <4>1, VerdictOfARevision
    <3> QED
      BY <1>3, <3>1, <3>2 DEF IngestQuotation
  <2>2. CASE w # v \/ t # r
    BY <1>1, <1>2, <1>3, <2>2 DEF IngestQuotation
  <2> QED
    BY <2>1, <2>2
<1>4. ASSUME NEW verdict \in [Suppliers -> {"YES", "NO"}],
             quotes' = Evaluated(verdict)
      PROVE  Handed(r)
  <2>1. CASE IsLatest(v, r)
    <3> DEFINE old == quotes[v][r]
    <3>1. quotes'[v][r] = [old EXCEPT !.verdict = verdict[v],
                                      !.judged = old.offer,
                                      !.status = StatusOf(verdict[v])]
      BY <1>4, <2>1 DEF Evaluated
    <3>2. old \in Quotation
      BY <1>1
    <3>3. quotes'[v][r].judged = old.offer /\ quotes'[v][r].offer = old.offer
      BY <3>1, <3>2 DEF Quotation
    <3> QED
      BY <3>3 DEF Misjudged
  <2>2. CASE ~IsLatest(v, r)
    BY <1>2, <1>4, <2>2 DEF Evaluated
  <2> QED
    BY <2>1, <2>2
<1>5. CASE quotes' = Unsealed
  <2>1. /\ quotes'[v][r].verdict = quotes[v][r].verdict
        /\ quotes'[v][r].judged = quotes[v][r].judged
        /\ quotes'[v][r].offer = quotes[v][r].offer
    <3>1. quotes'[v][r] = Opened(quotes[v][r])
      BY <1>5 DEF Unsealed
    <3>2. ASSUME NEW q \in Quotation
          PROVE  /\ Opened(q).verdict = q.verdict
                 /\ Opened(q).judged = q.judged
                 /\ Opened(q).offer = q.offer
      BY DEF Opened, Quotation
    <3> QED
      BY <1>1, <3>1, <3>2
  <2> QED
    BY <2>1
<1>6. CASE UNCHANGED quotes
  BY <1>2, <1>6
<1> QED
  BY <1>3, <1>4, <1>5, <1>6
     DEF Next, vars, RecomputeComparison, EvaluateTechnical, ApproveTechnical,
         UnsealBids, EvaluateCommercial, RecommendNegotiation, RecommendPo,
         MoveCase, ApproveAward

\* A verdict passes to other part numbers only across a quotation without
\* lines, however many revisions and rounds hand it on.
THEOREM VerdictsHandedOn == Spec => VerdictsKeepToTheirParts
<1>1. TypeOK /\ [Next]_vars =>
        [\A v \in Suppliers, r \in Rounds :
           Misjudged(quotes'[v][r]) =>
             \E s \in Rounds :
               /\ quotes[v][s].verdict = quotes'[v][r].verdict
               /\ quotes[v][s].judged = quotes'[v][r].judged
               /\ quotes[v][s].offer \in Parts
                    => quotes[v][s].offer = quotes'[v][r].offer]_vars
  BY VerdictsOfAStep
<1> QED
  BY <1>1, TypeCorrect, PTL DEF Spec, VerdictsKeepToTheirParts
=============================================================================
