--------------------------- MODULE TechnicalVerdict --------------------------
(***************************************************************************)
(* How a quotation is judged: what a supplier states becomes claims        *)
(* (QuotationIngestionService, SqlClaimRepository), claims and text become *)
(* answers and answers become assessments and a verdict                    *)
(* (TechnicalComparisonService, Requirement.evaluate, UnitConverter), and  *)
(* people accept deviations.  Whether the bids are sealed meanwhile is     *)
(* the matter of SealedBids, which takes the verdict as given.             *)
(*                                                                         *)
(* A session is one step: the database is SERIALIZABLE.  The sequences     *)
(* hold the quotations of all negotiation rounds as they came; refusals to *)
(* quote and rounds named by hand are the matter of SealedBids.            *)
(***************************************************************************)
EXTENDS Integers, Sequences, FiniteSets

CONSTANTS Suppliers,
          Requirements,   \* keys of the requirements in force
          Req,            \* what each demands
          Unit,           \* the units the converter knows
          Attachments,    \* stored document versions quotations come in
          Documents,      \* quotations: their text and their attachment
          ModelFinds,     \* values the language model may report
          MaxQuotations,  \* bound: quotations received
          MaxAccepted     \* bound: deviations accepted

\* Answers: words, and the first number among them with its unit; no unit is
\* the unit of the requirement.
Number == -1000..1000
NoNumber == 1001
NoUnit == ""
NoAttachment == "in the letter"
Silent == [words |-> "", number |-> NoNumber, uom |-> NoUnit]

Answer == [words : {"", "yes", "no", "other"},
           number : Number \cup {NoNumber}, uom : STRING]

\* What a quotation says of a requirement.  keyed: under the requirement's own
\* key; else where the attachment mentions it.
Said == [keyed : BOOLEAN, answer : Answer]

Document == [file : Attachments \cup {NoAttachment},
             says : [Requirements -> Said]]

\* An absent limit is NoNumber; allowed: the words a ONE_OF accepts.
Demand == [op : {"GTE", "LTE", "EQ", "RANGE", "TOLERANCE", "BOOLEAN",
                 "ONE_OF", "PRESENT"},
           low : Number \cup {NoNumber}, high : Number \cup {NoNumber},
           uom : STRING, allowed : SUBSET {"yes", "no", "other"},
           mandatory : BOOLEAN]

\* One of a unit is scale of its base, plus offset for temperatures.
UnitDefinition == [dimension : STRING, scale : Nat \ {0}, offset : Int]

ASSUME VerdictAssumption ==
  /\ Req \in [Requirements -> Demand]
  /\ \A u \in DOMAIN Unit : Unit[u] \in UnitDefinition
  /\ NoUnit \in STRING \ DOMAIN Unit
  /\ Documents \subseteq Document
  /\ ModelFinds \subseteq Answer \ {Silent}
  /\ MaxQuotations \in Nat
  /\ MaxAccepted \in Nat

VARIABLES quotes,    \* the quotations of each supplier, the oldest first
          accepted   \* deviations accepted so far

verdictVars == <<quotes, accepted>>

Statuses == {"COMPLIANT", "NON_COMPLIANT", "DEVIATION", "NOT_ADDRESSED",
             "UNVERIFIABLE"}

Assessment == [status : Statuses, answer : Answer, accepted : BOOLEAN]

\* rows: assessments of the quotation, once it was evaluated itself.
Quotation == [text : Documents, verdict : {"UNKNOWN", "YES", "NO"},
              rows : [Requirements -> Assessment] \cup {<<>>}]

VerdictTypeOK ==
  /\ quotes \in [Suppliers -> Seq(Quotation)]
  /\ \A v \in Suppliers : \A i \in DOMAIN quotes[v] :
       quotes[v][i].rows # <<>> => quotes[v][i].verdict # "UNKNOWN"
  /\ accepted \in 0..MaxAccepted

VerdictInit ==
  /\ quotes = [v \in Suppliers |-> <<>>]
  /\ accepted = 0

Newest(v) == Len(quotes[v])

Received == {q \in Suppliers \X (1..MaxQuotations) : q[2] <= Newest(q[1])}

-----------------------------------------------------------------------------
(* A quotation arrives *)

\* ingest_text with _inherit_technical_result: unless the part numbers have
\* changed, a revision takes the verdict of the quotation before it.
IngestQuotation(v, text, changed) ==
  LET n == Newest(v)
      verdict == IF n = 0 \/ changed THEN "UNKNOWN" ELSE quotes[v][n].verdict
  IN /\ Cardinality(Received) < MaxQuotations
     /\ quotes' = [quotes EXCEPT ![v] =
          Append(@, [text |-> text, verdict |-> verdict, rows |-> <<>>])]
     /\ UNCHANGED accepted

-----------------------------------------------------------------------------
(* Answers *)

\* _record_claims: every quotation claims what it says under a key.
Claims(v, r) ==
  {i \in DOMAIN quotes[v] : LET said == quotes[v][i].text.says[r]
                            IN said.keyed /\ said.answer # Silent}

\* _find_superseded: a claim gives way to a later one out of the same stored
\* document only.
Claimed(v, r) ==
  {i \in Claims(v, r) :
     LET file == quotes[v][i].text.file
     IN file # NoAttachment =>
          \A j \in Claims(v, r) : j > i => quotes[v][j].text.file # file}

AnswerOf(v, i, r) == quotes[v][i].text.says[r].answer

\* The oldest: claims come the newest first and each replaces the one before.
Kept(claims) == CHOOSE i \in claims : \A j \in claims : i <= j

\* _find_in_text: what the attachment of the quotation judged says.
InAttachment(v, r) ==
  IF quotes[v][Newest(v)].text.file = NoAttachment THEN Silent
  ELSE AnswerOf(v, Newest(v), r)

\* _model_extract: asked of an attachment only.
FoundByModel(v, found) ==
  IF quotes[v][Newest(v)].text.file = NoAttachment THEN Silent ELSE found

\* _collect_answers.  Without a claim the attachment is searched, and at last
\* the model asked.
Collected(v, r, found) ==
  IF Claimed(v, r) # {} THEN AnswerOf(v, Kept(Claimed(v, r)), r)
  ELSE IF InAttachment(v, r) # Silent THEN InAttachment(v, r)
  ELSE FoundByModel(v, found)

-----------------------------------------------------------------------------
(* Evaluation *)

\* The number in the base unit of its dimension.
InBase(n, u) == n * Unit[u].scale + Unit[u].offset

\* UnitConverter without alternate units; packaging has no common measure.
Convertible(a, b) ==
  /\ a \in DOMAIN Unit /\ b \in DOMAIN Unit
  /\ Unit[a].dimension = Unit[b].dimension
  /\ Unit[a].dimension # "PACKAGING"

\* Faulty variant: numbers are compared whatever their units.
LessUnconverted(n, u, m, w) == n < m

\* Whether n in unit u is less than m in unit w: units that are the same need
\* not be known to the converter, and no unit fits any.
Less(n, u, m, w) ==
  IF u = w \/ NoUnit \in {u, w} THEN n < m ELSE InBase(n, u) < InBase(m, w)

UnitOf(a, d) == IF a.uom = NoUnit THEN d.uom ELSE a.uom

\* A number whose unit is not that of the requirement and not convertible.
Incomparable(a, d) ==
  /\ a.number # NoNumber
  /\ d.uom # NoUnit
  /\ UnitOf(a, d) # d.uom
  /\ ~Convertible(UnitOf(a, d), d.uom)

Below(a, d) == d.low # NoNumber /\ Less(a.number, UnitOf(a, d), d.low, d.uom)

Above(a, d) == d.high # NoNumber /\ Less(d.high, d.uom, a.number, UnitOf(a, d))

OfNumber(a, d) ==
  IF a.number = NoNumber THEN "UNVERIFIABLE"
  ELSE IF Below(a, d) THEN "NON_COMPLIANT"
  ELSE IF Above(a, d)
  THEN IF d.op = "EQ" THEN "DEVIATION" ELSE "NON_COMPLIANT"
  ELSE "COMPLIANT"

OfWords(a, d) ==
  IF d.op = "PRESENT" THEN "COMPLIANT"
  ELSE IF d.op = "BOOLEAN"
  THEN CASE a.words = "yes" -> "COMPLIANT"
         [] a.words = "no" -> "NON_COMPLIANT"
         [] OTHER -> "UNVERIFIABLE"
  ELSE IF a.words \in d.allowed THEN "COMPLIANT" ELSE "NON_COMPLIANT"

\* Requirement.evaluate.
Evaluated(a, d) ==
  IF a = Silent THEN "NOT_ADDRESSED"
  ELSE IF Incomparable(a, d) THEN "UNVERIFIABLE"
  ELSE IF d.op \in {"PRESENT", "BOOLEAN", "ONE_OF"} THEN OfWords(a, d)
  ELSE OfNumber(a, d)

\* Faulty variant: a row is written anew.
AssessedAnew(old, a, d) ==
  [status |-> Evaluated(a, d), answer |-> a, accepted |-> FALSE]

\* upsert: a row that is there keeps what was accepted, whatever the answer
\* is now.
Assessed(old, a, d) ==
  [status |-> Evaluated(a, d), answer |-> a, accepted |-> old.accepted]

NewAssessment ==
  [status |-> "NOT_ADDRESSED", answer |-> Silent, accepted |-> FALSE]

Met(row) == row.status = "COMPLIANT" \/ row.accepted

\* Every mandatory requirement is met; with none everyone qualifies.
Qualified(rows) ==
  IF \A r \in Requirements : Req[r].mandatory => Met(rows[r])
  THEN "YES" ELSE "NO"

\* _evaluate_supplier, given the answers.
Judged(q, answers) ==
  LET rows == [r \in Requirements |->
                 Assessed(IF q.rows = <<>> THEN NewAssessment ELSE q.rows[r],
                          answers[r], Req[r])]
  IN [q EXCEPT !.rows = rows, !.verdict = Qualified(rows)]

\* evaluate_case, by the workflow or when somebody asks for the comparison to
\* be recomputed: the newest quotation of every supplier.  What the model
\* finds may be another value each time, or none.
Evaluate ==
  \E finds \in [Suppliers -> [Requirements -> ModelFinds \cup {Silent}]] :
    /\ quotes' = [v \in Suppliers |->
         IF Newest(v) = 0 THEN <<>>
         ELSE [quotes[v] EXCEPT ![Newest(v)] =
                 Judged(@, [r \in Requirements |->
                              Collected(v, r, finds[v][r])])]]
    /\ UNCHANGED accepted

\* The person signs the deviation in the row of the requirement.
Signed(q, r) == [q EXCEPT !.rows[r].accepted = TRUE]

\* approve_deviation: of any assessment there is, also of an earlier revision
\* or one that complies.  The verdict waits for the next evaluation.
AcceptDeviation(v, i, r) ==
  /\ quotes[v][i].rows # <<>>
  /\ accepted < MaxAccepted
  /\ quotes' = [quotes EXCEPT ![v][i] = Signed(@, r)]
  /\ accepted' = accepted + 1

-----------------------------------------------------------------------------
(* The system *)

VerdictNext ==
  \/ \E v \in Suppliers, text \in Documents, changed \in BOOLEAN :
       IngestQuotation(v, text, changed)
  \/ Evaluate
  \/ \E v \in Suppliers : \E i \in DOMAIN quotes[v], r \in Requirements :
       AcceptDeviation(v, i, r)

VerdictSpec == VerdictInit /\ [][VerdictNext]_verdictVars

-----------------------------------------------------------------------------
(* Properties *)

Mandatory == {r \in Requirements : Req[r].mandatory}

\* What it means that an answer fits, told without the evaluation: the words
\* are the wanted ones, or the number lies in the band on a common scale, the
\* base unit where both units are known and the number as it is elsewhere.
Scaled(n, u, other) ==
  IF {u, other} \subseteq DOMAIN Unit THEN InBase(n, u) ELSE n

Comparable(a, d) ==
  \/ a.uom \in {NoUnit, d.uom}
  \/ d.uom = NoUnit
  \/ /\ {a.uom, d.uom} \subseteq DOMAIN Unit
     /\ Unit[a.uom].dimension = Unit[d.uom].dimension

Fits(a, d) ==
  CASE d.op = "PRESENT" -> a # Silent
    [] d.op = "BOOLEAN" -> a.words = "yes"
    [] d.op = "ONE_OF" -> a.words \in d.allowed
    [] OTHER ->
         LET unit == UnitOf(a, d)
             offered == Scaled(a.number, unit, d.uom)
         IN /\ a.number # NoNumber
            /\ Comparable(a, d)
            /\ d.low # NoNumber => offered >= Scaled(d.low, d.uom, unit)
            /\ d.high # NoNumber => offered <= Scaled(d.high, d.uom, unit)

\* A supplier qualified by an evaluation is one whose answer to every
\* mandatory requirement fits on a common scale, or whose deviation a person
\* accepted: silence, words where a number is due, a foreign unit never pass,
\* wherever the answer was found.
QualifiedIsProven ==
  \A v \in Suppliers : \A i \in DOMAIN quotes[v] :
    quotes[v][i].rows # <<>> /\ quotes[v][i].verdict = "YES" =>
      \A r \in Mandatory : LET row == quotes[v][i].rows[r]
                           IN row.accepted \/ Fits(row.answer, Req[r])

\* Evaluating again disqualifies nobody who was qualified, unless over a
\* requirement that only the model had found an answer to: what was claimed
\* stays claimed and what was accepted stays accepted.
VerdictStands ==
  [][\A v \in Suppliers : \A i \in DOMAIN quotes[v] :
       /\ quotes[v][i].rows # <<>>
       /\ quotes[v][i].verdict = "YES"
       /\ quotes'[v][i].verdict = "NO"
       => \E r \in Mandatory :
            /\ ~quotes[v][i].rows[r].accepted
            /\ Claims(v, r) = {}
            /\ quotes[v][i].rows[r].answer \in ModelFinds]_verdictVars

-----------------------------------------------------------------------------
(* What the documents and comments say and the code does not keep: each of   *)
(* these fails.                                                              *)

\* A revision is judged by what it answers itself.
JudgedByOwnAnswer ==
  \A v \in Suppliers : \A i \in DOMAIN quotes[v] :
    quotes[v][i].rows # <<>> =>
      \A r \in Requirements :
        quotes[v][i].text.says[r].keyed =>
          quotes[v][i].rows[r].answer = AnswerOf(v, i, r)

\* "becomes arithmetic rather than an opinion": without news the verdict is
\* the same again.
VerdictIsReproducible ==
  [][\A v \in Suppliers : \A i \in DOMAIN quotes[v] :
       /\ quotes[v][i].rows # <<>>
       /\ quotes'[v][i].verdict # quotes[v][i].verdict
       => \E r \in Requirements : quotes[v][i].rows[r].accepted]_verdictVars

\* "inherits the technical verdict": a revision that repeats what was judged,
\* and has inherited the verdict, is not disqualified by a recomputation.
InheritedVerdictStands ==
  [][\A v \in Suppliers : \A i \in DOMAIN quotes[v] :
       /\ quotes[v][i].verdict = "YES"
       /\ \A j \in 1..(i - 1) : quotes[v][j].text = quotes[v][i].text
       /\ \A r \in Requirements : quotes[v][i].text.says[r].keyed
       => quotes'[v][i].verdict = "YES"]_verdictVars

\* "Accept a specific technical deviation": what is accepted is the answer the
\* person was shown, and another one counts again.
AcceptedAsSeen ==
  [][\A v \in Suppliers : \A i \in DOMAIN quotes[v] :
       quotes[v][i].rows # <<>> => \A r \in Requirements :
         /\ quotes[v][i].rows[r].accepted
         /\ quotes'[v][i].rows[r].answer # quotes[v][i].rows[r].answer
         => ~quotes'[v][i].rows[r].accepted]_verdictVars
=============================================================================
