# ProcureGuard: specifications and proofs

TLA+ models of the procurement automation in `procureguard/`, the TLC
configurations that check them on small instances, and TLAPS proofs of the
properties that matter most for every instance. Source references are to files
of the repository; `PROJECT.json` ties every definition to the lines it stands
for, every property to the run that checks it and to a faulty variant of the
code it catches.

## The system

A *sourcing case* is taken from a purchase requisition to a placed order. A
durable Temporal workflow decides when the next activity may run and waits for
people; people decide through an HTTP API; suppliers answer by mail. All of
them read and write one database (CockroachDB, serializable), each in sessions
of their own: an activity opens one (`with_context`), a request has one
(`get_db`), the scenario runner has its own.

| Component | State it keeps | Operations | Talks to |
| --- | --- | --- | --- |
| Case and policy (`domain/`) | state, lock on prices, awardee, negotiation round, reminder counters | `transition`, `unlock_commercial`, `record_award_approval`, `open_negotiation_round`, the `may_…` checks | read and saved by everything |
| Quotations to ranking (`quotation_ingestion`, `technical_comparison`, `commercial_normalization`, `bid_ranking`) | quotation rows with envelope, verdict and status; rankings | ingest, inherit a verdict, evaluate, unseal, normalise, rank | case, RFQ invitations, mailroom |
| Negotiation, award, order (`negotiation`, `po_recommendation`, approval routes) | rounds, approvals, PO recommendations | plan, approve, send and close a round; sign and record the award; recommend; release | case, ranking, mailroom, workflow |
| RFQ (`rfq_service`, `supplier_shortlist`, shortlist routes) | candidates, packages, invitations | select, build, release, send, remind, close | case, mailroom |
| Mailroom | communication rows, idempotency keys, marks in the mailbox | send, release a held letter, receive, match, classify, poll | mail provider, mailbox, invitations, quotations |
| Workflow (`workflows/`) | its place, what it was signalled | activities, gates, cancellation, failure | everything, through activities |
| Persistence (`infrastructure/db`) | the rows, versions of cases, row objects of a session | load, save with version check, commit, retry | everything |
| Delivery reminders (`repo_core`, `_expedite`) | one table of reminders per tenant | schedule, read a page of what is due, send, cancel | order, mailroom, workflow |
| Intake and documents (`pr_intake`, `document_ingestion`, `requirements`) | requisitions, document versions, requirement rows | open a case, file a version, quarantine, extract, replace | case, evaluation |
| Evaluation (`technical_comparison`, `entities`, `units`) | claims, assessments, accepted deviations | record claims, collect answers, compare, judge | quotations, requirements |
| Master data (`material_master`, `history_service`, `supplier_shortlist`, info records) | stages, benchmarks, shortlist rows, info records and proposals | validate, benchmark, choose, override, rebuild, propose, apply | RFQ, award |
| API, UI, authentication, firewall, adapters, seed | sessions, nothing of the case | | |

### What is hard

* **Activities are executed at least once.** They commit, the answer is lost,
  and they are executed again on a case that has moved; without heartbeats two
  executions may overlap. Mail leaves in the middle of their transaction.
* **People act at any time.** No route asks where the workflow is, and few ask
  where the case is: comparisons are recomputed, letters released, awards
  signed, orders released in any state.
* **The workflow knows signals, the database knows decisions.** A signal may be
  lost, or arrive for a decision made long before.
* **Rows are found by "latest".** Latest revision, latest round, latest ranking,
  newest invitation: each query has its own idea, and rows arrive out of order.
* **Derived facts are stored.** A verdict is inherited, the completeness of a
  chain is stored with the order, the status of an invitation is overwritten.
* **A session is not the database.** The version of a case is compared with the
  session's own row object; a failed flush takes the rows of a whole batch with
  it, while marks in the mailbox and letters stay.
* **One table serves everybody.** Reminders of all cases share a page; bytes and
  keys are known to the whole tenant.
* **Timeouts** end loops through exceptions.

`PROJECT.json` lists these hazards line by line, each with the properties that
would catch it going wrong.

### What makes each part correct

* Sealed bids: no price in the columns before the technical approval, no
  envelope left behind after it; a refusal is no offer; a verdict is on what is
  offered; nobody who passed is dropped.
* Award: an order only on a signed award, released only on a complete chain;
  rounds only under an approval; the awardee does not change under the order.
* RFQ: nothing leaves before its release; no more invitations than allowed;
  nobody who answered is chased.
* Mail: nothing by accident; nothing twice and nothing forgotten, in both
  directions, but for what a fault or an overlap accounts for.
* Workflow: every stage stands on a decision, it always comes to rest, and what
  it reports is true of the case.
* Persistence: the case is the outcome of whole calls, and what was answered is
  there.
* Reminders: a cancelled case is left in peace, a completed one has none due.
* Requirements: what was read is demanded, and every requirement ever made can
  still be looked up as it was.
* Evaluation: whoever is qualified has proved it, and keeps it.
* Master data: one price in force of those awards have written back per key; people's decisions on a
  shortlist outlive the agent's.

## Modules

| Module | Models | Composition |
| --- | --- | --- |
| `SourcingCase` | the case and its policy, as operators without variables | extended by the others |
| `SealedBids` | quotations from receipt to ranking | |
| `AwardDesk` | negotiation, award and order; whether a signature completes the chain is left open | abstract specification of `AwardChain` |
| `AwardChain` | the chain of signatures in detail | refines `AwardDesk` (`Desk`, `ImplementsDesk`) |
| `RfqDesk` | shortlist to closed quote window | |
| `Outbox` | how letters leave, inside an activity that is retried | what `RfqDesk` takes for granted of mail |
| `ProcurementWorkflow` | the workflow beside the people | checks what the others assume of it (`CaseMovesAsAssumed`) |
| `Inbox` | mail that comes in: the mailbox, polling and pushing sessions, rows, quotations read from them | its quotations are what `SealedBids` receives, its replies what `RfqDesk` sees as answers |
| `DeliveryReminders` | the schedule after the order and the loop that works it off | extends `SourcingCase`; mail as in `Outbox` |
| `AtomicCase` | what the repository promises: whole calls, one after the other | abstract specification of `CaseStore` |
| `CaseStore` | sessions with row objects, versions, aborts and retries | refines `AtomicCase` (`Promise`, `ImplementsAtomicCase`); what all others take for granted when a session is one step |
| `CaseFile` | requisitions, document versions, requirements read from them | its requirements are what `TechnicalVerdict` judges by |
| `TechnicalVerdict` | claims, answers, evaluation, verdicts, accepted deviations | the verdict `SealedBids` takes as given |
| `SourcingBasis` | validation, benchmark, shortlist, info records | its shortlist is what `RfqDesk` invites, its prices come from the awards of `AwardDesk` |
| `Mail_proofs` | theorems about `Outbox`, `Inbox` and `DeliveryReminders` | |
| `CaseRecords_proofs` | theorems about `CaseStore`, `CaseFile`, `SourcingBasis` and `TechnicalVerdict` | |
| other `…_proofs` | theorems about the module of that name | |
| `MC…` | the module on small instances: symmetry, roles | |

**How state corresponds.** `case` is a record of `SourcingCase`'s state, lock,
awardee and round. `quotes[v][r]` is the newest row of supplier `v` in round
`r`; `Decline` and `NoLines` stand for a refusal and for a quotation without
readable lines, all other offers are told apart by their part. `legible` says where the
prices of a row can be read: in its columns and lines, in `raw_extract`, in the
mail it came in. `rounds`,
`orders`, `signatures` and `rfqs` are sequences of rows in the order they were
created. `row` and `holder` in `Outbox` separate what is committed from what an
open transaction has inserted, and `begun`, `current`, `spoiled` and `outcome`
are Temporal's side of the activity: the attempts it started, the one it listens
to, those it heard fail or not in time, and what the workflow is told; `Inbox` does the same with `mailRow` and a session's
`mine`, and `box` is the mailbox, where a mark is not undone; `crossed` are the sessions
another one ran beside, `spilt` the messages whose rows were rolled back for that
or for a fault, both bookkeeping for `LossIsAccounted`. In `CaseStore` a
call holds `row`, the session's row object, beside `base`, the committed row it
came from, and the case is the sequence of changes made to it. `status` in
`DeliveryReminders` has one entry per row that an execution of the scheduling
activity may write. `rows` in `CaseFile` holds requirement rows, active or not;
`quotes` in `TechnicalVerdict` a supplier's quotations as they came, each with
its text, verdict and assessments; `book` in `SourcingBasis` the info records in
the order they were created. `wf` is what `ProcurementWorkflowState` and the
program counter of `run` hold.

**How actions correspond.** One action per activity, route or service call that
changes state, with everything the session does before it commits: sessions are
serializable, so a session is a step. The exceptions are where the code leaves
its transaction or the database shows through: the letters of one activity are
steps of their own in `Outbox`; a batch of mail is taken message by message in `Inbox`,
because marks are made in between; an attempt of `DeliveryReminders` reads and
commits in two steps, so that two may conflict; `CaseStore` is about sessions
and has every statement of theirs; and the cancel request, which signals before it
commits, is two in `ProcurementWorkflow`. An action of an activity that can be
executed again leaves the workflow where it was as one of its outcomes.

**The rest of the system.** Each component module has the actions of others on
the state it shares: `MoveCase` and `UnlockCase` let the case move along
`DrivenTransitions`, the transitions some caller makes. `ProcurementWorkflow`,
which has the callers, checks that they move it no other way.

**Faulty variants.** Definitions commented "Faulty variant" are not part of any
specification. Each is a plausible mistake in the definition below it, and the
property named for it in `PROJECT.json` fails when it takes that definition's
place.

## Runs

Deadlock is checked except where the system may stop: in `AwardChain`, whose
signatures and orders are bounded so that a cancelled case has no step left, in
`Outbox`, where the activity has ended and every held letter has left, in `ProcurementWorkflow`, where a finished
case and a finished workflow rest, in `Inbox`, where all mail may be worked off,
in `CaseStore`, where every call has been made, in `DeliveryReminders`, when the
calendar has ended, and in `CaseFile`, `SourcingBasis` and `TechnicalVerdict`,
whose documents, edits and quotations are bounded.

| Run | Shows | Bounds and why they are enough |
| --- | --- | --- |
| `SealedBids` | `ColumnsBlankUntilApproval`, `NoBidStranded`, `CommercialOnlyAfterApproval`, `VerdictsKeepToTheirParts` | one supplier, since no row refers to another supplier's; two part numbers, a round and one round ahead: inheritance looks at one earlier row, and two rounds give it one; quotations come by mail or are entered by hand |
| `AwardDesk` | `OrderedOnlyWhenAwarded`, `PlacedOrderIsReleased`, `RoundsAreAuthorised`, `AwardIsSettled` | two rounds give an approval of an earlier one, two orders a repeated activity |
| `AwardChain` | `ReleasedOrderIsCovered`, `SignaturesAreNotUndone`, `ImplementsDesk` | two suppliers and one person per role; two signatures, the length of the chain for values below the executive tier |
| `RfqDesk` | `NothingOutBeforeRelease`, `SomebodyWasAsked`, `InvitationsAreBounded` | two packages are what one repeated execution leaves; one supplier more than may be invited |
| `Outbox` | `CopiesAreAccounted`, `NothingSentByAccident`, `AcknowledgedIsRecorded`, `ExhaustedForAReason`, `ActivityEnds` | both settings of automated sending (`autoSend` is fixed by `Init`); three attempts instead of the five of `STANDARD_RETRY`: one that runs on, one that meets its key, one more; any number of them may fail or fall silent; two letters give one before and one after a failure; two clerks race for a letter, and one release fails |
| `ProcurementWorkflow` | `StagesFollowDecisions`, `CompletedHasOrder`, `CaseMovesAsAssumed`, `ComesToRest` | two faults: a lost answer and a lost signal, or a failed activity, in one run; two rounds |
| `Inbox` | `LossIsAccounted`, `QuotedOnceAlone` | a page of two and three messages: one page does not hold them all; two listed in one attachment; one message out of the ordinary at a time (`MaxOdd`); a poller and a request that pushes overlap; one fault is a crash, a failed commit or a failed marking |
| `DeliveryReminders` | `CompletedLeftNothingDue`, `CancelledIsNotChased` | two cases and a page of one, so that one case's reminders fill it; two attempts, one of them lost; a reminder before the delivery date and one after it, for every delivery date of the calendar |
| `CaseStore` | `ChangesAreNotRepeated`, `ImplementsAtomicCase` | one caller of each kind (made once, attempted again by Temporal, retried by `run_in_transaction`); one of them makes two changes; two faults. The version check of `save` refuses nothing here, because the session answers with its own row object: it bites only where intake brings a fresh case, which is in `CaseFile` (`MayOpen`) |
| `CaseFile` | `NothingReadIsWeakened`, `RequirementsResolve`, `MovedCaseIsKept` | three requisitions, two of whose numbers yield one case id and one whose number is made from the month, and a case id a request may name; a drawing, a suspect document and one in which the parser finds nothing, so that extractions may find different things and replace each other; a supplement by the model that is more demanding and less sure and begins with an entry that is passed over; two months, one transition |
| `SourcingBasis` | `PricesFollowAwards`, `AgentKeepsToTheLimit`, `PersonsRowsStay` | two cases for one material, the second without a specification; three vendors for a list of two, one of them with a record for the plant and one for every plant, one with a foreign currency, one without a rate, one whose standing changes; one edit and two drafted awards, so that a proposal is applied after another |
| `TechnicalVerdict` | `QualifiedIsProven`, `VerdictStands` | one supplier, since no row refers to another's; three quotations are what it takes for a claim to be superseded and contradicted; a range with two scales of length, a foreign dimension, a temperature with an offset, a word; two accepted deviations |

The type invariants are not among the runs' properties: each is part of the
inductive invariant of its module and proved with it.

### Statements that fail

The documents, comments and tests say more than the code keeps. What they say is
stated in the module concerned, under "What the documents and comments say and
the code does not keep"; naming it as the property of the module's configuration
shows the behaviour. No run is kept for these.

| Statement | Code | What happens |
| --- | --- | --- |
| `SealedBids!PricesUnread` | `application/quotation_ingestion.py:200` | `docs/security.md:45-46`, "nobody … reads a supplier's prices before the technical evaluation is approved", and the comment at line 248, "nothing priced is written in clear": the row of a sealed quotation holds the parsed quotation, totals and charges included, in `raw_extract` (`quotation_parser.py:92-114`), and the mail of the offer is shown to whoever may read the case (`api/routes/operations.py:206-230`). What is sealed are the columns and lines (`ColumnsBlankUntilApproval`) |
| `SealedBids!RefusalIsNotListed` | `application/quotation_ingestion.py:315` | "Carry a prior technical verdict onto a price revision": a refusal has no part numbers, inherits a verdict too, and with it a status that lists it as an offer |
| `SealedBids!VerdictIsOnWhatIsOffered` | `application/quotation_ingestion.py:315` | a revision without lines carries a verdict on to a changed part number |
| `SealedBids!QualifiedOfferIsRanked` | `application/commercial_normalization.py:208` | a quotation ahead of the case's round is the supplier's latest and is ranked nowhere |
| `AwardDesk!OrderGoesToTheAwardee` | `workflows/activities/__init__.py:573` | `docs/security.md:86-87`, approvals in the database "are authoritative": the order follows the first award signal, the case the last award |
| `AwardDesk!RoundSentUnderItsOwnApproval` | `application/negotiation.py:226` | round 2 is sent under the approval of round 1 |
| `AwardDesk!RecommendedOnlyAtTheGate` | `application/po_recommendation.py:90` | `may_recommend_po` is never called |
| `AwardChain!SecondApprover` | `domain/policies.py:289` | `config.py:127`, "a second approver is mandatory": one person signs twice |
| `AwardChain!CoveredMeansSatisfied` | `domain/policies.py:289` | signatures are consumed greedily: a head who signs before a category manager is used up by the first step |
| `AwardChain!EveryStepHasASigner` (`ScenarioRunner = FALSE`, `MinSuppliers = 2`) | `domain/policies.py:269` | no route records the `SINGLE_SOURCE` approval the chain asks for |
| `AwardChain!OrderFollowsAward` | `application/po_recommendation.py:414` | award and order count different deviations |
| `RfqDesk!ReleasedPackageIsTheOneSent` | `api/routes/approvals.py:99` | `docs/security.md:79`: a repeated activity leaves two packages of revision 1, and the one that leaves may not be the one released |
| `RfqDesk!NoReminderAfterQuote` | `workflows/activities/__init__.py:279` | sending again sets answered invitations back to `SENT` |
| `RfqDesk!NoReminderAfterRefusal` | `application/mailroom.py:567` | a refusal by mail is taken for a question and the supplier is chased |
| `Outbox!NothingSentTwice` (attempts) | `workflows/activities/base.py:50` | `docs/architecture.md:74-75`, "cannot double-send": the claim is rolled back with the transaction and the retry mails again |
| `Outbox!NothingSentTwice` (two clerks) | `application/mailroom.py:276` | a release claims no key and sends before it writes |
| `ProcurementWorkflow!QuoteWindowIsHeld` | `workflows/procurement.py:306` | lines 271-272, "bounded by the quote window": the timeout of one wait is not caught and ends the workflow |
| `ProcurementWorkflow!AwardGateIsOpen` | `workflows/procurement.py:227` | without negotiation nobody opens the award gate |
| `ProcurementWorkflow!ApprovalIsActedOn` | `api/temporal_client.py:55` | a lost signal is never sent again |
| `ProcurementWorkflow!CompletedMeansCompleted` | `workflows/activities/__init__.py:711` | finalising skips a case whose order was not released, and the workflow reports `COMPLETED` |
| `Inbox!NoReplyIsLost` | `application/mailroom.py:586` | marked as read, and the batch is rolled back |
| `Inbox!KnownIsIgnored` | `application/mailroom.py:367` | a message known already (`inbound_duplicate_ignored`) is classified as what it was, and its quotation is read again |
| `Inbox!HeldBackIsNotQuoted` | `application/mailroom.py:374` | what the firewall held back counts as not held back when it is met again, and is read as an offer |
| `DeliveryReminders!EveryReminderFires` | `workflows/procurement.py:389` | the loop ends on the first day nothing is due, and its wait for the next day raises a timeout nothing catches (under `ChaseFairSpec`, `Cases = {c1}`) |
| `DeliveryReminders!CancelledIsOffSchedule` | `infrastructure/db/repo_core.py:545` | an order scheduled by an activity that ran beside the cancellation keeps its reminders |
| `CaseStore!ContentionIsRetried` | `infrastructure/db/retry.py:49` | `docs/architecture.md:83-85`: requests of people are not made through `run_in_transaction` |
| `CaseFile!OneCasePerDocument` | `application/pr_intake.py:236` | a requisition without number gets another number, and case, next month |
| `CaseFile!FiledWhereItWasSent` | `infrastructure/db/repo_evidence.py:69` | known bytes stay in the case they were filed in first |
| `CaseFile!QuarantineLasts` | `application/requirements.py:94` | the next version turns its `QUARANTINED` into `SUPERSEDED`, and with that it is read |
| `CaseFile!ReplacementIsNotRefused` | `infrastructure/db/repo_sourcing.py:204` | lines 199-203, "Deactivate superseded requirements rather than deleting them", and extraction on demand (`api/routes/cases.py:392-400`): `uq_requirement_key` (`models.py:901`) also covers the rows out of force, keys are counted from 1 in every extraction, and one that meets a key of an earlier one is rolled back. A replacement succeeds only where no key is met again: the first extraction found nothing, or the later one finds nothing and leaves the case without any requirement in force |
| `CaseFile!SurestIsKept` | `application/requirements.py:382` | the docstring of `_dedupe`, "keeping the highest-confidence statement", against the comment in it (line 395) and the code: the more binding statement wins, however unsure. `NothingReadIsWeakened` states what the comment says |
| `CaseFile!CaseHasItsNumber` | `application/pr_intake.py:231` | two numbers that yield one case id: the case of one, the requisition of the other |
| `SourcingBasis!ResolvedCodeIsSourced` (`Cases = {c3}`) | `application/material_master.py:240` | the line keeps the code as typed, and nothing is found under it |
| `SourcingBasis!BlockedIsNotChosen` (`Fixed <- MCApproved`, `Fallible = {v1}`) | `application/supplier_shortlist.py:320` | a fixed source is chosen although it is blocked |
| `SourcingBasis!OverrideStands` | `infrastructure/db/repo_sourcing.py:264` | a rebuild selects again what a person had dropped |
| `SourcingBasis!ManualSourcingCounts` (`Cases = {c3}`) | `workflows/procurement.py:147` | a case with a supplier added by hand fails when the agent finds none |
| `SourcingBasis!FreeTextCanBeBought` (`Cases = {c4}`) | `application/material_master.py:190` | a free-text line with a specification finds no supplier |
| `SourcingBasis!TargetIsNotBelowPaid` | `application/history_service.py:432` | the floor is the least of percentile, lowest price and price curve, and the curve may lie below any price paid |
| `SourcingBasis!TargetSaves` (`Prices = {5}`) | `application/history_service.py:432` | the target may lie above the price in force |
| `SourcingBasis!ReferenceIsConverted` | `application/history_service.py:400` | lines 359-361, "it is converted before it can influence a target price", and `docs/architecture.md:109`: where no rate is on file the amount stays as it is, and the cheapest record is chosen and the target computed with it |
| `SourcingBasis!OneAgreedPrice` | `infrastructure/db/repo_enterprise.py:759` | `models.py:359`, "the agreed material/vendor price": of the records for the plant and those for every plant `get_active` takes the newest, and only that one is superseded; a record of the plant beside it stays in force |
| `SourcingBasis!NewestPriceIsInForce` | `application/po_recommendation.py:342` | proposals are applied in any order, the last one applied wins |
| `TechnicalVerdict!JudgedByOwnAnswer` | `infrastructure/db/repo_evidence.py:424` | the oldest claim that was not superseded wins |
| `TechnicalVerdict!VerdictIsReproducible` | `application/technical_comparison.py:397` | the model is asked again and may find something else |
| `TechnicalVerdict!InheritedVerdictStands` | `application/quotation_ingestion.py:265` | a deviation accepted for the quotation before is not accepted for the revision that repeats it |
| `TechnicalVerdict!AcceptedAsSeen` | `api/routes/approvals.py:182` | the acceptance stays with the row whose answer is rewritten |

### Fairness

`Outbox` assumes weak fairness of what Temporal does: while the activity is open
and it listens to nobody it hands out the next attempt (`Begin`), it gives up on
one it has not heard of within `start_to_close_timeout` (`TimeOut`), and it ends
the activity when the attempts of `STANDARD_RETRY` are used up (`GiveUp`). Nothing
is assumed of the attempts, which may fail or fall silent every time, nor of the
people. So the property is not that every letter ends up on the books, which five
attempts do not give, but that the workflow is told of an end (`ActivityEnds`),
and what that end means (`AcknowledgedIsRecorded`, `ExhaustedForAReason`).

`ProcurementWorkflow` assumes weak fairness of the workflow's own steps, which
Temporal executes when they are due, and of the end of a request that was begun.
Nobody is assumed to decide anything: the workflow may rest at a gate for ever,
and `ComesToRest` says that endless motion is excluded, no more. A workflow that
is broken, or waits for what was decided already, is at rest as well; the hazards
that end so are among the statements that fail.

`Inbox` assumes nothing. The workflow stops polling when the first interval of a
wait has passed (`workflows/procurement.py:306-312`, `368-371`: the timeout is not
caught), and the other polls are made by people, through the route or the command
line. That a reply is ever read is therefore not something the code's scheduling
gives, and no liveness is stated.

`DeliveryReminders` has a fair specification for the statement above that fails
under it: days pass, and Temporal goes on with what it began.

### Remarks on the code

* `STANDARD_RETRY` (`workflows/procurement.py:29-43`) lists error codes
  (`"POLICY_VIOLATION"`) as non-retryable, while Temporal compares the name of the
  exception's class (`PolicyViolationError`): as the list stands those errors are
  retried. `Outbox` leaves open which of the two happens (`Fail`).
* An extraction that finds nothing at all deactivates what was in force and only
  warns (`application/requirements.py:133`).
* `get_active` looks at the newest `valid_from`; all records there are before an
  award are older than it, and records dated in the future are not modelled. It is
  called for the plant of a line, which validation requires to exist, so its branch
  without a plant is not reached.
* A request may name a case id of its own (`application/pr_intake.py:156`). It
  meets the same check in `save` as one made from the number (`CaseFile`,
  `Named`).

## What is proved

TLAPS proves, for any suppliers, people, cases, letters, documents, bounds and
settings that meet the assumptions next to the CONSTANTS, every invariant, action
property and refinement that a run checks on a small instance, and the type
correctness of every module with variables but the abstract `AtomicCase`:

| Module | Theorems | What they state |
| --- | --- | --- |
| `SealedBids_proofs` | `TypeCorrect`, `Sealing`, `Unsealing`, `CommercialGate`, `VerdictsHandedOn` | the invariants and the action property of `SealedBids` |
| `AwardDesk_proofs` | `TypeCorrect`, `AwardGate`, `ReleaseGate`, `NegotiationGate`, `AwardSettled` | the invariants and the action property of `AwardDesk` |
| `AwardChain_proofs` | `TypeCorrect`, `Coverage`, `NotUndone`, `Refinement` | its invariant, its action property, and that it implements `AwardDesk` |
| `RfqDesk_proofs` | `TypeCorrect`, `ReleaseFirst`, `SomebodyAsked`, `Bounded` | the invariants of `RfqDesk` |
| `ProcurementWorkflow_proofs` | `TypeCorrect`, `StagesDecided`, `OrderDrafted`, `CaseDriven` | its invariants and what the other modules assume of it |
| `Mail_proofs` | `TypeCorrect`, `Accounting`, `NoAccident`, `Reported`, `Exhaustion` | the invariants of `Outbox` |
| | `InboxTypeCorrect`, `LossesAreAccounted`, `AloneQuotedOnce` | the invariants of `Inbox` |
| | `ChaseTypeCorrect`, `NothingDueIsLeft`, `CancelledStaysQuiet` | the invariant and the action property of `DeliveryReminders` |
| `CaseRecords_proofs` | `TypeCorrect`, `NotRepeated`, `Refinement` | the invariant of `CaseStore`, and that it implements `AtomicCase`, where transactions are serializable |
| | `FileTypeCorrect`, `StatementsKeepTheirForce`, `MovedCaseStaysItsOwn`, `RequirementsStayOnFile` | the invariant and the action properties of `CaseFile` |
| | `BasisTypeCorrect`, `WrittenBackPrices`, `AgentStaysWithinLimit`, `WhatPeopleDecidedStays` | the invariants and the action property of `SourcingBasis` |
| | `VerdictTypeCorrect`, `NobodyQualifiesUnproven`, `VerdictIsNotTakenBack` | the invariant and the action property of `TechnicalVerdict` |

The argument is the same throughout: an inductive invariant (`IInv`, in the
modules that share a proof module `ChaseIInv`, `InboxIInv` and so on) that implies
the property, one step per action, and under it one per conjunct the action can
disturb. The properties are seldom inductive alone; what each module adds to them
is

* `SealedBids`: that a sealed row is always one `unseal_case` lists
  (`SealedRowsAreListed`), and that the columns of a row are filled just when it is
  not sealed (`ColumnsFollowTheSeal`);
* `AwardDesk`: that what the award signal carries was recorded on the case
  (`AwardsAreRecorded`) and that an approval names a round that was planned
  (`ApprovalsNameRounds`);
* `AwardChain`: that an order recorded as satisfied is covered by signatures of
  its own (`SatisfiedOrdersAreCovered`). The loop of the policy is treated as
  the assignment it computes: it gives distinct signatures to distinct steps
  (`SatisfiedIsCovered`), and a later signature does not change it, since each
  step takes the oldest it can. The refinement then maps every signature that
  moves the case to `AwardDesk`'s, and the others to stutters;
* `RfqDesk`: where the workflow stands and which release that presupposes
  (`FlowFollowsRelease`). What all the actions that overwrite a package leave
  standing (who is invited, the release, that nothing sent or asked becomes a
  draft again) is one predicate, `GoesOn`, and one lemma, `Kept`, carries the
  invariant over any step that respects it;
* `ProcurementWorkflow`: that a signal is never ahead of its decision
  (`SignalsFollowDecisions`) and that what an activity drafted is there when
  the next stage begins (`DraftsAreThere`);
* `Outbox`: that the attempt about to mail a letter holds its key and that a row
  somebody holds is not committed (`ClaimsAreHeld`, `HeldIsUncommitted`). The
  number of copies is then what the committed row, the open transaction and the
  rollbacks add up to (`Accounted`). For what was reported complete it is that a
  letter an attempt has passed is on the books or in its own transaction
  (`PassedIsBooked`). That attempts do not use each other up needs what Temporal
  keeps (`TemporalBooks`), that the letters of an activity come onto the books
  together (`BookedTogether`), and that an attempt which was begun is listened to
  or was hit by a fault until they have (`UsedUp`): an attempt that loses the race
  for a key loses it to one that committed, and with it everything;
* `Inbox`: what an uninterrupted history looks like. Alone and without faults a
  session sees all that is committed (`AloneItSeesAll`); a message it is yet to
  receive is still unread, and one that may be quoted is marked before it is
  (`ReadersMark`, `MarkedBeforeQuoted`). A session that was closed holds nothing
  (`ClosedIsEmpty`). For what is lost the condition is each session's own: one no
  other was open beside sees what is committed (`UncrossedSeesAll`,
  `SnapIsRecorded`), so nothing it inserts is refused and nothing it marked is
  rolled back, whatever faults and overlaps there were before;
* `DeliveryReminders`: that nothing was due is carried from the empty page the
  workflow read (`NothingWasDue`) through its way to the end
  (`CompletedHasEnded`) to the closed case. That every execution of the
  scheduling activity writes rows of its own, which are not written before
  (`NotWrittenYet`), is why no attempt puts a cancelled reminder back, and that a
  page of a finite table without a due reminder has none left is
  `EmptyPage`;
* `CaseStore`: that the row object of an open session is the row it was loaded
  from with the wanted changes the session has begun, each once
  (`SessionsBuildOnTheirBase`), and that in what is committed, and in what an open
  session was loaded from, a transition is made once and any other change once for
  each fault and once for the call that is done (`CommitsAreCounted`). A commit
  stores the outcome of the whole call, on top of its base; where the isolation
  makes the base what is stored, that is the step of `AtomicCase`;
* `CaseFile`: that the row behind a case is there (`CasesHaveRows`) and that a key
  is one row's, in force or not (`KeysAreOwn`): what an extraction adds has other
  keys than what is on file, or the extraction is refused. That the
  survivor of each group is at least as binding as all the others needs the
  candidates in the order they were read; the recursive function behind
  `FlattenSeq` is shown to exist and to keep every element by way of its least
  counterexample, since induction theorems cannot be used;
* `SourcingBasis`: the age of the records (`AgeOfRecords`): one that was written
  back names its award, those that were there before name none. `get_active` takes
  the newest of those that cover the key, so where one was written back for it
  that is the one found and superseded, and two are never in force; records that
  were there before may stay beside it. The agent's choice is bounded because a
  rebuilt row is selected among the first so many or by a person
  (`AgentKeepsToTheLimit`);
* `TechnicalVerdict`: that behind a positive verdict every mandatory row is met or
  accepted, that the status of a row follows the answer beside it, and that the
  answers of a newest quotation are those collected still, but for what the model
  found (`YesIsMet`, `StatusFollowsAnswer`,
  `NewestIsCollected`).

Facts about the case itself (what a transition leaves alone, which states an
unlocked or awarded case can be in) are lemmas of `SourcingCase_proofs`.

**Assumptions.** Those next to the CONSTANTS are met by any configuration: limits
are natural numbers, switches are Boolean, the value for "nobody" is not somebody,
the sets of suppliers, cases, reminders, vendors and past purchases are finite,
the value for "no unit" is not a known unit. Two things more are
assumed where they are needed:

* `Refinement` of `CaseStore` assumes `Serializable`, as the run does: CockroachDB
  offers nothing weaker by default, and with less the property fails, since a
  session then overwrites what another committed. `NotRepeated` needs no such
  assumption: what is overwritten is lost, but nothing is made twice.
* `LossIsAccounted` and `QuotedOnceAlone` of `Inbox` have their condition in the
  property: every message has a Message-ID, and for the second no overlap and no
  fault. What happens otherwise is in the statements that fail.

**Only model-checked**: the liveness of `Outbox` (`ActivityEnds`) and of
`ProcurementWorkflow` (`ComesToRest`), which rest on fairness and `ENABLED`, both
out of this prover's reach; and the statements that fail.

## Not modelled, and why

* Numbers: scores, landed cost, savings, rounding of decimals. The models keep
  who is ranked and who is not; prices, units and rates appear where something is
  decided by them (`SourcingBasis`, `TechnicalVerdict`), as small integers.
* Texts: documents, letters, parsers, prompts, language models and their
  repair. A parser or a model appears as what it yields.
* The scores of the shortlist, a constant; cross-reference searches, anomaly
  checks and reports: queries without state.
* Authentication, encryption, the document firewall, the user interface.
* Waiting times: an interval that has passed is a nondeterministic choice, or a
  day of the calendar where days are compared.
* Aborted serializable transactions, except in `CaseStore` and
  `DeliveryReminders`: elsewhere an abort leaves no trace and is the same as the
  step not having been taken.

## Plan

1. `SourcingCase`, `SealedBids`, `AwardDesk` with proofs (done).
2. `Outbox`, `RfqDesk`, `AwardChain`, `ProcurementWorkflow`, model-checked
   (done).
3. Proofs about these four: invariants, refinement, what the modules assume of
   each other (done).
4. `Inbox`, `DeliveryReminders`, `CaseStore` with `AtomicCase`, model-checked;
   `CaseStore` is proved to implement `AtomicCase` (done).
5. `CaseFile`, `SourcingBasis`, `TechnicalVerdict`, model-checked (done).
6. Proofs about the rest of 4 and 5 (done).
7. Open: the hazards that only have a statement that fails (quotations of a round
   ahead, refusals taken for questions, the single-source step, the rate that is
   missing) get a property once the code keeps one. Of the liveness properties
   the part that is safety may be proved, such as the number of attempts started.
