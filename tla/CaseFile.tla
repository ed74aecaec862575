------------------------------ MODULE CaseFile -------------------------------
(***************************************************************************)
(* What is on file for a case before it goes to market: the requisition    *)
(* that opened it (RequisitionIntakeService), the engineering documents    *)
(* with their versions (DocumentIngestionService, SqlDocumentRepository),  *)
(* and the requirements read from both (RequirementExtractionService,      *)
(* SqlRequirementRepository).                                              *)
(*                                                                         *)
(* A session is one step: the database is SERIALIZABLE.  Bytes are known   *)
(* by their hash in the whole tenant, so every content is one version of   *)
(* one document, in the case it was filed in first.                        *)
(***************************************************************************)
EXTENDS Naturals, FiniteSets, SequencesExt

CONSTANTS Requisitions,  \* contents of requisitions
          NumberIn,      \* the PR number of a requisition, by month: the one
                         \* it bears, or one made from its hash and the month
          CaseId,        \* the case id made from each PR number
          Named,         \* case ids that requests name themselves
          Specs,         \* contents of engineering documents
          Says,          \* the statements the parser finds in each of them
          Suspect,       \* contents the firewall quarantines
          Derived,       \* statements implied by each requisition
          Supplements,   \* what the language model may add
          LastMonth,     \* bound: the calendar ends here
          MaxMoves       \* bound: transitions of a case

Months == 0..LastMonth

Numbers == {NumberIn[r][m] : r \in Requisitions, m \in Months}

CaseIds == {CaseId[n] : n \in Numbers} \cup Named

\* A statement: what it is about, how binding it is, how sure the reader is.
Statements == [about : STRING, binding : 0..2, sure : 0..2]

\* An entry of the model's answer that is passed over: it has its place in
\* the count all the same.
Unusable == ""

\* The places of those that say something.
Stated(items) == {i \in DOMAIN items : items[i].about # Unusable}

ASSUME FileAssumption ==
  /\ Requisitions \cap Specs = {}
  /\ DOMAIN NumberIn = Requisitions
  /\ Says \in [Specs -> Seq(Statements)]
  /\ Suspect \subseteq Specs
  /\ Derived \in [Requisitions -> Seq(Statements)]
  /\ Supplements \subseteq Seq(Statements)
  /\ \A s \in Specs : Stated(Says[s]) = DOMAIN Says[s]
  /\ \A r \in Requisitions : Stated(Derived[r]) = DOMAIN Derived[r]
  /\ LastMonth \in Nat
  /\ MaxMoves \in Nat

VARIABLES month,     \* the calendar
          pr,        \* the content behind each requisition row
          case,      \* the row of each case
          versions,  \* document versions, in the order they were made
          rows,      \* requirement rows of each case, active or not
          basis      \* what the last extraction for each case has read

fileVars == <<month, pr, case, versions, rows, basis>>

Nothing == "nothing"

NoCase == [number |-> Nothing, from |-> Nothing, version |-> 0]

CaseRow == [number : Numbers, from : Requisitions,
            version : 1..(MaxMoves + 2)]

Version == [content : Specs, case : CaseIds,
            trust : {"AUTHORITATIVE", "QUARANTINED", "SUPERSEDED"}]

\* key: the number in requirement_key.
Requirement == [key : Nat \ {0}, says : Statements, active : BOOLEAN]

FileTypeOK ==
  /\ month \in Months
  /\ pr \in [Numbers -> Requisitions \cup {Nothing}]
  /\ case \in [CaseIds -> {NoCase} \cup CaseRow]
  /\ versions \in Seq(Version)
  /\ rows \in [CaseIds -> SUBSET Requirement]
  /\ basis \in [CaseIds -> Seq(Statements)]

FileInit ==
  /\ month = 0
  /\ pr = [n \in Numbers |-> Nothing]
  /\ case = [c \in CaseIds |-> NoCase]
  /\ versions = <<>>
  /\ rows = [c \in CaseIds |-> {}]
  /\ basis = [c \in CaseIds |-> <<>>]

NextMonth ==
  /\ month < LastMonth
  /\ month' = month + 1
  /\ UNCHANGED <<pr, case, versions, rows, basis>>

-----------------------------------------------------------------------------
(* The requisition opens a case *)

NumberOf(r) == NumberIn[r][month]

HasCase(n) == \E c \in CaseIds : case[c].number = n

Opened(r) == [number |-> NumberOf(r), from |-> r, version |-> 1]

\* save puts the requisition on a row that is there, but not its number.
Rewritten(old, r) ==
  [old EXCEPT !.from = r, !.version = @ + 1]

\* Faulty variant: any row is taken for the case of the requisition.
MayOpenUnchecked(c) == TRUE

\* save refuses a case older than the row it finds; the new one is version 1.
MayOpen(c) == case[c] = NoCase \/ 1 >= case[c].version

\* save: one row of each number.
Filed(n, r) == [pr EXCEPT ![n] = r]

\* The case id is the one the request names, or is made from the number: two
\* numbers may yield one.
MayBear(n, c) == c = CaseId[n] \/ c \in Named

\* intake, when no case has the number yet.  With a case of that number it
\* changes nothing: the same content is known, another one is refused.
Intake(r, c) ==
  LET n == NumberOf(r)
  IN /\ ~HasCase(n)
     /\ MayBear(n, c)
     /\ MayOpen(c)
     /\ pr' = Filed(n, r)
     /\ case' = [case EXCEPT ![c] = IF @ = NoCase THEN Opened(r)
                                    ELSE Rewritten(@, r)]
     /\ UNCHANGED <<month, versions, rows, basis>>

\* Somebody moves the case on.
Move(c) ==
  /\ case[c] # NoCase
  /\ case[c].version <= MaxMoves
  /\ case' = [case EXCEPT ![c].version = @ + 1]
  /\ UNCHANGED <<month, pr, versions, rows, basis>>

-----------------------------------------------------------------------------
(* Engineering documents *)

Known(s) == \E i \in DOMAIN versions : versions[i].content = s

\* The versions of the document of case c: one name and type.
OfCase(c) == {i \in DOMAIN versions : versions[i].case = c}

Latest(c) == Max(OfCase(c))

Verdict(s) == IF s \in Suspect THEN "QUARANTINED" ELSE "AUTHORITATIVE"

\* ingest, of bytes the tenant does not have: a new version of the case's
\* document; the one before it is superseded, whatever its trust was.  Known
\* bytes change nothing, in whatever case they are.
Ingest(c, s) ==
  /\ ~Known(s)
  /\ versions' =
       Append([i \in DOMAIN versions |->
                 IF OfCase(c) # {} /\ i = Latest(c)
                 THEN [versions[i] EXCEPT !.trust = "SUPERSEDED"]
                 ELSE versions[i]],
              [content |-> s, case |-> c, trust |-> Verdict(s)])
  /\ UNCHANGED <<month, pr, case, rows, basis>>

-----------------------------------------------------------------------------
(* Requirements *)

\* list_for_case: every version of the case's documents; those in quarantine
\* are passed over.
Readable(c) == {i \in OfCase(c) : versions[i].trust # "QUARANTINED"}

\* What is read in the one at i.
TextAt(c, i) ==
  IF i \in Readable(c) THEN Says[versions[i].content] ELSE <<>>

\* What the parser finds in them, the newest version first.
Parsed(c) ==
  FlattenSeq([k \in DOMAIN versions |-> TextAt(c, Len(versions) + 1 - k)])

\* What the requisition implies: nothing where no case has been opened.
Implied(c) == IF case[c] = NoCase THEN <<>> ELSE Derived[pr[case[c].number]]

Found(c) == Parsed(c) \o Implied(c)

\* Faulty variant: the surer statement wins.
BeatsSurer(a, b) == a.sure > b.sure

\* _dedupe: the more binding statement wins, then the surer one.
Beats(a, b) ==
  \/ a.binding > b.binding
  \/ a.binding = b.binding /\ a.sure > b.sure

\* Positions of the statements about the same thing as the one at i.
Alike(items, i) == {j \in DOMAIN items : items[j].about = items[i].about}

\* One requirement for each thing: its key is that of the first statement
\* about it, its content the first of those no other beats.
Deduped(items) ==
  {[key |-> Min(Alike(items, i)), active |-> TRUE,
    says |-> items[Min({j \in Alike(items, i) :
                          \A k \in Alike(items, i) :
                            ~Beats(items[k], items[j])})]]
     : i \in Stated(items)}

Keys(S) == {r.key : r \in S}

\* uq_requirement_key: a key is used once in a case, also by a row no longer
\* in force.
KeysFree(c, new) == Keys(new) \cap Keys(rows[c]) = {}

\* Faulty variant: the rows of an earlier extraction are deleted.
ReplacedByDeleting(c, new) == new

\* replace_for_case: those before stay, no longer in force.
Replaced(c, new) == {[r EXCEPT !.active = FALSE] : r \in rows[c]} \cup new

\* What the model adds: it is only asked when there was a document to read.
Supplemented(c) ==
  {<<>>} \cup (IF Readable(c) = {} THEN {} ELSE Supplements)

\* extract_for_case, called by the workflow or by a person, as often as they
\* like.  An extraction that meets a key of an earlier one is rolled back; one
\* that finds nothing at all leaves no requirement in force.
Extract(c) ==
  \E more \in Supplemented(c) :
    LET items == Found(c) \o more
        new == Deduped(items)
    IN /\ KeysFree(c, new)
       /\ rows' = [rows EXCEPT ![c] = Replaced(c, new)]
       /\ basis' = [basis EXCEPT ![c] = items]
       /\ UNCHANGED <<month, pr, case, versions>>

-----------------------------------------------------------------------------
(* The system *)

FileNext ==
  \/ NextMonth
  \/ \E r \in Requisitions, c \in CaseIds : Intake(r, c)
  \/ \E c \in CaseIds : Move(c) \/ Extract(c)
  \/ \E c \in CaseIds, s \in Specs : Ingest(c, s)

FileSpec == FileInit /\ [][FileNext]_fileVars

-----------------------------------------------------------------------------
(* Properties *)

Active(c) == {r \in rows[c] : r.active}

\* "A quotation already assessed against requirement R must still resolve R":
\* whatever is extracted afterwards, every requirement ever made stays on file
\* as it was stated, under a key no other one gets, and one that has been
\* superseded never comes back in force.
RequirementsResolve ==
  [][\A c \in CaseIds : \A r \in rows[c] :
       /\ \E q \in rows'[c] : q.key = r.key
       /\ \A q \in rows'[c] : q.key = r.key =>
            q.says = r.says /\ (q.active => r.active)]_fileVars

\* Nothing that was read is lost in a weaker requirement: each statement of
\* the last extraction has one requirement in force about the same thing, no
\* less binding than it is, and two requirements never share a key.
NothingReadIsWeakened ==
  \A c \in CaseIds : \A i \in Stated(basis[c]) :
    \E r \in Active(c) :
      /\ r.says.about = basis[c][i].about
      /\ r.says.binding >= basis[c][i].binding
      /\ \A o \in Active(c) \ {r} :
           o.key # r.key /\ o.says.about # r.says.about

\* A case that has moved on is not opened again by another requisition, also
\* where two PR numbers yield the same case id or a request names it.
MovedCaseIsKept ==
  [][\A c \in CaseIds :
       case[c].version > 1 => case'[c].from = case[c].from]_fileVars

-----------------------------------------------------------------------------
(* What the documents and comments say and the code does not keep: each of   *)
(* these fails.                                                              *)

\* "Re-delivery of the same document is a no-op": one case per requisition.
OneCasePerDocument ==
  \A r \in Requisitions :
    Cardinality({n \in Numbers : pr[n] = r}) <= 1

\* A document that somebody filed in a case is read there.
FiledWhereItWasSent ==
  \A s \in Specs : Known(s) =>
    \A c \in CaseIds : \E i \in DOMAIN versions :
      versions[i].content = s /\ versions[i].case = c

\* "was quarantined by the document firewall and was not used for requirement
\* extraction": no version in quarantine becomes readable again.
QuarantineLasts ==
  \A i \in DOMAIN versions :
    versions[i].content \in Suspect => versions[i].trust = "QUARANTINED"

\* "Deactivate superseded requirements rather than deleting them": what is
\* extracted on demand replaces what was extracted before, and is not refused
\* because an earlier extraction has used its keys.
ReplacementIsNotRefused ==
  \A c \in CaseIds : \A more \in Supplemented(c) :
    KeysFree(c, Deduped(Found(c) \o more))

\* "Collapse duplicates, keeping the highest-confidence statement".
SurestIsKept ==
  \A c \in CaseIds : \A i \in Stated(basis[c]) :
    \E r \in Active(c) :
      /\ r.says.about = basis[c][i].about
      /\ r.says.sure >= basis[c][i].sure

\* The case is that of the requisition it was opened with.
CaseHasItsNumber ==
  \A c \in CaseIds : case[c] # NoCase => pr[case[c].number] = case[c].from
=============================================================================
