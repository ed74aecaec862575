-------------------------------- MODULE Inbox --------------------------------
(***************************************************************************)
(* How suppliers' mail comes in: sessions that read the shared mailbox     *)
(* (poll_inbound_mail_activity, POST /mail/poll), requests that push one   *)
(* message (POST /mail/inbound), the rows they record, the attachment they *)
(* file, and the quotations read from what was recorded.                   *)
(*                                                                         *)
(* A message is marked as read in the mailbox as soon as it was received,  *)
(* the rows of a whole batch are committed at its end.  A flush that fails *)
(* leaves the SQLAlchemy session unusable: every later message of the      *)
(* batch fails, the commit raises, and the batch is rolled back.  So a     *)
(* failed flush ends the session here at once.                             *)
(*                                                                         *)
(* Messages are numbered in the order the mailbox lists them.              *)
(***************************************************************************)
EXTENDS Naturals, FiniteSets

CONSTANTS MailCount,      \* messages
          PollLimit,      \* messages one poll fetches
          Readers,        \* sessions that poll the mailbox
          Relays,         \* requests that push a message
          MaxRelayed,     \* bound: messages that are pushed
          MaxInboxFaults  \* bound: crashes, failed commits, failed markings

ASSUME InboxAssumption ==
  /\ MailCount \in Nat
  /\ PollLimit \in Nat \ {0}
  /\ Readers \cap Relays = {}
  /\ MaxRelayed \in Nat
  /\ MaxInboxFaults \in Nat

VARIABLES kind,        \* what each message is, never changed
          imap,        \* the mailbox is on a mail server; never changed
          box,         \* the mailbox (external)
          mailRow,     \* committed communication rows
          filed,       \* the attachment several offers share is a document
          quotes,      \* committed quotations read from each message
          session,     \* open sessions
          relayed,     \* messages that were pushed
          overlap,     \* some session began while another was open
          crossed,     \* sessions another was open beside, since they began
          spilt,       \* messages whose rows were rolled back in a session
                       \* that was crossed or hit by a fault
          inboxFaults  \* faults so far

inboxVars == <<kind, imap, box, mailRow, filed, quotes, session, relayed,
               overlap, crossed, spilt, inboxFaults>>

Mail == 1..MailCount

Sessions == Readers \cup Relays

\* "offer": priced in its body; "listed": priced in the attachment it shares
\* with others; "oversized": its attachment is refused after the row exists;
\* "anonymous": an offer without Message-ID; "question": whatever is not read
\* as a quotation; "suspect": held back by the firewall; "garbled": unreadable.
Priced == {"offer", "listed", "oversized", "anonymous"}

Kinds == Priced \cup {"question", "suspect", "garbled"}

\* todo: fetched and not yet received; snap: rows committed when the session
\* began; mine: rows it inserted; broken: those whose handling broke off;
\* offers: outcomes to read as quotations; sawFile, files: the shared document
\* was there when it began, was inserted by it.
SessionType ==
  [open : BOOLEAN, todo : SUBSET Mail, snap : SUBSET Mail,
   mine : SUBSET Mail, broken : SUBSET Mail, offers : SUBSET Mail,
   sawFile : BOOLEAN, files : BOOLEAN]

Closed == [open |-> FALSE, todo |-> {}, snap |-> {}, mine |-> {},
           broken |-> {}, offers |-> {}, sawFile |-> FALSE, files |-> FALSE]

InboxTypeOK ==
  /\ kind \in [Mail -> Kinds]
  /\ imap \in BOOLEAN
  /\ box \in [Mail -> {"absent", "unread", "processed"}]
  /\ mailRow \in [Mail -> {"none", "broken", "whole"}]
  /\ filed \in BOOLEAN
  /\ quotes \in [Mail -> Nat]
  /\ session \in [Sessions -> SessionType]
  /\ relayed \in SUBSET Mail
  /\ overlap \in BOOLEAN
  /\ crossed \in SUBSET Sessions
  /\ spilt \in SUBSET Mail
  /\ inboxFaults \in 0..MaxInboxFaults

InboxInit ==
  /\ kind \in [Mail -> Kinds]
  /\ imap \in BOOLEAN
  /\ box = [m \in Mail |-> "absent"]
  /\ mailRow = [m \in Mail |-> "none"]
  /\ filed = FALSE
  /\ quotes = [m \in Mail |-> 0]
  /\ session = [s \in Sessions |-> Closed]
  /\ relayed = {}
  /\ overlap = FALSE
  /\ crossed = {}
  /\ spilt = {}
  /\ inboxFaults = 0

-----------------------------------------------------------------------------
(* The mailbox *)

Unread == {m \in Mail : box[m] = "unread"}

Recorded == {m \in Mail : mailRow[m] # "none"}

Arrive(m) ==
  /\ box[m] = "absent"
  /\ box' = [box EXCEPT ![m] = "unread"]
  /\ UNCHANGED <<kind, imap, mailRow, filed, quotes, session, relayed, overlap,
                 crossed, spilt, inboxFaults>>

\* fetch_unread: the oldest messages up to the limit; one that cannot be
\* parsed is left out, and left in the mailbox.
Fetched ==
  {m \in Unread : Cardinality({k \in Unread : k < m}) < PollLimit}
    \ {m \in Mail : kind[m] = "garbled"}

\* mark_processed looks for the message by its Message-ID.  Without one, the
\* directory yields some message without one; the server's search for an empty
\* header finds every message that has the header.
MarkTargets(m) ==
  IF kind[m] # "anonymous" THEN {{k \in {m} : box[k] # "absent"}}
  ELSE IF imap
  THEN {{k \in Mail : box[k] # "absent" /\ kind[k] # "anonymous"}}
  ELSE {{k} : k \in {j \in Unread : kind[j] = "anonymous"}}

InboxFault == inboxFaults < MaxInboxFaults /\ inboxFaults' = inboxFaults + 1

\* A reader marks what it received; that may fail, which poll catches.  A
\* pushed message is in no mailbox the request could mark.
Mark(s, m) ==
  \/ /\ s \in Readers
     /\ \/ \E S \in MarkTargets(m) :
             box' = [k \in Mail |-> IF k \in S THEN "processed" ELSE box[k]]
        \/ MarkTargets(m) = {} /\ UNCHANGED box
     /\ UNCHANGED inboxFaults
  \/ /\ s \in Readers
     /\ InboxFault
     /\ UNCHANGED box
  \/ /\ s \in Relays
     /\ UNCHANGED <<box, inboxFaults>>

-----------------------------------------------------------------------------
(* Sessions *)

Open(s) == session[s].open

Others(s) == {o \in Sessions \ {s} : Open(o)}

\* The record of a session that begins.
Opened(todo) ==
  [Closed EXCEPT !.open = TRUE, !.todo = todo, !.snap = Recorded,
                 !.sawFile = filed]

OpenSession(s, todo) ==
  /\ ~Open(s)
  /\ session' = [session EXCEPT ![s] = Opened(todo)]
  /\ overlap' = (overlap \/ Others(s) # {})
  /\ crossed' = IF Others(s) = {} THEN crossed \ {s}
                                  ELSE crossed \cup {s} \cup Others(s)
  /\ UNCHANGED <<kind, imap, box, mailRow, filed, quotes, spilt, inboxFaults>>

\* A poll that finds nothing leaves nothing behind.
Poll(s) ==
  /\ Fetched # {}
  /\ OpenSession(s, Fetched)
  /\ UNCHANGED relayed

Push(s, m) ==
  /\ kind[m] # "garbled"
  /\ m \notin relayed
  /\ Cardinality(relayed) < MaxRelayed
  /\ OpenSession(s, {m})
  /\ relayed' = relayed \cup {m}

\* The message the session receives next.
Receives(s, m) ==
  /\ Open(s)
  /\ m \in session[s].todo
  /\ \A k \in session[s].todo : m <= k

Visible(s) == session[s].snap \cup session[s].mine

\* The unique key of the row is somebody else's, who has not committed.
KeyHeld(s, m) == \E o \in Others(s) : m \in session[o].mine

\* create can insert the row: its key is nobody's.
Insertable(s, m) == m \notin Visible(s) /\ mailRow[m] = "none" /\ ~KeyHeld(s, m)

\* add_version finds the document, or can insert it.
FileReady(s) ==
  \/ session[s].sawFile \/ session[s].files
  \/ ~filed /\ \A o \in Others(s) : ~session[o].files

\* What receiving m leaves of the session's record.
Received(s, m) ==
  [session[s] EXCEPT !.todo = @ \ {m},
                     !.mine = @ \cup {m},
                     !.offers = IF kind[m] \in Priced THEN @ \cup {m} ELSE @,
                     !.files = @ \/ (kind[m] = "listed" /\ ~session[s].sawFile)]

\* What meeting a message leaves of it whose row is known.
Known(s, m) ==
  [session[s] EXCEPT !.todo = @ \ {m},
                     !.offers = IF kind[m] = "question" THEN @ ELSE @ \cup {m}]

\* What an attachment that is refused leaves of it.
Spoiled(s, m) ==
  [session[s] EXCEPT !.todo = @ \ {m}, !.mine = @ \cup {m},
                     !.broken = @ \cup {m}]

\* What a rollback between two messages leaves of it.
Resumed(s, m) ==
  [session[s] EXCEPT !.todo = @ \ {m}, !.snap = Recorded, !.mine = {},
                     !.broken = {}, !.sawFile = TRUE, !.files = FALSE]

Stays == UNCHANGED <<kind, imap, mailRow, filed, quotes, relayed, overlap,
                     crossed>>

\* The rows of M are rolled back, for something another session did.
Spill(s, M) == spilt' = IF s \in crossed THEN spilt \cup M ELSE spilt

\* Faulty variant: a message that is known already stays in the mailbox.
DuplicateUnmarked(s, m) ==
  /\ Receives(s, m)
  /\ kind[m] # "anonymous"
  /\ m \in Visible(s) \/ mailRow[m] # "none"
  /\ session' = [session EXCEPT ![s] = Known(s, m)]
  /\ UNCHANGED <<box, inboxFaults>>
  /\ UNCHANGED spilt
  /\ Stays

\* find_by_external_id knows the message: the outcome is that of its row and
\* says nothing of the firewall, so whatever was classified as a quotation is
\* read as one, again.  A row committed since the session began is seen or not.
Duplicate(s, m) ==
  /\ Receives(s, m)
  /\ kind[m] # "anonymous"
  /\ m \in Visible(s) \/ mailRow[m] # "none"
  /\ session' = [session EXCEPT ![s] = Known(s, m)]
  /\ Mark(s, m)
  /\ UNCHANGED spilt
  /\ Stays

\* receive: the row, the attachment, the invitation.
Receive(s, m) ==
  /\ Receives(s, m)
  /\ kind[m] # "oversized"
  /\ Insertable(s, m)
  /\ kind[m] = "listed" => FileReady(s)
  /\ session' = [session EXCEPT ![s] = Received(s, m)]
  /\ Mark(s, m)
  /\ UNCHANGED spilt
  /\ Stays

\* Faulty variant: poll rolls the session back before it goes on.
BreakOffRollingBack(s, m) ==
  /\ Receives(s, m)
  /\ kind[m] = "oversized"
  /\ Insertable(s, m)
  /\ session' = [session EXCEPT
       ![s] = IF s \in Readers
              THEN [@ EXCEPT !.todo = @ \ {m}, !.mine = {}, !.broken = {},
                             !.files = FALSE]
              ELSE Closed]
  /\ UNCHANGED <<box, inboxFaults>>
  /\ Spill(s, session[s].mine)
  /\ Stays

\* The attachment is refused: the exception leaves the row behind, without the
\* attachment and with the invitation as it was.  poll goes on with the next
\* message and commits; a request is rolled back.
BreakOff(s, m) ==
  /\ Receives(s, m)
  /\ kind[m] = "oversized"
  /\ Insertable(s, m)
  /\ session' = [session EXCEPT
       ![s] = IF s \in Readers THEN Spoiled(s, m) ELSE Closed]
  /\ UNCHANGED <<box, inboxFaults>>
  /\ UNCHANGED spilt
  /\ Stays

\* add_version meets a document committed since the session began: it rolls
\* the session back, takes that document and goes on.  Every row of the batch
\* so far is gone, the message counts as received.
Discard(s, m) ==
  /\ Receives(s, m)
  /\ kind[m] = "listed"
  /\ Insertable(s, m)
  /\ filed /\ ~session[s].sawFile /\ ~session[s].files
  /\ session' = [session EXCEPT ![s] = Resumed(s, m)]
  /\ Mark(s, m)
  /\ Spill(s, session[s].mine \cup {m})
  /\ Stays

\* A flush fails: the key was committed by somebody else, or cannot be waited
\* for.  Nothing of the batch remains but the marks in the mailbox.
Refuse(s, m) ==
  /\ Receives(s, m)
  /\ \/ mailRow[m] # "none" /\ (kind[m] = "anonymous" \/ m \notin Visible(s))
     \/ KeyHeld(s, m)
     \/ kind[m] = "listed" /\ m \notin Visible(s) /\ ~FileReady(s)
  /\ session' = [session EXCEPT ![s] = Closed]
  /\ UNCHANGED <<box, inboxFaults>>
  /\ Spill(s, session[s].mine)
  /\ Stays

\* Every outcome is read as a quotation, from the row it names, and the
\* session commits.  An outcome whose row was discarded is not found.
CommitSession(s) ==
  /\ Open(s)
  /\ session[s].todo = {}
  /\ mailRow' = [m \in Mail |-> IF m \in session[s].broken THEN "broken"
                            ELSE IF m \in session[s].mine THEN "whole"
                            ELSE mailRow[m]]
  /\ filed' = (filed \/ session[s].files)
  /\ quotes' = [m \in Mail |->
       IF m \in session[s].offers /\ m \in session[s].mine \cup Recorded
       THEN quotes[m] + 1 ELSE quotes[m]]
  /\ session' = [session EXCEPT ![s] = Closed]
  /\ UNCHANGED <<kind, imap, box, relayed, overlap, crossed, spilt,
                 inboxFaults>>

\* The process dies or the commit fails.
LoseSession(s) ==
  /\ Open(s)
  /\ InboxFault
  /\ session' = [session EXCEPT ![s] = Closed]
  /\ UNCHANGED box
  /\ spilt' = spilt \cup session[s].mine
  /\ Stays

-----------------------------------------------------------------------------
(* The system *)

Handle(s) ==
  \/ \E m \in Mail :
       \/ Duplicate(s, m) \/ Receive(s, m) \/ BreakOff(s, m)
       \/ Discard(s, m) \/ Refuse(s, m)
  \/ CommitSession(s)

InboxNext ==
  \/ \E m \in Mail : Arrive(m)
  \/ \E s \in Readers : Poll(s) \/ Handle(s)
  \/ \E s \in Relays : Handle(s) \/ \E m \in Mail : Push(s, m)
  \/ \E s \in Sessions : LoseSession(s)

InboxSpec == InboxInit /\ [][InboxNext]_inboxVars

-----------------------------------------------------------------------------
(* Properties *)

Ordinary == \A m \in Mail : kind[m] # "anonymous"

\* A reply is marked as read before its row is committed.  It is lost, with
\* no row and in no open session, only if a session that had it hit a fault or
\* ran beside another one; what went before, or goes on in sessions of its own,
\* takes nothing from a session.  (Messages without Message-ID stop this.)
LossIsAccounted ==
  Ordinary =>
    \A m \in Mail : box[m] = "processed" =>
      \/ m \in Recorded
      \/ \E s \in Sessions : Open(s) /\ m \in session[s].mine
      \/ m \in spilt

\* While sessions do not overlap, none fails and every message has a
\* Message-ID, a message of the mailbox that nobody pushed as well becomes one
\* quotation at most, although known messages are read again.
QuotedOnceAlone ==
  ~overlap /\ inboxFaults = 0 /\ Ordinary =>
    \A m \in Mail \ relayed : quotes[m] <= 1

-----------------------------------------------------------------------------
(* What the documents and comments say and the code does not keep: each of   *)
(* these fails.                                                              *)

\* A reply that is marked as read is on the books once no session is open.
NoReplyIsLost ==
  (\A s \in Sessions : ~Open(s)) =>
    \A m \in Mail : box[m] = "processed" => m \in Recorded

\* A message the system knows already is ignored.
KnownIsIgnored == \A m \in Mail : quotes[m] <= 1

\* What the firewall holds back for a person is not read as an offer.
HeldBackIsNotQuoted == \A m \in Mail : kind[m] = "suspect" => quotes[m] = 0
=============================================================================
