------------------------------- MODULE MCInbox -------------------------------
(* Inbox on small instances: at most one message is out of the ordinary. *)
EXTENDS Inbox

CONSTANT MaxOdd   \* bound: messages that are not plain or listed offers

MCInit ==
  /\ InboxInit
  /\ Cardinality({m \in Mail : kind[m] \notin {"offer", "listed"}}) <= MaxOdd
  /\ kind[MailCount] = "listed"
  /\ Ordinary => imap   \* the mailbox shows only in marking without an id

MCSpec == MCInit /\ [][InboxNext]_inboxVars
=============================================================================
