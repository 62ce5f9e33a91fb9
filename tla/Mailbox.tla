------------------------------ MODULE Mailbox ------------------------------
(***************************************************************************)
(* The mailbox as the cleaner sees it.  Gmail itself is external: only     *)
(* what the calls in src/ rely on is stated.  A message carries a set of   *)
(* label IDs.  The code names labels by NAME everywhere except in what     *)
(* Gmail returns and in what it sends to messages.modify, where it goes    *)
(* through toLabelIDs.                                                     *)
(***************************************************************************)
EXTENDS Integers, FiniteSets

CONSTANTS
  Topics,        \* names of the topic labels the policy can add
  Unclassified,  \* name of the label for "no topic cleared the threshold"
  Configured,    \* those the config names: an entry may have been left blank
  IdOf           \* Gmail's label ID of each label name

SystemLabels == {"INBOX", "TRASH"}

CleanerLabels == Topics \cup {Unclassified}

LabelNames == SystemLabels \cup CleanerLabels

LabelIds == {IdOf[n] : n \in LabelNames}

\* A system label has the same ID and name; a user label gets an ID of its own.
ASSUME LabelAssumption ==
  /\ Unclassified \notin Topics
  /\ CleanerLabels \cap SystemLabels = {}
  /\ Configured \subseteq CleanerLabels
  /\ DOMAIN IdOf = LabelNames
  /\ \A n \in SystemLabels : IdOf[n] = n
  /\ \A n1, n2 \in LabelNames : IdOf[n1] = IdOf[n2] => n1 = n2

toLabelIDs(names) == {IdOf[n] : n \in names}

\* messages.modify: additions and removals are disjoint in every call the code makes.
Modified(ids, add, remove) == (ids \ toLabelIDs(remove)) \cup toLabelIDs(add)

\* messages.untrash, as rollback.go describes it: "remove TRASH, add INBOX".
Untrashed(ids) == (ids \ {"TRASH"}) \cup {"INBOX"}

\* in:inbox and none of the labels the config names.
MatchesUnprocessed(ids) ==
  /\ "INBOX" \in ids
  /\ ids \cap toLabelIDs(Configured) = {}

\* in:inbox label:<unclassified>, the query of --reprocess=unclassified.
MatchesReprocess(ids) ==
  /\ "INBOX" \in ids
  /\ IdOf[Unclassified] \in ids

\* What the owner of the mailbox can do to a message from Gmail's own interface:
\* archive it, trash it, move it (back) to the inbox, take a cleaner label off.
MovedByUser(ids) ==
  {ids \ {"INBOX"}, (ids \ {"INBOX"}) \cup {"TRASH"}, Untrashed(ids)}
    \cup {ids \ {IdOf[n]} : n \in CleanerLabels}
=============================================================================
