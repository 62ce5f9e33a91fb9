----------------------------- MODULE MCRollback -----------------------------
EXTENDS Rollback, TLC

\* Every label's ID is its name, as in the fake Gmail of the repository's tests.
NamesAsIds == [n \in LabelNames |-> n]

\* Gmail's own: a user label has an ID that is not its name.
GmailIds ==
  "INBOX" :> "INBOX" @@ "TRASH" :> "TRASH"
    @@ "people" :> "Label_1" @@ "banking" :> "Label_2" @@ "unclassified" :> "Label_3"

\* A new message, and one that an earlier run could not classify.
MCViews == {{"INBOX"}, {"INBOX", IdOf["unclassified"]}}

-----------------------------------------------------------------------------
(* What the documents say of a rollback, to hold against what it does *)

\* "any run can be rolled back" (README.md:8): when a record is planned, a change that
\* was applied and that nobody touched since passes the verification.
RunsCanBeRolledBack ==
  [][\A m \in Messages :
       PlanOne(m) /\ recs[m].outcome = "applied" /\ m \notin touched
         => ShouldRevert(recs[m], labels[m])]_vars

\* "if a message no longer carries the labels this run set - because the user moved it
\* manually - it is skipped and reported rather than clobbered" (design spec, line 268).
MovedMessagesAreSkipped ==
  [][\A m \in Messages :
       ApplyOne(m) /\ labels'[m] # labels[m]
         => toLabelIDs(recs[m].action.add) \subseteq labels[m]]_vars
=============================================================================
