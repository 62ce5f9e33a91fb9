---------------------------- MODULE MCLifecycle ----------------------------
EXTENDS Lifecycle, TLC

\* Gmail's own label IDs, and messages nobody has looked at yet.
GmailIds == "INBOX" :> "INBOX" @@ "TRASH" :> "TRASH" @@ "unclassified" :> "Label_1"

Fresh == {{"INBOX"}}
=============================================================================
