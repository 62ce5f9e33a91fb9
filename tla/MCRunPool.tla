----------------------------- MODULE MCRunPool -----------------------------
(* The instance of RunPool that TLC checks: one topic label, system labels and  *)
(* user labels with Gmail-style IDs of their own.                               *)
EXTENDS RunPool, TLC

CONSTANTS w1, w2

MCIdOf ==
  ("INBOX" :> "INBOX") @@ ("TRASH" :> "TRASH")
    @@ ("people" :> "Label_1") @@ ("unclassified" :> "Label_2")

\* A fresh message, one an earlier run could not classify, and an archived one.
MCViews == {{"INBOX"}, {"INBOX", "Label_2"}, {}}
Unread == {{"INBOX"}, {"INBOX", "Label_2"}}
Fresh == {{"INBOX"}}

Alike == Permutations(Workers)
-----------------------------------------------------------------------------
(* What the documents say of a run, to hold against what it does *)

\* "exits non-zero when any message failed" (README.md:64): a message that Gmail did
\* not even hand over (its line is "skipped" with no labels_before) is a failure.
FailuresFailTheRun ==
  status = "exited" /\ ~flags.dryRun
    /\ (\E m \in listed : \E i \in DOMAIN log[m] :
          log[m][i].outcome = "skipped" /\ log[m][i].before = {})
    => code # exitOK

\* "quotaGate pauses every worker when Gmail reports the per-minute query quota is
\* exhausted" (quota.go:9): only an answer of Gmail's closes the gate.
OnlyGmailClosesTheGate ==
  [][gateOpen /\ ~gateOpen' =>
       \E w \in Workers : pc[w] = "settle" /\ rec[w].reason \in {"gmail429", "gmail"}]_vars
=============================================================================
