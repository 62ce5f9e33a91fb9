----------------------------- MODULE MCTerminal -----------------------------
(* The instance of Terminal that TLC checks: every failure of the model opens a *)
(* prompt, so two workers can sit at one at the same time.                      *)
EXTENDS Terminal, TLC

CONSTANTS w1, w2

MCIdOf ==
  ("INBOX" :> "INBOX") @@ ("TRASH" :> "TRASH") @@ ("unclassified" :> "Label_2")

Fresh == {{"INBOX"}}
=============================================================================
