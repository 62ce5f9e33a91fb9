------------------------------- MODULE Policy -------------------------------
(***************************************************************************)
(* internal/policy: the pure decision that turns the model's answers into  *)
(* trash, topic labels or "unclassified".  Scores and thresholds are       *)
(* integers, hundredths of the code's float64 values; the wording of the   *)
(* reasons is left out.                                                    *)
(***************************************************************************)
EXTENDS Integers

CONSTANTS
  Spellings,  \* of a choice: "A", "a", "B", ...
  Norm        \* a spelling, trimmed and in upper case

ASSUME ChoiceAssumption == "A" \in Spellings /\ Norm \in [Spellings -> Spellings]

JunkQuestion == "is_junk"
TopicQuestions == {"is_person", "is_banking", "is_purchase", "is_security"}
Questions == TopicQuestions \cup {JunkQuestion}

\* topicOrder: the key of each topic in the config's labels, and the default name.
LabelKey == [is_person |-> "people", is_banking |-> "banking",
             is_purchase |-> "accounts", is_security |-> "security"]
DefaultLabel == [people |-> "cleaner/people", banking |-> "cleaner/banking",
                 accounts |-> "cleaner/accounts", security |-> "cleaner/security",
                 unclassified |-> "cleaner/unclassified"]

\* The margin by which junk must beat the best topic: 0.15.
Margin == 15

\* One answer of the model.  A missing probabilities object has no keys.
IsAnswer(ans) ==
  /\ ans.choice \in Spellings /\ ans.confidence \in Int
  /\ DOMAIN ans.probabilities \subseteq Spellings
  /\ \A k \in DOMAIN ans.probabilities : ans.probabilities[k] \in Int

\* What PredictParagraph returns: some of the questions may be unanswered.
AreAnswers(answers) ==
  /\ DOMAIN answers \subseteq Questions
  /\ \A q \in DOMAIN answers : IsAnswer(answers[q])

\* The two thresholds of the config.
Config == [junk : Int, topic : Int]

effectiveScore(ans) ==
  LET p == ans.probabilities
  IN  CASE "A" \in DOMAIN p -> p["A"]
        [] "A" \notin DOMAIN p /\ ans.choice \in DOMAIN p -> p[ans.choice]
        [] {"A", ans.choice} \cap DOMAIN p = {} /\ Norm[ans.choice] \in DOMAIN p
             -> p[Norm[ans.choice]]
        [] OTHER -> ans.confidence

\* isYes walks the same fallbacks as effectiveScore before it compares.
isYes(ans, threshold) == Norm[ans.choice] = "A" /\ effectiveScore(ans) >= threshold

\* The topics that clear the threshold.
Cleared(answers, threshold) ==
  {q \in TopicQuestions \cap DOMAIN answers : isYes(answers[q], threshold)}

\* maxTopicConfidenceFiltered, when some topic clears the threshold.
BestTopic(answers, threshold) ==
  CHOOSE q \in Cleared(answers, threshold) :
    \A p \in Cleared(answers, threshold) :
      effectiveScore(answers[p]) <= effectiveScore(answers[q])

\* A blank name in the config counts as a missing one.
labelFor(labels, key) ==
  IF key \in DOMAIN labels /\ labels[key] # "" THEN labels[key] ELSE DefaultLabel[key]

\* Step 1, the junk gate.
IsTrash_NoMargin(answers, cfg) ==
  /\ JunkQuestion \in DOMAIN answers
  /\ isYes(answers[JunkQuestion], cfg.junk)
  /\ Cleared(answers, cfg.topic) = {}
IsTrash_WrongThreshold(answers, cfg) ==
  /\ JunkQuestion \in DOMAIN answers
  /\ isYes(answers[JunkQuestion], cfg.junk)
  /\ \/ Cleared(answers, cfg.junk) = {}
     \/ effectiveScore(answers[JunkQuestion])
          > effectiveScore(answers[BestTopic(answers, cfg.junk)]) + Margin
IsTrash(answers, cfg) ==
  /\ JunkQuestion \in DOMAIN answers
  /\ isYes(answers[JunkQuestion], cfg.junk)
  /\ \/ Cleared(answers, cfg.topic) = {}
     \/ effectiveScore(answers[JunkQuestion])
          > effectiveScore(answers[BestTopic(answers, cfg.topic)]) + Margin

Decide(answers, cfg, labels) ==
  LET topics == Cleared(answers, cfg.topic)
  IN  IF IsTrash(answers, cfg)
      THEN [kind |-> "trash", labels |-> {}]
      ELSE IF topics # {}
           THEN [kind |-> "label", labels |-> {labelFor(labels, LabelKey[q]) : q \in topics}]
           ELSE [kind |-> "unclassified", labels |-> {labelFor(labels, "unclassified")}]

\* The rule as the comment over Decide states it: junk is affirmed and beats every
\* affirmed topic by more than the margin.
JunkBeats(answers, cfg) ==
  /\ JunkQuestion \in DOMAIN answers
  /\ isYes(answers[JunkQuestion], cfg.junk)
  /\ \A q \in TopicQuestions \cap DOMAIN answers :
       isYes(answers[q], cfg.topic) =>
         effectiveScore(answers[JunkQuestion]) > effectiveScore(answers[q]) + Margin
=============================================================================
