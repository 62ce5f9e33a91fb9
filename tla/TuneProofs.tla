----------------------------- MODULE TuneProofs -----------------------------
(***************************************************************************)
(* The commands that only read, for all answers, thresholds, limits,       *)
(* mailboxes and messages: policy.Decide is the rule its comment states, a *)
(* listing is exact, the table tune prints adds up, is monotone and counts *)
(* what Decide decides, and what the model reads is the first plain part   *)
(* of the message, cut to the text its sender wrote.                       *)
(***************************************************************************)
EXTENDS Tune, FiniteSetTheorems, WellFoundedInduction, TLAPS

-----------------------------------------------------------------------------
(* policy.Decide.                                                          *)

\* Every answer has an integer score, whichever fallback it comes from.
LEMMA ScoreIsInt ==
  ASSUME NEW ans, IsAnswer(ans)
  PROVE  effectiveScore(ans) \in Int
<1> DEFINE p == ans.probabilities
<1>1. CASE "A" \in DOMAIN p
  BY <1>1 DEF effectiveScore, IsAnswer
<1>2. CASE "A" \notin DOMAIN p /\ ans.choice \in DOMAIN p
  BY <1>2 DEF effectiveScore, IsAnswer
<1>3. CASE {"A", ans.choice} \cap DOMAIN p = {} /\ Norm[ans.choice] \in DOMAIN p
  BY <1>3 DEF effectiveScore, IsAnswer
<1>4. CASE {"A", ans.choice} \cap DOMAIN p = {} /\ Norm[ans.choice] \notin DOMAIN p
  BY <1>4 DEF effectiveScore, IsAnswer
<1> QED
  BY <1>1, <1>2, <1>3, <1>4

LEMMA ClearedScores ==
  ASSUME NEW answers, AreAnswers(answers), NEW t
  PROVE  \A q \in Cleared(answers, t) :
           q \in DOMAIN answers /\ effectiveScore(answers[q]) \in Int
BY ScoreIsInt DEF Cleared, AreAnswers

\* Among at most four topics with integer scores one has the highest.
LEMMA SomeTopicIsBest ==
  ASSUME NEW C \in SUBSET TopicQuestions, C # {},
         NEW score, \A q \in C : score[q] \in Int
  PROVE  \E q \in C : \A p \in C : score[p] <= score[q]
<1> DEFINE a == "is_person"
           b == "is_banking"
           c == "is_purchase"
           d == "is_security"
<1>0. C \subseteq {a, b, c, d}
  BY DEF TopicQuestions
<1> DEFINE Best(S) == S = {} \/ \E q \in S : \A p \in S : score[p] <= score[q]
<1>1. ASSUME NEW S, NEW x \in C, S \subseteq C, Best(S)
      PROVE  Best(S \cup {x})
  <2>1. CASE S = {}
    <3>1. \A p \in S \cup {x} : score[p] <= score[x]
      BY <2>1
    <3> QED BY <3>1
  <2>2. CASE S # {}
    <3>1. PICK q \in S : \A p \in S : score[p] <= score[q]
      BY <1>1, <2>2
    <3>2. score[q] \in Int /\ score[x] \in Int /\ \A p \in S : score[p] \in Int
      BY <1>1
    <3>3. CASE score[x] <= score[q]
      BY <3>1, <3>3
    <3>4. CASE score[q] < score[x]
      <4>1. \A p \in S \cup {x} : score[p] <= score[x]
        BY <3>1, <3>2, <3>4
      <4> QED BY <4>1
    <3> QED BY <3>2, <3>3, <3>4
  <2> QED BY <2>1, <2>2
<1>2. ASSUME NEW S, NEW x, S \subseteq C, Best(S)
      PROVE  Best(S \cup ({x} \cap C))
  <2>1. CASE x \in C
    BY <1>1, <1>2, <2>1, {x} \cap C = {x}
  <2>2. CASE x \notin C
    BY <1>2, <2>2, {x} \cap C = {}, S \cup {} = S
  <2> QED BY <2>1, <2>2
<1> HIDE DEF Best
<1>3. Best({})
  BY DEF Best
<1>4. Best({} \cup ({a} \cap C))
  BY <1>2, <1>3
<1>5. Best(({} \cup ({a} \cap C)) \cup ({b} \cap C))
  BY <1>2, <1>4
<1>6. Best((({} \cup ({a} \cap C)) \cup ({b} \cap C)) \cup ({c} \cap C))
  BY <1>2, <1>5
<1>7. Best(((({} \cup ({a} \cap C)) \cup ({b} \cap C)) \cup ({c} \cap C)) \cup ({d} \cap C))
  BY <1>2, <1>6
<1>8. ((({} \cup ({a} \cap C)) \cup ({b} \cap C)) \cup ({c} \cap C)) \cup ({d} \cap C) = C
  BY <1>0
<1> QED
  BY <1>7, <1>8 DEF Best

LEMMA BestTopicIsBest ==
  ASSUME NEW answers, AreAnswers(answers), NEW t, Cleared(answers, t) # {}
  PROVE  /\ BestTopic(answers, t) \in Cleared(answers, t)
         /\ \A p \in Cleared(answers, t) :
              effectiveScore(answers[p]) <= effectiveScore(answers[BestTopic(answers, t)])
<1> DEFINE C == Cleared(answers, t)
           score == [q \in C |-> effectiveScore(answers[q])]
<1>1. C \in SUBSET TopicQuestions
  BY DEF Cleared
<1>2. \A q \in C : score[q] \in Int
  BY ClearedScores
<1>3. \E q \in C : \A p \in C : score[p] <= score[q]
  <2> HIDE DEF score
  <2> QED BY <1>1, <1>2, SomeTopicIsBest
<1>4. \E q \in C : \A p \in C : effectiveScore(answers[p]) <= effectiveScore(answers[q])
  BY <1>3
<1> QED
  BY <1>4 DEF BestTopic

\* The loop that looks for the best topic decides what the comment over Decide says:
\* a message is trashed exactly when junk beats every affirmed topic by the margin.
THEOREM TrashIsThePolicy ==
  ASSUME NEW answers, AreAnswers(answers), NEW cfg \in Config
  PROVE  IsTrash(answers, cfg) <=> JunkBeats(answers, cfg)
<1> DEFINE C == Cleared(answers, cfg.topic)
           junk == effectiveScore(answers[JunkQuestion])
           score(q) == effectiveScore(answers[q])
<1> SUFFICES ASSUME JunkQuestion \in DOMAIN answers, isYes(answers[JunkQuestion], cfg.junk)
             PROVE  (C = {} \/ junk > score(BestTopic(answers, cfg.topic)) + Margin)
                      <=> (\A q \in C : junk > score(q) + Margin)
  BY DEF IsTrash, JunkBeats, Cleared
<1>1. junk \in Int /\ \A q \in C : score(q) \in Int
  BY ScoreIsInt, ClearedScores DEF AreAnswers
<1>2. CASE C = {}
  BY <1>2
<1>3. CASE C # {}
  <2> DEFINE best == BestTopic(answers, cfg.topic)
  <2>1. best \in C /\ \A p \in C : score(p) <= score(best)
    BY <1>3, BestTopicIsBest
  <2> HIDE DEF best, C, junk, score
  <2>2. junk > score(best) + Margin => \A q \in C : junk > score(q) + Margin
    BY <1>1, <2>1 DEF Margin
  <2> QED
    BY <1>3, <2>1, <2>2 DEF best
<1> QED BY <1>2, <1>3

\* A stricter junk threshold never trashes a message that a laxer one keeps.
THEOREM JunkThresholdIsMonotone ==
  ASSUME NEW answers, AreAnswers(answers), NEW cfg \in Config, NEW stricter \in Config,
         cfg.topic = stricter.topic, cfg.junk <= stricter.junk,
         IsTrash(answers, stricter)
  PROVE  IsTrash(answers, cfg)
<1>1. JunkBeats(answers, stricter)
  BY TrashIsThePolicy
<1>2. effectiveScore(answers[JunkQuestion]) \in Int
  BY <1>1, ScoreIsInt DEF JunkBeats, AreAnswers
<1>3. isYes(answers[JunkQuestion], cfg.junk)
  BY <1>1, <1>2 DEF JunkBeats, isYes, Config
<1>4. JunkBeats(answers, cfg)
  BY <1>1, <1>3 DEF JunkBeats
<1> QED BY <1>4, TrashIsThePolicy

\* A stricter topic threshold only takes protection away: whatever was trashed still is.
THEOREM TopicThresholdIsMonotone ==
  ASSUME NEW answers, AreAnswers(answers), NEW cfg \in Config, NEW stricter \in Config,
         cfg.junk = stricter.junk, cfg.topic <= stricter.topic,
         IsTrash(answers, cfg)
  PROVE  IsTrash(answers, stricter)
<1>1. JunkBeats(answers, cfg)
  BY TrashIsThePolicy
<1>2. ASSUME NEW q \in TopicQuestions \cap DOMAIN answers, isYes(answers[q], stricter.topic)
      PROVE  isYes(answers[q], cfg.topic)
  <2>1. effectiveScore(answers[q]) \in Int
    BY ScoreIsInt DEF AreAnswers
  <2> QED BY <1>2, <2>1 DEF isYes, Config
<1>3. JunkBeats(answers, stricter)
  BY <1>1, <1>2 DEF JunkBeats
<1> QED BY <1>3, TrashIsThePolicy

LEMMA TrashKind ==
  ASSUME NEW answers, NEW cfg, NEW labels
  PROVE  Decide(answers, cfg, labels).kind = "trash" <=> IsTrash(answers, cfg)
<1>1. CASE IsTrash(answers, cfg)
  BY <1>1 DEF Decide
<1>2. CASE ~IsTrash(answers, cfg) /\ Cleared(answers, cfg.topic) # {}
  BY <1>2 DEF Decide
<1>3. CASE ~IsTrash(answers, cfg) /\ Cleared(answers, cfg.topic) = {}
  BY <1>3 DEF Decide
<1> QED BY <1>1, <1>2, <1>3

\* The mailbox under the labels of a configuration: its query excludes the names given
\* there.  Ids are Gmail's.
Box(labels, Ids) ==
  INSTANCE Mailbox WITH
    Topics <- {labelFor(labels, LabelKey[q]) : q \in TopicQuestions},
    Unclassified <- labelFor(labels, "unclassified"),
    Configured <- {labels[key] : key \in DOMAIN labels},
    IdOf <- Ids

\* What processOne adds and removes for a decision.
ToAdd(decision) == IF decision.kind = "trash" THEN {"TRASH"} ELSE decision.labels
ToRemove(decision) == IF decision.kind = "trash" THEN {"INBOX"} ELSE {}

\* policy.Decide and unprocessedQuery fit together: if every label has a name in the
\* configuration, then whatever the model answers and whatever labels the message had,
\* a message whose decision was applied does not match the query of the next run.
THEOREM DecidedMessagesLeaveTheQuery ==
  ASSUME NEW answers, NEW cfg, NEW labels, NEW Ids, NEW view,
         \A key \in DOMAIN DefaultLabel : key \in DOMAIN labels /\ labels[key] # "",
         Ids["INBOX"] = "INBOX", Ids["TRASH"] = "TRASH"
  PROVE  LET d == Decide(answers, cfg, labels)
         IN  ~Box(labels, Ids)!MatchesUnprocessed(
                Box(labels, Ids)!Modified(view, ToAdd(d), ToRemove(d)))
<1> DEFINE d == Decide(answers, cfg, labels)
           named == {labels[key] : key \in DOMAIN labels}
           their(names) == {Ids[n] : n \in names}
           after == (view \ their(ToRemove(d))) \cup their(ToAdd(d))
<1>1. SUFFICES ~("INBOX" \in after /\ after \cap their(named) = {})
  BY DEF Box!MatchesUnprocessed, Box!Modified, Box!toLabelIDs
<1>2. \A key \in DOMAIN DefaultLabel : labelFor(labels, key) \in named
  BY DEF labelFor
<1>3. /\ \A q \in TopicQuestions : LabelKey[q] \in DOMAIN DefaultLabel
      /\ "unclassified" \in DOMAIN DefaultLabel
  <2>1. DOMAIN DefaultLabel = {"people", "banking", "accounts", "security", "unclassified"}
    BY DEF DefaultLabel
  <2>2. /\ LabelKey["is_person"] = "people" /\ LabelKey["is_banking"] = "banking"
        /\ LabelKey["is_purchase"] = "accounts" /\ LabelKey["is_security"] = "security"
    BY DEF LabelKey
  <2> QED BY <2>1, <2>2 DEF TopicQuestions
<1>4. CASE IsTrash(answers, cfg)
  <2>1. ToAdd(d) = {"TRASH"} /\ ToRemove(d) = {"INBOX"}
    BY <1>4, TrashKind DEF ToAdd, ToRemove
  <2>2. "INBOX" \notin after
    BY <2>1
  <2> QED BY <2>2
<1>5. CASE ~IsTrash(answers, cfg)
  <2>1. \E n \in d.labels : n \in named
    <3>1. CASE Cleared(answers, cfg.topic) # {}
      <4>1. PICK q \in Cleared(answers, cfg.topic) : TRUE
        BY <3>1
      <4>2. d.labels = {labelFor(labels, LabelKey[x]) : x \in Cleared(answers, cfg.topic)}
        BY <1>5, <3>1 DEF Decide
      <4>3. q \in TopicQuestions
        BY DEF Cleared
      <4> QED BY <1>2, <1>3, <4>1, <4>2, <4>3
    <3>2. CASE Cleared(answers, cfg.topic) = {}
      <4>1. d.labels = {labelFor(labels, "unclassified")}
        BY <1>5, <3>2 DEF Decide
      <4> QED BY <1>2, <1>3, <4>1
    <3> QED BY <3>1, <3>2
  <2>2. ToAdd(d) = d.labels
    BY <1>5, TrashKind DEF ToAdd
  <2> HIDE DEF d, named
  <2>3. after \cap their(named) # {}
    BY <2>1, <2>2
  <2> QED BY <2>3
<1> QED BY <1>4, <1>5

-----------------------------------------------------------------------------
(* The listing.                                                            *)

\* The newest messages when n of them have been given, as far as the limit allows.
Newest(n) == [i \in 1 .. (IF max > 0 /\ max < n THEN max ELSE n) |-> i]

\* The inductive invariant of the page loop.
ListInv ==
  listing # "returned" =>
    /\ max \in Int /\ matching \in Nat /\ given \in 0 .. matching
    /\ listing \in {"flags", "paging", "listed", "refused", "failed"}
    /\ listing = "flags" => given = 0 /\ ids = <<>>
    /\ listing = "paging" => ids = Newest(given) /\ (max > 0 => given < max)
    /\ listing = "listed" => ids = Newest(matching)

\* An empty entry in front of a page changes nothing.
LEMMA EntriesKept ==
  ASSUME given \in Nat, NEW n \in Nat, NEW hole \in BOOLEAN
  PROVE  Kept(Entries(n, hole)) = [k \in 1 .. n |-> given + k]
<1> DEFINE e == Entries(n, hole)
           o == IF hole THEN 1 ELSE 0
           found == {i \in DOMAIN e : e[i] # NoId}
           place(i) == Cardinality({j \in found : j <= i})
           at(k) == CHOOSE i \in found : place(i) = k
<1>1. o \in Nat
  OBVIOUS
<1>2. /\ DOMAIN e = 1 .. (n + o)
      /\ hole => e[1] = NoId
      /\ \A i \in (o + 1) .. (n + o) : e[i] = given + (i - o)
  <2> DEFINE page == [i \in 1 .. n |-> given + i]
  <2>1. page \in Seq(Nat) /\ Len(page) = n /\ \A i \in 1 .. n : page[i] = given + i
    OBVIOUS
  <2>2. CASE hole
    <3> HIDE DEF page
    <3>1. e = <<NoId>> \o page
      BY <2>2 DEF Entries, page
    <3>2. <<NoId>> \in Seq(Nat) /\ Len(<<NoId>>) = 1 /\ <<NoId>>[1] = NoId
      BY DEF NoId
    <3> HIDE DEF e
    <3> QED BY <2>1, <2>2, <3>1, <3>2
  <2>3. CASE ~hole
    <3>1. e = <<>> \o page
      BY <2>3 DEF Entries
    <3> HIDE DEF e, page
    <3>2. e = page
      BY <2>1, <3>1
    <3> QED BY <2>1, <2>3, <3>2
  <2> QED BY <2>2, <2>3
<1> HIDE DEF e
<1>3. found = (o + 1) .. (n + o)
  BY <1>1, <1>2 DEF NoId
<1>4. Cardinality(found) = n
  <2> HIDE DEF o, found
  <2>1. o + 1 \in Int /\ n + o \in Int
    BY <1>1
  <2>2. Cardinality((o + 1) .. (n + o)) = n
    BY <1>1, <2>1, FS_Interval
  <2> QED BY <1>3, <2>2
<1>5. \A i \in found : place(i) = i - o
  <2> SUFFICES ASSUME NEW i \in found PROVE place(i) = i - o
    OBVIOUS
  <2> HIDE DEF o, found
  <2>1. i \in Int /\ o + 1 \in Int /\ i >= o + 1
    BY <1>1, <1>3
  <2>2. {j \in found : j <= i} = (o + 1) .. i
    BY <1>1, <1>3
  <2>3. Cardinality((o + 1) .. i) = i - o
    BY <1>1, <2>1, FS_Interval
  <2> QED BY <2>2, <2>3
<1>6. Kept(e) = [k \in 1 .. n |-> e[at(k)]]
  BY <1>4 DEF Kept
<1> HIDE DEF found, place
<1>7. \A k \in 1 .. n : at(k) = k + o
  <2> HIDE DEF o
  <2> SUFFICES ASSUME NEW k \in 1 .. n
               PROVE  at(k) = k + o
    OBVIOUS
  <2>1. k + o \in found /\ place(k + o) = k
    BY <1>1, <1>3, <1>5
  <2>2. \A i \in found : place(i) = k => i = k + o
    BY <1>1, <1>3, <1>5
  <2> QED BY <2>1, <2>2
<1>8. \A k \in 1 .. n : e[k + o] = given + k
  <2> HIDE DEF o
  <2> QED BY <1>1, <1>2
<1> HIDE DEF at, o
<1>9. Kept(e) = [k \in 1 .. n |-> given + k]
  BY <1>6, <1>7, <1>8
<1> QED
  BY <1>9 DEF e

LEMMA ListInitInv == ListInit => ListInv
BY ListingAssumption DEF ListInit, ListInv

LEMMA PageInv == ListInv /\ Page => ListInv'
<1> SUFFICES ASSUME ListInv, Page PROVE ListInv'
  OBVIOUS
<1> USE DEF query
<1>1. /\ listing = "paging" /\ max \in Int /\ matching \in Nat /\ given \in Nat
      /\ ids = Newest(given) /\ (max > 0 => given < max)
      /\ max' = max /\ matching' = matching
  BY DEF ListInv, Page
<1>2. PICK n \in 0 .. (pageSize + 1), hole \in BOOLEAN, token \in BOOLEAN :
        /\ given + n <= matching
        /\ token \/ given + n = matching
        /\ given' = given + n
        /\ ids' = Capped(ids \o Kept(Entries(n, hole)))
        /\ listing' = IF (max > 0 /\ Len(ids') = max) \/ ~token THEN "listed" ELSE "paging"
  BY DEF Page
<1>3. n \in Nat
  OBVIOUS
<1> DEFINE page == [k \in 1 .. n |-> given + k]
           all == [k \in 1 .. (given + n) |-> k]
<1>4. ids = [k \in 1 .. given |-> k]
  BY <1>1 DEF Newest
<1>5. ids \o page = all
  BY <1>1, <1>3, <1>4
<1>6. ids' = Capped(all)
  BY <1>1, <1>2, <1>3, <1>5, EntriesKept
<1>7. ids' = Newest(given + n)
  <2>1. all \in Seq(Nat) /\ Len(all) = given + n
    BY <1>1, <1>3
  <2>2. CASE max > 0 /\ given + n > max
    <3>1. ids' = SubSeq(all, 1, max)
      BY <1>6, <2>1, <2>2 DEF Capped
    <3>2. SubSeq(all, 1, max) = [k \in 1 .. max |-> k]
      BY <1>1, <1>3, <2>2
    <3> QED BY <1>1, <1>3, <2>2, <3>1, <3>2 DEF Newest
  <2>3. CASE ~(max > 0 /\ given + n > max)
    BY <1>1, <1>3, <1>6, <2>1, <2>3 DEF Capped, Newest
  <2> QED BY <2>2, <2>3
<1>8. Len(ids') = IF max > 0 /\ max < given + n THEN max ELSE given + n
  BY <1>1, <1>3, <1>7 DEF Newest
<1>9. CASE listing' = "paging"
  <2>1. max > 0 => given' < max
    BY <1>1, <1>2, <1>3, <1>8, <1>9
  <2> QED
    BY <1>1, <1>2, <1>3, <1>7, <1>9, <2>1 DEF ListInv, Newest
<1>10. CASE listing' = "listed"
  <2>1. given + n = matching \/ (max > 0 /\ given + n >= max)
    BY <1>1, <1>2, <1>3, <1>8, <1>10
  <2>2. Newest(given + n) = Newest(matching)
    BY <1>1, <1>2, <1>3, <2>1 DEF Newest
  <2> QED
    BY <1>1, <1>2, <1>3, <1>7, <1>10, <2>2 DEF ListInv, Newest
<1> QED BY <1>2, <1>9, <1>10

\* A second attempt starts from nothing.
LEMMA PageFailsInv == ListInv /\ PageFails => ListInv'
<1> SUFFICES ASSUME ListInv, PageFails PROVE ListInv'
  OBVIOUS
<1> USE DEF query
<1>1. /\ listing = "paging" /\ max \in Int /\ matching \in Nat /\ (max > 0 => 0 < max)
      /\ max' = max /\ matching' = matching /\ given' = 0 /\ ids' = <<>>
      /\ listing' \in {"paging", "failed"}
  BY DEF ListInv, PageFails
<1>2. Newest(0)' = <<>>
  BY <1>1 DEF Newest
<1> QED
  BY <1>1, <1>2 DEF ListInv

LEMMA ParseLimitInv == ListInv /\ ParseLimit => ListInv'
<1> SUFFICES ASSUME ListInv, ParseLimit PROVE ListInv'
  OBVIOUS
<1> USE DEF query
<1>1. Newest(0)' = <<>>
  BY DEF Newest, ListInv, ParseLimit
<1> QED
  BY <1>1 DEF ListInv, ParseLimit

\* Any other step of the command comes after the listing has returned.
ReadInv ==
  /\ ListInv
  /\ stage = "listing" <=> listing # "returned"

LEMMA ReadInvStep == ReadInv /\ [Next]_vars => ReadInv'
<1> SUFFICES ASSUME ReadInv, [Next]_vars PROVE ReadInv'
  OBVIOUS
<1> USE DEF ReadInv, query, listVars, one, sample
<1>1. CASE ListStep
  <2>1. stage' = stage /\ stage = "listing"
    BY <1>1 DEF ListStep
  <2>2. listing' # "returned"
    BY <1>1 DEF ListStep, ParseLimit, Page, PageFails
  <2> QED
    BY <1>1, <2>1, <2>2, ParseLimitInv, PageInv, PageFailsInv DEF ListStep
<1>2. CASE Listed
  BY <1>2 DEF Listed, ListInv
<1>3. CASE ShowOne \/ GetOne \/ SkipOne \/ Extract \/ Send \/ Answered \/ LoopEnds
  <2>1. listing = "returned" /\ listing' = "returned" /\ stage' # "listing"
    BY <1>3 DEF ShowOne, GetOne, SkipOne, Extract, Send, Answered, LoopEnds, NextId
  <2> QED BY <2>1 DEF ListInv
<1>4. CASE PrintRow \/ UNCHANGED vars
  <2>1. UNCHANGED <<listVars, stage>>
    BY <1>4 DEF PrintRow, vars
  <2> QED BY <2>1 DEF ListInv, Newest
<1> QED
  BY <1>1, <1>2, <1>3, <1>4 DEF Next

LEMMA ReadInvImpliesExact == ReadInv => ListingIsExact
<1> SUFFICES ASSUME ReadInv PROVE ListingIsExact
  OBVIOUS
<1>1. ASSUME listing = "paging" PROVE pageSize \in 1 .. maxPageSize
  <2>1. max \in Int /\ given \in Nat /\ (max > 0 => given < max) /\ ids = Newest(given)
    BY <1>1 DEF ReadInv, ListInv
  <2>2. Len(ids) = given
    BY <2>1 DEF Newest
  <2> QED BY <2>1, <2>2, ListingAssumption DEF pageSize
<1>2. ASSUME listing = "listed" PROVE ids = Newest(matching)
  BY <1>2 DEF ReadInv, ListInv
<1> QED
  BY <1>1, <1>2 DEF ListingIsExact, Newest

\* A listing that succeeds holds the newest max matching messages, each once, none
\* missing, whatever pages Gmail cuts (short, empty, too long, an entry without an
\* ID) and whether or not it was started over (ListMessages); and every request
\* asks for at least one message and at most a page.
THEOREM TheListingIsExact == Spec => []ListingIsExact
<1>1. Init => ReadInv
  BY ListInitInv DEF Init, ReadInv, ListInit
<1> QED
  BY <1>1, ReadInvStep, ReadInvImpliesExact, PTL DEF Spec

-----------------------------------------------------------------------------
(* The table.                                                              *)

\* The samples that a threshold pair trashes, labels or leaves unclassified.
Of(kind, cfg) == {i \in DOMAIN samples : Decide(samples[i], cfg, Labels).kind = kind}

\* The inductive invariant of the table.
TableInv ==
  /\ samples \in Seq(Inputs)
  /\ stage # "table" => DOMAIN table = {}
  /\ DOMAIN table \subseteq Grid
  /\ \A c \in DOMAIN table : table[c] = sweepCounts(c)

LEMMA SamplesAreFinite ==
  ASSUME samples \in Seq(Inputs), NEW T \in SUBSET DOMAIN samples
  PROVE  IsFiniteSet(T) /\ Cardinality(T) \in Nat
<1>1. Len(samples) \in Nat /\ DOMAIN samples = 1 .. Len(samples)
  OBVIOUS
<1>2. IsFiniteSet(DOMAIN samples)
  BY <1>1, FS_Interval
<1> QED
  BY <1>2, FS_Subset, FS_CardinalityType

LEMMA CountsAreCardinalities ==
  ASSUME NEW cfg
  PROVE  /\ sweepCounts(cfg).trash = Cardinality(Of("trash", cfg))
         /\ sweepCounts(cfg).label = Cardinality(Of("label", cfg))
         /\ sweepCounts(cfg).unclass = Cardinality(Of("unclassified", cfg))
         /\ \E T \in SUBSET Of("label", cfg) : sweepCounts(cfg).spill = Cardinality(T)
<1> DEFINE T == {i \in DOMAIN samples :
                   /\ Decide(samples[i], cfg, Labels).kind = "label"
                   /\ Cardinality(Cleared(samples[i], cfg.topic)) > 1}
<1>1. sweepCounts(cfg) =
        [trash |-> Cardinality(Of("trash", cfg)), label |-> Cardinality(Of("label", cfg)),
         unclass |-> Cardinality(Of("unclassified", cfg)), spill |-> Cardinality(T)]
  BY DEF sweepCounts, HowMany, Of
<1>2. T \in SUBSET Of("label", cfg)
  BY DEF Of
<1> HIDE DEF T
<1> QED
  BY <1>1, <1>2

LEMMA TableInvStep == TableInv /\ [Next]_vars => TableInv'
<1> SUFFICES ASSUME TableInv, [Next]_vars PROVE TableInv'
  OBVIOUS
<1> USE DEF TableInv, one, sample
<1>1. CASE /\ stage # "table" /\ UNCHANGED table
           /\ samples' = samples \/ \E a \in Inputs : samples' = Append(samples, a)
  <2>1. samples' \in Seq(Inputs)
    BY <1>1
  <2> QED BY <1>1, <2>1
<1>2. CASE ListStep \/ Listed \/ ShowOne \/ GetOne \/ SkipOne \/ Extract \/ Send \/ LoopEnds
  BY <1>1, <1>2 DEF ListStep, Listed, ShowOne, GetOne, SkipOne, Extract, Send, LoopEnds
<1>3. CASE Answered
  BY <1>1, <1>3 DEF Answered
<1>4. CASE PrintRow
  <2>1. PICK c \in Grid \ DOMAIN table :
          table' = [d \in DOMAIN table \cup {c} |-> IF d = c THEN sweepCounts(c) ELSE table[d]]
    BY <1>4 DEF PrintRow
  <2>2. stage' = stage /\ samples' = samples
    BY <1>4 DEF PrintRow
  <2>3. \A d : sweepCounts(d)' = sweepCounts(d)
    BY <2>2 DEF sweepCounts, HowMany
  <2>4. stage' = "table"
    BY <1>4, <2>2 DEF PrintRow
  <2>5. Grid' = Grid
    BY DEF Grid
  <2>6. \A d \in DOMAIN table : table[d] = sweepCounts(d)
    OBVIOUS
  <2> QED BY <2>1, <2>2, <2>3, <2>4, <2>5, <2>6
<1>5. CASE UNCHANGED vars
  <2>1. UNCHANGED <<stage, samples, table>>
    BY <1>5 DEF vars
  <2>2. \A d : sweepCounts(d)' = sweepCounts(d)
    BY <2>1 DEF sweepCounts, HowMany
  <2> QED BY <2>1, <2>2
<1> QED
  BY <1>2, <1>3, <1>4, <1>5 DEF Next

LEMMA TableInvHolds == Spec => []TableInv
<1>1. Init => TableInv
  BY DEF Init, TableInv
<1> QED
  BY <1>1, TableInvStep, PTL DEF Spec

LEMMA GridIsConfig ==
  /\ Grid \subseteq Config
  /\ \A i \in DOMAIN samples : samples \in Seq(Inputs) => AreAnswers(samples[i])
<1>1. Grid \subseteq Config
  BY TuneAssumption DEF Grid, Config
<1>2. \A i \in DOMAIN samples : samples \in Seq(Inputs) => samples[i] \in Inputs
  OBVIOUS
<1>3. \A a \in Inputs : AreAnswers(a)
  BY TuneAssumption
<1> QED BY <1>1, <1>2, <1>3

LEMMA DisjointUnion ==
  ASSUME NEW S, NEW T, IsFiniteSet(S), IsFiniteSet(T), S \cap T = {}
  PROVE  Cardinality(S \cup T) = Cardinality(S) + Cardinality(T)
<1>1. Cardinality(S \cup T) = Cardinality(S) + Cardinality(T) - Cardinality(S \cap T)
  BY FS_Union
<1>2. Cardinality(S \cap T) = 0
  BY FS_EmptySet
<1>3. Cardinality(S) \in Nat /\ Cardinality(T) \in Nat
  BY FS_CardinalityType
<1> QED BY <1>1, <1>2, <1>3

\* Every sample is of exactly one kind.
LEMMA KindsPartition ==
  ASSUME NEW cfg
  PROVE  /\ DOMAIN samples = Of("trash", cfg) \cup Of("label", cfg) \cup Of("unclassified", cfg)
         /\ Of("trash", cfg) \cap Of("label", cfg) = {}
         /\ (Of("trash", cfg) \cup Of("label", cfg)) \cap Of("unclassified", cfg) = {}
<1>1. \A i : Decide(samples[i], cfg, Labels).kind \in {"trash", "label", "unclassified"}
  BY DEF Decide
<1> QED
  BY <1>1 DEF Of

\* Every row of tune's table divides the whole sample (sweepCounts, printSweep): at
\* any threshold pair a message is trashed, labelled or left unclassified, and only
\* a labelled one spills over.
THEOREM TheRowsAddUp == Spec => []RowsAddUp
<1>1. TableInv => RowsAddUp
  <2> SUFFICES ASSUME TableInv, NEW c \in DOMAIN table
               PROVE  /\ table[c].trash + table[c].label + table[c].unclass = Len(samples)
                      /\ table[c].spill <= table[c].label
    BY DEF RowsAddUp
  <2> DEFINE t == Of("trash", c)
             l == Of("label", c)
             u == Of("unclassified", c)
  <2>1. samples \in Seq(Inputs) /\ table[c] = sweepCounts(c)
    BY DEF TableInv
  <2>2. t \in SUBSET DOMAIN samples /\ l \in SUBSET DOMAIN samples /\ u \in SUBSET DOMAIN samples
    BY DEF Of
  <2>3. /\ DOMAIN samples = t \cup l \cup u
        /\ t \cap l = {} /\ (t \cup l) \cap u = {}
    BY KindsPartition
  <2> HIDE DEF t, l, u
  <2>4. /\ IsFiniteSet(t) /\ IsFiniteSet(l) /\ IsFiniteSet(u) /\ IsFiniteSet(t \cup l)
        /\ Cardinality(t) \in Nat /\ Cardinality(l) \in Nat /\ Cardinality(u) \in Nat
        /\ Cardinality(t \cup l) \in Nat
    BY <2>1, <2>2, SamplesAreFinite
  <2>5. Cardinality(t \cup l) = Cardinality(t) + Cardinality(l)
    BY <2>3, <2>4, DisjointUnion
  <2>6. Cardinality(DOMAIN samples) = Cardinality(t \cup l) + Cardinality(u)
    BY <2>3, <2>4, DisjointUnion
  <2>7. Cardinality(DOMAIN samples) = Len(samples)
    <3>1. Len(samples) \in Nat /\ DOMAIN samples = 1 .. Len(samples)
      BY <2>1
    <3>2. Cardinality(1 .. Len(samples)) = Len(samples)
      BY <3>1, FS_Interval
    <3> QED BY <3>1, <3>2
  <2>8. /\ table[c].trash = Cardinality(t) /\ table[c].label = Cardinality(l)
        /\ table[c].unclass = Cardinality(u)
    BY <2>1, CountsAreCardinalities DEF t, l, u
  <2>9. PICK T \in SUBSET l : table[c].spill = Cardinality(T)
    BY <2>1, CountsAreCardinalities DEF l
  <2>10. Cardinality(T) <= Cardinality(l)
    BY <2>4, FS_Subset
  <2> QED
    BY <2>4, <2>5, <2>6, <2>7, <2>8, <2>9, <2>10
<1> QED
  BY <1>1, TableInvHolds, PTL

\* A larger class of samples has the larger count.
LEMMA LargerCounts ==
  ASSUME samples \in Seq(Inputs), NEW S \in SUBSET DOMAIN samples, NEW T \in SUBSET S
  PROVE  Cardinality(T) <= Cardinality(S)
BY SamplesAreFinite, FS_Subset

\* What a stricter junk threshold does to one message.
LEMMA StricterJunk ==
  ASSUME samples \in Seq(Inputs), NEW c \in Config, NEW d \in Config,
         c.topic = d.topic, c.junk <= d.junk
  PROVE  /\ Of("trash", d) \subseteq Of("trash", c)
         /\ Of("label", c) \subseteq Of("label", d)
         /\ Of("unclassified", c) \subseteq Of("unclassified", d)
<1>1. \A i \in DOMAIN samples : IsTrash(samples[i], d) => IsTrash(samples[i], c)
  BY GridIsConfig, JunkThresholdIsMonotone
<1> QED
  BY <1>1 DEF Of, Decide

\* And a stricter topic threshold.
LEMMA StricterTopic ==
  ASSUME samples \in Seq(Inputs), NEW c \in Config, NEW d \in Config,
         c.junk = d.junk, c.topic <= d.topic
  PROVE  /\ Of("trash", c) \subseteq Of("trash", d)
         /\ Of("label", d) \subseteq Of("label", c)
         /\ Of("unclassified", c) \subseteq Of("unclassified", d)
<1> SUFFICES ASSUME NEW i \in DOMAIN samples
             PROVE  LET a == samples[i]
                    IN  /\ IsTrash(a, c) => IsTrash(a, d)
                        /\ Cleared(a, d.topic) \subseteq Cleared(a, c.topic)
                        /\ Cleared(a, c.topic) = {} /\ IsTrash(a, d) => IsTrash(a, c)
  BY DEF Of, Decide
<1> DEFINE a == samples[i]
<1>1. AreAnswers(a)
  BY GridIsConfig
<1>2. IsTrash(a, c) => IsTrash(a, d)
  BY <1>1, TopicThresholdIsMonotone
<1>3. ASSUME NEW q \in Cleared(a, d.topic) PROVE q \in Cleared(a, c.topic)
  <2>1. q \in DOMAIN a /\ effectiveScore(a[q]) \in Int
    BY <1>1, ClearedScores
  <2>2. c.topic \in Int /\ d.topic \in Int
    BY DEF Config
  <2> QED BY <2>1, <2>2 DEF Cleared, isYes
<1>4. Cleared(a, c.topic) = {} /\ IsTrash(a, d) => IsTrash(a, c)
  BY DEF IsTrash
<1> QED BY <1>2, <1>3, <1>4

\* Raising the junk threshold never trashes more of the sample; raising the topic
\* threshold never trashes less of it (policy.Decide, as tune tabulates it).
THEOREM TheRowsAreMonotone == Spec => []RowsAreMonotone
<1>1. TableInv => RowsAreMonotone
  <2> SUFFICES ASSUME TableInv, NEW c \in DOMAIN table, NEW d \in DOMAIN table
               PROVE  /\ c.topic = d.topic /\ c.junk <= d.junk =>
                           /\ table[c].trash >= table[d].trash
                           /\ table[c].label <= table[d].label
                           /\ table[c].unclass <= table[d].unclass
                      /\ c.junk = d.junk /\ c.topic <= d.topic =>
                           /\ table[c].trash <= table[d].trash
                           /\ table[c].label >= table[d].label
                           /\ table[c].unclass <= table[d].unclass
    BY DEF RowsAreMonotone
  <2>1. samples \in Seq(Inputs) /\ c \in Config /\ d \in Config
    BY GridIsConfig DEF TableInv
  <2>2. ASSUME NEW b \in {c, d}
        PROVE  /\ table[b].trash = Cardinality(Of("trash", b))
               /\ table[b].label = Cardinality(Of("label", b))
               /\ table[b].unclass = Cardinality(Of("unclassified", b))
    BY CountsAreCardinalities DEF TableInv
  <2>3. \A kind, b : /\ Of(kind, b) \in SUBSET DOMAIN samples
                     /\ Cardinality(Of(kind, b)) \in Nat
    BY <2>1, SamplesAreFinite DEF Of
  <2>4. ASSUME c.topic = d.topic, c.junk <= d.junk
        PROVE  /\ table[c].trash >= table[d].trash
               /\ table[c].label <= table[d].label
               /\ table[c].unclass <= table[d].unclass
    <3>1. /\ Cardinality(Of("trash", d)) <= Cardinality(Of("trash", c))
          /\ Cardinality(Of("label", c)) <= Cardinality(Of("label", d))
          /\ Cardinality(Of("unclassified", c)) <= Cardinality(Of("unclassified", d))
      BY <2>1, <2>3, <2>4, StricterJunk, LargerCounts
    <3> QED BY <2>2, <2>3, <3>1
  <2>5. ASSUME c.junk = d.junk, c.topic <= d.topic
        PROVE  /\ table[c].trash <= table[d].trash
               /\ table[c].label >= table[d].label
               /\ table[c].unclass <= table[d].unclass
    <3>1. /\ Cardinality(Of("trash", c)) <= Cardinality(Of("trash", d))
          /\ Cardinality(Of("label", d)) <= Cardinality(Of("label", c))
          /\ Cardinality(Of("unclassified", c)) <= Cardinality(Of("unclassified", d))
      BY <2>1, <2>3, <2>5, StricterTopic, LargerCounts
    <3> QED BY <2>2, <2>3, <3>1
  <2> QED BY <2>4, <2>5
<1> QED
  BY <1>1, TableInvHolds, PTL

\* The trash column counts the messages the comment over Decide describes: junk was
\* affirmed and beats every affirmed topic by more than the margin.
THEOREM TheTrashColumnIsThePolicy == Spec => []TrashColumnIsThePolicy
<1>1. TableInv => TrashColumnIsThePolicy
  <2> SUFFICES ASSUME TableInv, NEW c \in DOMAIN table
               PROVE  table[c].trash
                        = Cardinality({i \in DOMAIN samples : JunkBeats(samples[i], c)})
    BY DEF TrashColumnIsThePolicy
  <2>1. table[c].trash = Cardinality(Of("trash", c))
    BY CountsAreCardinalities DEF TableInv
  <2>2. \A i \in DOMAIN samples :
          Decide(samples[i], c, Labels).kind = "trash" <=> JunkBeats(samples[i], c)
    <3> SUFFICES ASSUME NEW i \in DOMAIN samples
                 PROVE  Decide(samples[i], c, Labels).kind = "trash"
                          <=> JunkBeats(samples[i], c)
      OBVIOUS
    <3>1. AreAnswers(samples[i]) /\ c \in Config
      BY GridIsConfig DEF TableInv
    <3> QED
      BY <3>1, TrashKind, TrashIsThePolicy
  <2>3. Of("trash", c) = {i \in DOMAIN samples : JunkBeats(samples[i], c)}
    BY <2>2 DEF Of
  <2> QED BY <2>1, <2>3
<1> QED
  BY <1>1, TableInvHolds, PTL

-----------------------------------------------------------------------------
(* Least elements, and sequences joined.                                   *)

LEMMA LessThanIsWellFounded == IsWellFoundedOn({e \in Nat \X Nat : e[1] < e[2]}, Nat)
BY NatLessThanWellFounded, Zenon DEF OpToRel

LEMMA LeastOf ==
  ASSUME NEW T \in SUBSET Nat, T # {}
  PROVE  \E x \in T : \A y \in T : x <= y
<1>1. PICK x \in T : \A y \in T : <<y, x>> \notin {e \in Nat \X Nat : e[1] < e[2]}
  BY LessThanIsWellFounded, WFMin
<1>2. ASSUME NEW y \in T PROVE x <= y
  <2>1. ~(y < x)
    <3>1. <<y, x>> \notin {e \in Nat \X Nat : e[1] < e[2]}
      BY <1>1
    <3>2. <<y, x>> \in Nat \X Nat
      OBVIOUS
    <3> QED BY <3>1, <3>2
  <2>2. x \in Nat /\ y \in Nat
    OBVIOUS
  <2> QED BY <2>1, <2>2
<1> QED BY <1>2

\* What the recursion of FlattenSeq asks of f, for the first m lines.
Joins(s, f, m) == f = [i \in 1 .. m |-> IF i = 1 THEN s[i] ELSE f[i - 1] \o s[i]]

LEMMA OneMoreLine ==
  ASSUME NEW s, NEW m \in Nat \ {0, 1}, NEW f, Joins(s, f, m - 1)
  PROVE  \E g : Joins(s, g, m)
<1> DEFINE last == f[m - 1] \o s[m]
           g == [i \in 1 .. m |-> IF i = m THEN last ELSE f[i]]
<1>1. \A i \in 1 .. (m - 1) : f[i] = IF i = 1 THEN s[i] ELSE f[i - 1] \o s[i]
  <2> DEFINE r(i) == IF i = 1 THEN s[i] ELSE f[i - 1] \o s[i]
  <2>1. f = [i \in 1 .. (m - 1) |-> r(i)]
    BY DEF Joins
  <2> HIDE DEF r
  <2>2. \A i \in 1 .. (m - 1) : f[i] = r(i)
    BY <2>1
  <2> QED BY <2>2 DEF r
<1>2. /\ g[m] = last
      /\ \A i \in 1 .. (m - 1) : g[i] = f[i]
  <2>1. m \in 1 .. m /\ \A i \in 1 .. (m - 1) : i \in 1 .. m /\ i # m
    OBVIOUS
  <2> HIDE DEF last
  <2> QED BY <2>1
<1> HIDE DEF g
<1>3. ASSUME NEW i \in 1 .. m
      PROVE  g[i] = IF i = 1 THEN s[i] ELSE g[i - 1] \o s[i]
  <2>1. CASE i = m
    <3>1. m - 1 \in 1 .. (m - 1) /\ i # 1
      BY <2>1
    <3> QED BY <1>2, <2>1, <3>1
  <2>2. CASE i = 1
    <3>1. i \in 1 .. (m - 1)
      BY <2>2
    <3> QED BY <1>1, <1>2, <2>2, <3>1
  <2>3. CASE i # m /\ i # 1
    <3>1. i \in 1 .. (m - 1) /\ i - 1 \in 1 .. (m - 1)
      BY <2>3
    <3>2. f[i] = f[i - 1] \o s[i]
      BY <1>1, <2>3, <3>1
    <3> QED BY <1>2, <2>3, <3>1, <3>2
  <2> QED BY <2>1, <2>2, <2>3
<1>4. g = [i \in 1 .. m |-> g[i]]
  BY DEF g
<1>5. Joins(s, g, m)
  <2> DEFINE r(i) == IF i = 1 THEN s[i] ELSE g[i - 1] \o s[i]
  <2>1. \A i \in 1 .. m : g[i] = r(i)
    BY <1>3
  <2> HIDE DEF r
  <2>2. g = [i \in 1 .. m |-> r(i)]
    BY <1>4, <2>1
  <2> QED BY <2>2 DEF r, Joins
<1> QED BY <1>5

\* The recursion has a solution, and what solves it are sequences.
LEMMA FlattenJoins ==
  ASSUME NEW W, NEW s \in Seq(Seq(W)), Len(s) # 0
  PROVE  \E f : /\ FlattenSeq(s) = f[Len(s)]
                /\ \A i \in 1 .. Len(s) : f[i] \in Seq(W)
                /\ f[1] = s[1]
                /\ \A i \in 2 .. Len(s) : f[i] = f[i - 1] \o s[i]
<1> DEFINE n == Len(s)
           joined == CHOOSE f : Joins(s, f, n)
<1>1. n \in Nat \ {0} /\ \A i \in 1 .. n : s[i] \in Seq(W)
  OBVIOUS
<1>2. \A m \in 1 .. n : \E f : Joins(s, f, m)
  <2> DEFINE Bad == {m \in 1 .. n : ~\E f : Joins(s, f, m)}
  <2> SUFFICES ASSUME Bad # {} PROVE FALSE
    OBVIOUS
  <2> HIDE DEF n
  <2>1. PICK m \in Bad : \A k \in Bad : m <= k
    <3>1. Bad \in SUBSET Nat
      BY <1>1
    <3> HIDE DEF Bad
    <3> QED BY <3>1, LeastOf
  <2>2. m \in 1 .. n /\ ~\E f : Joins(s, f, m)
    BY <2>1
  <2>3. CASE m = 1
    <3>1. Joins(s, [i \in 1 .. 1 |-> s[i]], 1)
      <4> DEFINE g == [i \in 1 .. 1 |-> s[i]]
      <4>1. \A i \in 1 .. 1 : (IF i = 1 THEN s[i] ELSE g[i - 1] \o s[i]) = s[i]
        OBVIOUS
      <4>2. g = [i \in 1 .. 1 |-> IF i = 1 THEN s[i] ELSE g[i - 1] \o s[i]]
        BY <4>1
      <4> QED BY <4>2 DEF Joins
    <3> QED BY <2>2, <2>3, <3>1
  <2>4. CASE m # 1
    <3>1. m - 1 \in 1 .. n /\ m \in Nat \ {0, 1} /\ ~(m <= m - 1)
      BY <1>1, <2>2, <2>4
    <3>2. m - 1 \notin Bad
      <4> HIDE DEF Bad
      <4> QED BY <2>1, <3>1
    <3>3. PICK f : Joins(s, f, m - 1)
      BY <3>1, <3>2
    <3> QED BY <2>2, <3>1, <3>3, OneMoreLine
  <2> QED BY <2>3, <2>4
<1>3. Joins(s, joined, n)
  <2>1. \E f : Joins(s, f, n)
    BY <1>1, <1>2
  <2> QED BY <2>1
<1>4. FlattenSeq(s) = joined[n]
  BY Zenon DEF FlattenSeq, Joins
<1> HIDE DEF joined, n
<1>5. \A i \in 1 .. n : joined[i] = IF i = 1 THEN s[i] ELSE joined[i - 1] \o s[i]
  <2> DEFINE r(i) == IF i = 1 THEN s[i] ELSE joined[i - 1] \o s[i]
  <2>1. joined = [i \in 1 .. n |-> r(i)]
    BY <1>3 DEF Joins
  <2> HIDE DEF r
  <2>2. \A i \in 1 .. n : joined[i] = r(i)
    BY <2>1
  <2> QED BY <2>2 DEF r
<1>6. \A i \in 1 .. n : joined[i] \in Seq(W)
  <2> DEFINE Bad == {i \in 1 .. n : joined[i] \notin Seq(W)}
  <2> SUFFICES ASSUME Bad # {} PROVE FALSE
    OBVIOUS
  <2>1. PICK m \in Bad : \A k \in Bad : m <= k
    <3>1. Bad \in SUBSET Nat
      BY <1>1
    <3> HIDE DEF Bad
    <3> QED BY <3>1, LeastOf
  <2>2. m \in 1 .. n /\ joined[m] \notin Seq(W)
    BY <2>1
  <2>3. CASE m = 1
    BY <1>1, <1>5, <2>2, <2>3
  <2>4. CASE m # 1
    <3>1. m - 1 \in 1 .. n /\ m - 1 \notin Bad
      BY <1>1, <2>1, <2>2, <2>4
    <3>2. joined[m - 1] \in Seq(W) /\ s[m] \in Seq(W)
      BY <1>1, <2>2, <3>1
    <3>3. joined[m] = joined[m - 1] \o s[m]
      BY <1>5, <2>2, <2>4
    <3> QED BY <2>2, <3>2, <3>3
  <2> QED BY <2>3, <2>4
<1>7. joined[1] = s[1] /\ \A i \in 2 .. n : joined[i] = joined[i - 1] \o s[i]
  <2>1. 1 \in 1 .. n /\ \A i \in 2 .. n : i \in 1 .. n /\ i # 1
    BY <1>1
  <2>2. joined[1] = s[1]
    BY <1>5, <2>1
  <2>3. \A i \in 2 .. n : joined[i] = joined[i - 1] \o s[i]
    BY <1>5, <2>1
  <2> QED BY <2>2, <2>3
<1>8. /\ FlattenSeq(s) = joined[Len(s)]
      /\ \A i \in 1 .. Len(s) : joined[i] \in Seq(W)
      /\ joined[1] = s[1]
      /\ \A i \in 2 .. Len(s) : joined[i] = joined[i - 1] \o s[i]
  BY <1>4, <1>6, <1>7 DEF n
<1> QED BY <1>8

LEMMA FlattenIsSeq ==
  ASSUME NEW W, NEW s \in Seq(Seq(W))
  PROVE  FlattenSeq(s) \in Seq(W)
<1>1. CASE Len(s) = 0
  <2>1. FlattenSeq(s) = s
    BY <1>1, Zenon DEF FlattenSeq
  <2>2. s \in Seq(W)
    BY <1>1
  <2> QED BY <2>1, <2>2
<1>2. CASE Len(s) # 0
  <2>1. Len(s) \in 1 .. Len(s)
    BY <1>2
  <2> QED BY <1>2, <2>1, FlattenJoins
<1> QED BY <1>1, <1>2

LEMMA MinIsFirst ==
  ASSUME NEW I \in SUBSET Nat, I # {}
  PROVE  Min(I) \in I /\ \A j \in I : Min(I) <= j
BY LeastOf DEF Min

-----------------------------------------------------------------------------
(* The tokens of an HTML body.                                             *)

IsToken(token) == token.kind \in {"start", "end", "self", "text"} /\ token.words \in Seq(STRING)
AreTokens(tokens) == tokens \in Seq(ToSet(tokens)) /\ \A i \in DOMAIN tokens : IsToken(tokens[i])

\* The words of some lines, wherever they stand.
WordsOf(lines) == UNION {ToSet(lines[i]) : i \in DOMAIN lines}

\* How far a body has been read; what a token does next.
Reading == [hidden : BOOLEAN, lines : Seq(Seq(STRING)) \ {<<>>}]
Opens(token) == token.kind \in {"start", "end"} /\ token.tag \in Hiding
Shows(acc, token) == token.kind = "text" /\ ~acc.hidden

LEMMA OneLineMore ==
  ASSUME NEW X, NEW s \in Seq(X), NEW x \in X
  PROVE  /\ Append(s, x) \in Seq(X) \ {<<>>} /\ DOMAIN Append(s, x) = 1 .. (Len(s) + 1)
         /\ Append(s, x)[Len(s) + 1] = x /\ \A i \in 1 .. Len(s) : Append(s, x)[i] = s[i]
         /\ s \o <<x>> = Append(s, x)
OBVIOUS

LEMMA WordsOfNewLine ==
  ASSUME NEW lines \in Seq(Seq(STRING)) \ {<<>>}
  PROVE  /\ NewLine(lines) \in Seq(Seq(STRING)) \ {<<>>}
         /\ WordsOf(NewLine(lines)) = WordsOf(lines)
<1> DEFINE n == Len(lines)
           more == Append(lines, <<>>)
<1>1. /\ n \in Nat \ {0} /\ DOMAIN lines = 1 .. n
      /\ more \in Seq(Seq(STRING)) \ {<<>>} /\ DOMAIN more = 1 .. (n + 1)
      /\ more[n + 1] = <<>> /\ \A i \in 1 .. n : more[i] = lines[i]
  <2>1. n \in Nat \ {0} /\ DOMAIN lines = 1 .. n
    OBVIOUS
  <2>2. <<>> \in Seq(STRING) /\ lines \in Seq(Seq(STRING))
    OBVIOUS
  <2> QED BY <2>1, <2>2, OneLineMore
<1>2. 1 .. (n + 1) = (1 .. n) \cup {n + 1}
  BY <1>1
<1>3. ToSet(<<>>) = {}
  BY DEF ToSet
<1> HIDE DEF n, more
<1>4. WordsOf(more) = WordsOf(lines)
  BY <1>1, <1>2, <1>3 DEF WordsOf
<1> QED BY <1>1, <1>4 DEF NewLine, more

LEMMA WordsOfBoth ==
  ASSUME NEW s \in Seq(STRING), NEW t \in Seq(STRING)
  PROVE  s \o t \in Seq(STRING) /\ ToSet(s \o t) = ToSet(s) \cup ToSet(t)
<1> DEFINE u == s \o t
<1>1. /\ u \in Seq(STRING) /\ DOMAIN u = 1 .. (Len(s) + Len(t))
      /\ DOMAIN s = 1 .. Len(s) /\ DOMAIN t = 1 .. Len(t) /\ Len(s) \in Nat /\ Len(t) \in Nat
      /\ \A i \in 1 .. (Len(s) + Len(t)) : u[i] = IF i <= Len(s) THEN s[i] ELSE t[i - Len(s)]
      /\ \A i \in 1 .. Len(t) : Len(s) + i \in 1 .. (Len(s) + Len(t)) /\ u[Len(s) + i] = t[i]
  OBVIOUS
<1> HIDE DEF u
<1>2. ASSUME NEW w \in ToSet(u) PROVE w \in ToSet(s) \cup ToSet(t)
  <2>1. PICK i \in DOMAIN u : u[i] = w
    BY DEF ToSet
  <2>2. CASE i <= Len(s)
    <3>1. i \in DOMAIN s /\ s[i] = w
      BY <1>1, <2>1, <2>2
    <3> QED BY <3>1 DEF ToSet
  <2>3. CASE ~(i <= Len(s))
    <3>1. i - Len(s) \in DOMAIN t /\ t[i - Len(s)] = w
      BY <1>1, <2>1, <2>3
    <3> QED BY <3>1 DEF ToSet
  <2> QED BY <2>2, <2>3
<1>3. ASSUME NEW w \in ToSet(s) PROVE w \in ToSet(u)
  <2>1. PICK i \in DOMAIN s : s[i] = w
    BY DEF ToSet
  <2>2. i \in DOMAIN u /\ u[i] = w
    BY <1>1, <2>1
  <2> QED BY <2>2 DEF ToSet
<1>4. ASSUME NEW w \in ToSet(t) PROVE w \in ToSet(u)
  <2>1. PICK i \in DOMAIN t : t[i] = w
    BY DEF ToSet
  <2>2. Len(s) + i \in DOMAIN u /\ u[Len(s) + i] = w
    BY <1>1, <2>1
  <2> QED BY <2>2 DEF ToSet
<1>5. ToSet(u) = ToSet(s) \cup ToSet(t)
  BY <1>2, <1>3, <1>4
<1> QED BY <1>1, <1>5 DEF u

LEMMA WordsOfWrite ==
  ASSUME NEW lines \in Seq(Seq(STRING)) \ {<<>>}, NEW words \in Seq(STRING)
  PROVE  /\ Write(lines, words) \in Seq(Seq(STRING)) \ {<<>>}
         /\ WordsOf(Write(lines, words)) = WordsOf(lines) \cup ToSet(words)
<1> DEFINE n == Len(lines)
           full == lines[n] \o words
           more == SubSeq(lines, 1, n - 1) \o <<full>>
<1>1. n \in Nat \ {0} /\ DOMAIN lines = 1 .. n /\ lines[n] \in Seq(STRING)
  OBVIOUS
<1>2. full \in Seq(STRING) /\ ToSet(full) = ToSet(lines[n]) \cup ToSet(words)
  BY <1>1, WordsOfBoth
<1> HIDE DEF full
<1>3. /\ more \in Seq(Seq(STRING)) \ {<<>>} /\ DOMAIN more = 1 .. n
      /\ more[n] = full /\ \A i \in 1 .. (n - 1) : more[i] = lines[i]
  <2> DEFINE front == SubSeq(lines, 1, n - 1)
  <2>1. /\ front \in Seq(Seq(STRING)) /\ Len(front) = n - 1
        /\ \A i \in 1 .. (n - 1) : front[i] = lines[i]
    BY <1>1
  <2> HIDE DEF front, n
  <2>2. /\ front \o <<full>> \in Seq(Seq(STRING)) \ {<<>>}
        /\ DOMAIN (front \o <<full>>) = 1 .. ((n - 1) + 1)
        /\ (front \o <<full>>)[(n - 1) + 1] = full
        /\ \A i \in 1 .. (n - 1) : (front \o <<full>>)[i] = front[i]
    BY <1>2, <2>1, OneLineMore
  <2>3. (n - 1) + 1 = n
    BY <1>1
  <2> QED BY <2>1, <2>2, <2>3 DEF front
<1>4. 1 .. n = (1 .. (n - 1)) \cup {n}
  BY <1>1
<1> HIDE DEF n, more
<1>5. WordsOf(more) = WordsOf(lines) \cup ToSet(words)
  BY <1>1, <1>2, <1>3, <1>4 DEF WordsOf
<1>6. Write(lines, words) = more
  BY Zenon DEF Write, Front, Last, more, full, n
<1> QED BY <1>3, <1>5, <1>6

\* What one token does to the flag and to the words.
LEMMA ReadTokenEffect ==
  ASSUME NEW acc \in Reading, NEW token, IsToken(token)
  PROVE  /\ ReadToken(acc, token) \in Reading
         /\ ReadToken(acc, token).hidden =
              IF Opens(token) THEN token.kind = "start" ELSE acc.hidden
         /\ Shows(acc, token) =>
              WordsOf(ReadToken(acc, token).lines) = WordsOf(acc.lines) \cup ToSet(token.words)
         /\ ~Shows(acc, token) => WordsOf(ReadToken(acc, token).lines) = WordsOf(acc.lines)
<1> DEFINE next == ReadToken(acc, token)
<1> USE DEF IsToken
<1>0. /\ acc.hidden \in BOOLEAN /\ acc.lines \in Seq(Seq(STRING)) \ {<<>>}
      /\ acc = [hidden |-> acc.hidden, lines |-> acc.lines]
  BY DEF Reading
<1>1. CASE Opens(token)
  <2>1. next = [acc EXCEPT !.hidden = (token.kind = "start")]
    BY <1>1 DEF ReadToken, Opens
  <2>2. next.hidden = (token.kind = "start") /\ next.lines = acc.lines /\ next \in Reading
    BY <1>0, <2>1 DEF Reading
  <2>3. ~Shows(acc, token)
    BY <1>1 DEF Opens, Shows
  <2> QED BY <1>1, <2>2, <2>3
<1>2. CASE ~Opens(token) /\ token.kind # "text"
  <2>1. next = acc \/ next = [acc EXCEPT !.lines = NewLine(@)]
    BY <1>2 DEF ReadToken, Opens
  <2>2. ~Shows(acc, token)
    BY <1>2 DEF Shows
  <2>3. next.hidden = acc.hidden /\ next \in Reading /\ WordsOf(next.lines) = WordsOf(acc.lines)
    <3>1. CASE next = acc
      BY <3>1
    <3>2. CASE next = [acc EXCEPT !.lines = NewLine(@)]
      <4>1. next.hidden = acc.hidden /\ next.lines = NewLine(acc.lines)
            /\ next = [hidden |-> acc.hidden, lines |-> NewLine(acc.lines)]
        BY <1>0, <3>2
      <4>2. next \in Reading
        BY <1>0, <4>1, WordsOfNewLine DEF Reading
      <4> QED BY <1>0, <4>1, <4>2, WordsOfNewLine
    <3> QED BY <2>1, <3>1, <3>2
  <2> QED BY <1>2, <2>2, <2>3
<1>3. CASE token.kind = "text"
  <2>1. ~Opens(token)
    BY <1>3 DEF Opens
  <2>2. CASE acc.hidden
    <3>1. next = acc
      BY <1>3, <2>2 DEF ReadToken
    <3> QED BY <2>1, <2>2, <3>1 DEF Shows
  <2>3. CASE ~acc.hidden
    <3>1. next = [acc EXCEPT !.lines = Write(@, token.words)]
      BY <1>3, <2>3 DEF ReadToken
    <3>2. next.hidden = acc.hidden /\ next.lines = Write(acc.lines, token.words)
          /\ next = [hidden |-> acc.hidden, lines |-> Write(acc.lines, token.words)]
      BY <1>0, <3>1
    <3>3. next \in Reading
      BY <1>0, <3>2, WordsOfWrite DEF Reading
    <3>4. Shows(acc, token)
      BY <1>3, <2>3 DEF Shows
    <3> QED BY <1>0, <2>1, <3>2, <3>3, <3>4, WordsOfWrite
  <2> QED BY <2>2, <2>3
<1> QED BY <1>1, <1>2, <1>3

\* What is computed token by token: G of the result so far and the next token.
Steps(f, n, v, G) == f[0] = v /\ \A i \in 1 .. n : f[i] = G[<<f[i - 1], i>>]

\* A definition by recursion over the tokens has a solution.
LEMMA TokenRecursion ==
  ASSUME NEW n \in Nat, NEW V, NEW v \in V, NEW G \in [V \X (1 .. n) -> V]
  PROVE  \E f \in [0 .. n -> V] : Steps(f, n, v, G)
<1> DEFINE Upto(f, k) == f[0] = v /\ \A i \in 1 .. n : i < k => f[i] = G[<<f[i - 1], i>>]
           Bad == {k \in Nat : ~\E f \in [0 .. n -> V] : Upto(f, k)}
<1>1. Bad = {}
  <2> SUFFICES ASSUME Bad # {} PROVE FALSE
    OBVIOUS
  <2>1. PICK k \in Bad : \A m \in Bad : k <= m
    <3>1. Bad \in SUBSET Nat
      OBVIOUS
    <3> HIDE DEF Bad
    <3> QED BY <3>1, LeastOf
  <2>2. k \in Nat /\ ~\E f \in [0 .. n -> V] : Upto(f, k)
    BY <2>1
  <2>3. CASE k = 0
    <3>1. \A i \in 1 .. n : ~(i < 0)
      OBVIOUS
    <3>2. 0 \in 0 .. n
      OBVIOUS
    <3>3. Upto([i \in 0 .. n |-> v], 0)
      BY <3>1, <3>2
    <3>4. [i \in 0 .. n |-> v] \in [0 .. n -> V]
      OBVIOUS
    <3> HIDE DEF Upto
    <3> QED BY <2>2, <2>3, <3>3, <3>4
  <2>4. CASE k # 0
    <3>1. k - 1 \in Nat /\ k - 1 \notin Bad
      <4> HIDE DEF Bad
      <4>1. k \in Nat /\ k # 0
        BY <2>2, <2>4
      <4>2. \A m \in Bad : k <= m
        BY <2>1
      <4> QED BY <4>1, <4>2
    <3>2. PICK f \in [0 .. n -> V] : Upto(f, k - 1)
      <4> HIDE DEF Upto
      <4> QED BY <3>1
    <3> DEFINE g == [i \in 0 .. n |-> IF i = 0 THEN v ELSE G[<<f[i - 1], i>>]]
    <3>3. g \in [0 .. n -> V]
      <4>1. ASSUME NEW i \in 0 .. n, i # 0 PROVE G[<<f[i - 1], i>>] \in V
        <5>1. i - 1 \in 0 .. n /\ i \in 1 .. n
          BY <4>1
        <5>2. <<f[i - 1], i>> \in V \X (1 .. n)
          BY <5>1
        <5> QED BY <5>2
      <4> QED BY <4>1
    <3>4. g[0] = v /\ \A i \in 1 .. n : g[i] = G[<<f[i - 1], i>>]
      <4>1. 0 \in 0 .. n /\ \A i \in 1 .. n : i \in 0 .. n /\ i # 0
        OBVIOUS
      <4> QED BY <4>1
    <3> HIDE DEF g
    <3>5. ASSUME NEW i \in 1 .. n, i < k PROVE g[i] = G[<<g[i - 1], i>>]
      <4>1. g[i - 1] = f[i - 1]
        <5>1. CASE i = 1
          <6>1. i - 1 = 0
            BY <5>1
          <6> QED BY <3>2, <3>4, <6>1
        <5>2. CASE i # 1
          <6>1. i - 1 \in 1 .. n /\ i - 1 < k - 1
            BY <2>2, <3>5, <5>2
          <6> QED BY <3>2, <3>4, <6>1
        <5> QED BY <5>1, <5>2
      <4> QED BY <3>4, <4>1
    <3>6. Upto(g, k)
      BY <3>4, <3>5
    <3> HIDE DEF Upto
    <3> QED BY <2>2, <3>3, <3>6
  <2> QED BY <2>3, <2>4
<1>2. PICK f \in [0 .. n -> V] : Upto(f, n + 1)
  <2> HIDE DEF Upto
  <2>1. n + 1 \in Nat
    OBVIOUS
  <2> QED BY <1>1, <2>1
<1>3. \A i \in 1 .. n : i < n + 1
  OBVIOUS
<1> QED BY <1>2, <1>3 DEF Steps

NothingRead == [hidden |-> FALSE, lines |-> <<<<>>>>]

\* What the recursion of htmlToText asks of f.
Reads(tokens, f) ==
  f = [i \in 0 .. Len(tokens) |-> IF i = 0 THEN NothingRead ELSE ReadToken(f[i - 1], tokens[i])]

LEMMA HtmlIsRead ==
  ASSUME NEW tokens, AreTokens(tokens)
  PROVE  \E f \in [0 .. Len(tokens) -> Reading] :
           /\ htmlToText(tokens) = f[Len(tokens)].lines
           /\ f[0] = NothingRead
           /\ \A i \in 1 .. Len(tokens) : f[i] = ReadToken(f[i - 1], tokens[i])
<1> DEFINE n == Len(tokens)
           G == [x \in Reading \X (1 .. n) |-> ReadToken(x[1], tokens[x[2]])]
           read == CHOOSE f : Reads(tokens, f)
<1>1. n \in Nat /\ DOMAIN tokens = 1 .. n
  BY DEF AreTokens
<1>2. NothingRead \in Reading
  BY DEF NothingRead, Reading
<1>3. ASSUME NEW acc \in Reading, NEW i \in 1 .. n
      PROVE  ReadToken(acc, tokens[i]) \in Reading
  BY <1>1, ReadTokenEffect DEF AreTokens
<1>4. G \in [Reading \X (1 .. n) -> Reading]
  <2>1. ASSUME NEW x \in Reading \X (1 .. n) PROVE ReadToken(x[1], tokens[x[2]]) \in Reading
    <3>1. x[1] \in Reading /\ x[2] \in 1 .. n
      OBVIOUS
    <3> QED BY <1>3, <3>1
  <2> HIDE DEF n
  <2> QED BY <2>1
<1>5. ASSUME NEW acc \in Reading, NEW i \in 1 .. n
      PROVE  G[<<acc, i>>] = ReadToken(acc, tokens[i])
  <2>1. <<acc, i>> \in Reading \X (1 .. n)
    OBVIOUS
  <2> HIDE DEF n
  <2> QED BY <2>1
<1> HIDE DEF G, n
<1>6. PICK f \in [0 .. n -> Reading] :
        f[0] = NothingRead /\ \A i \in 1 .. n : f[i] = G[<<f[i - 1], i>>]
  <2>1. n \in Nat
    BY <1>1
  <2>2. \E f \in [0 .. n -> Reading] : Steps(f, n, NothingRead, G)
    BY <1>2, <1>4, <2>1, TokenRecursion
  <2> QED BY <2>2 DEF Steps
<1>7. Reads(tokens, f)
  <2> DEFINE r(i) == IF i = 0 THEN NothingRead ELSE ReadToken(f[i - 1], tokens[i])
  <2>1. ASSUME NEW i \in 0 .. n PROVE f[i] = r(i)
    <3>1. CASE i = 0
      BY <1>6, <3>1
    <3>2. CASE i # 0
      <4>1. i \in 1 .. n /\ i - 1 \in 0 .. n
        BY <1>1, <3>2
      <4>2. f[i - 1] \in Reading
        BY <1>6, <4>1
      <4>3. f[i] = ReadToken(f[i - 1], tokens[i])
        BY <1>5, <1>6, <4>1, <4>2
      <4> QED BY <3>2, <4>3
    <3> QED BY <3>1, <3>2
  <2> HIDE DEF r
  <2>2. f = [i \in 0 .. n |-> r(i)]
    BY <1>6, <2>1
  <2> QED BY <2>2, Zenon DEF Reads, r, n
<1>8. Reads(tokens, read)
  BY <1>7, Zenon
<1>9. htmlToText(tokens) = read[n].lines
  BY Zenon DEF htmlToText, Reads, NothingRead, n
<1> HIDE DEF read
<1>10. /\ read[0] = NothingRead
       /\ \A i \in 1 .. n : read[i] = ReadToken(read[i - 1], tokens[i])
  <2> DEFINE r(i) == IF i = 0 THEN NothingRead ELSE ReadToken(read[i - 1], tokens[i])
  <2>1. read = [i \in 0 .. n |-> r(i)]
    BY <1>8, Zenon DEF Reads, n
  <2> HIDE DEF r
  <2>2. \A i \in 0 .. n : read[i] = r(i)
    BY <2>1
  <2>3. 0 \in 0 .. n /\ \A i \in 1 .. n : i \in 0 .. n /\ i # 0
    BY <1>1
  <2> QED BY <2>2, <2>3 DEF r
<1>11. read \in [0 .. n -> Reading]
  <2> DEFINE Bad == {i \in 0 .. n : read[i] \notin Reading}
  <2>1. Bad = {}
    <3> SUFFICES ASSUME Bad # {} PROVE FALSE
      OBVIOUS
    <3>1. PICK m \in Bad : \A k \in Bad : m <= k
      <4>1. Bad \in SUBSET Nat
        BY <1>1
      <4> HIDE DEF Bad
      <4> QED BY <4>1, LeastOf
    <3>2. m \in 0 .. n /\ read[m] \notin Reading
      BY <3>1
    <3>3. m # 0
      BY <1>2, <1>10, <3>2
    <3>4. m \in 1 .. n /\ m - 1 \in 0 .. n /\ ~(m <= m - 1)
      BY <1>1, <3>2, <3>3
    <3>5. m - 1 \notin Bad
      <4> HIDE DEF Bad
      <4> QED BY <3>1, <3>4
    <3>6. read[m - 1] \in Reading
      BY <3>4, <3>5
    <3> QED BY <1>3, <1>10, <3>2, <3>4, <3>6
  <2>2. read = [i \in 0 .. n |-> read[i]]
    BY <1>8 DEF Reads, n
  <2> QED BY <2>1, <2>2
<1> QED BY <1>9, <1>10, <1>11 DEF n

\* The flag is set only inside a hiding element that nothing has ended.
LEMMA HiddenMeansInside ==
  ASSUME NEW tokens, AreTokens(tokens), NEW f \in [0 .. Len(tokens) -> Reading],
         f[0] = NothingRead,
         \A i \in 1 .. Len(tokens) : f[i] = ReadToken(f[i - 1], tokens[i]),
         NEW k \in DOMAIN tokens, f[k - 1].hidden
  PROVE  Inside(tokens, k, Hiding)
<1> DEFINE n == Len(tokens)
           Open(m) == \E s \in 1 .. m :
                        /\ tokens[s].kind = "start" /\ tokens[s].tag \in Hiding
                        /\ \A e \in s .. m : tokens[e].kind = "end" => tokens[e].tag \notin Hiding
           Bad == {m \in 0 .. n : f[m].hidden /\ ~Open(m)}
<1>1. n \in Nat /\ DOMAIN tokens = 1 .. n
  BY DEF AreTokens
<1>2. Bad = {}
  <2> SUFFICES ASSUME Bad # {} PROVE FALSE
    OBVIOUS
  <2>1. PICK m \in Bad : \A j \in Bad : m <= j
    <3>1. Bad \in SUBSET Nat
      BY <1>1
    <3> HIDE DEF Bad
    <3> QED BY <3>1, LeastOf
  <2>2. m \in 0 .. n /\ f[m].hidden /\ ~Open(m)
    BY <2>1
  <2>3. m # 0
    BY <2>2 DEF NothingRead
  <2>4. m \in 1 .. n /\ m - 1 \in 0 .. n /\ ~(m <= m - 1)
    BY <1>1, <2>2, <2>3
  <2>5. m - 1 \notin Bad
    <3> HIDE DEF Bad
    <3> QED BY <2>1, <2>4
  <2>6. f[m].hidden = IF Opens(tokens[m]) THEN tokens[m].kind = "start" ELSE f[m - 1].hidden
    <3>1. f[m - 1] \in Reading /\ f[m] = ReadToken(f[m - 1], tokens[m])
      BY <2>4
    <3>2. IsToken(tokens[m])
      BY <1>1, <2>4 DEF AreTokens
    <3> QED BY <3>1, <3>2, ReadTokenEffect
  <2>7. CASE Opens(tokens[m])
    <3>1. tokens[m].kind = "start" /\ tokens[m].tag \in Hiding
      BY <2>2, <2>6, <2>7 DEF Opens
    <3>2. m \in 1 .. m /\ \A e \in m .. m : e = m
      BY <2>4
    <3> QED BY <2>2, <3>1, <3>2
  <2>8. CASE ~Opens(tokens[m])
    <3>1. Open(m - 1)
      BY <2>2, <2>4, <2>5, <2>6, <2>8
    <3>2. PICK s \in 1 .. (m - 1) :
            /\ tokens[s].kind = "start" /\ tokens[s].tag \in Hiding
            /\ \A e \in s .. (m - 1) : tokens[e].kind = "end" => tokens[e].tag \notin Hiding
      BY <3>1
    <3>3. s \in 1 .. m /\ \A e \in s .. m : e \in s .. (m - 1) \/ e = m
      BY <2>4
    <3>4. tokens[m].kind = "end" => tokens[m].tag \notin Hiding
      BY <2>8 DEF Opens
    <3>5. \A e \in s .. m : tokens[e].kind = "end" => tokens[e].tag \notin Hiding
      BY <3>2, <3>3, <3>4
    <3> QED BY <2>2, <3>2, <3>3, <3>5
  <2> QED BY <2>7, <2>8
<1>3. k - 1 \in 0 .. n
  BY <1>1
<1>4. Open(k - 1)
  BY <1>2, <1>3
<1>5. PICK s \in 1 .. (k - 1) :
        /\ tokens[s].kind = "start" /\ tokens[s].tag \in Hiding
        /\ \A e \in s .. (k - 1) : tokens[e].kind = "end" => tokens[e].tag \notin Hiding
  BY <1>4
<1>6. \A e \in s .. (k - 1) : tokens[e].kind = "end" => tokens[e].tag # tokens[s].tag
  BY <1>5
<1> QED BY <1>5, <1>6, Zenon DEF Inside

\* After k tokens, the words shown are those of the texts met while the flag was down.
LEMMA WordsShown ==
  ASSUME NEW tokens, AreTokens(tokens), NEW f \in [0 .. Len(tokens) -> Reading],
         f[0] = NothingRead,
         \A i \in 1 .. Len(tokens) : f[i] = ReadToken(f[i - 1], tokens[i])
  PROVE  WordsOf(f[Len(tokens)].lines) =
           UNION {ToSet(tokens[i].words) : i \in {i \in DOMAIN tokens : Shows(f[i - 1], tokens[i])}}
<1> DEFINE n == Len(tokens)
           Met(m) == UNION {ToSet(tokens[i].words) : i \in {i \in 1 .. m : Shows(f[i - 1], tokens[i])}}
           Bad == {m \in 0 .. n : WordsOf(f[m].lines) # Met(m)}
<1>1. n \in Nat /\ DOMAIN tokens = 1 .. n
  BY DEF AreTokens
<1>2. Bad = {}
  <2> SUFFICES ASSUME Bad # {} PROVE FALSE
    OBVIOUS
  <2>1. PICK m \in Bad : \A j \in Bad : m <= j
    <3>1. Bad \in SUBSET Nat
      BY <1>1
    <3> HIDE DEF Bad
    <3> QED BY <3>1, LeastOf
  <2>2. m \in 0 .. n /\ WordsOf(f[m].lines) # Met(m)
    BY <2>1
  <2>3. CASE m = 0
    <3>1. Met(0) = {}
      <4>1. 1 .. 0 = {}
        OBVIOUS
      <4> QED BY <4>1
    <3>2. WordsOf(f[0].lines) = {}
      <4>1. f[0].lines = <<<<>>>>
        BY DEF NothingRead
      <4>2. \A i \in DOMAIN <<<<>>>> : <<<<>>>>[i] = <<>>
        OBVIOUS
      <4>3. ToSet(<<>>) = {}
        BY DEF ToSet
      <4> QED BY <4>1, <4>2, <4>3 DEF WordsOf
    <3> QED BY <2>2, <2>3, <3>1, <3>2
  <2>4. CASE m # 0
    <3>1. m \in 1 .. n /\ m - 1 \in 0 .. n /\ ~(m <= m - 1)
      BY <1>1, <2>2, <2>4
    <3>2. m - 1 \notin Bad
      <4> HIDE DEF Bad
      <4> QED BY <2>1, <3>1
    <3>3. WordsOf(f[m - 1].lines) = Met(m - 1)
      BY <3>1, <3>2
    <3>4. WordsOf(f[m].lines) =
            WordsOf(f[m - 1].lines)
              \cup IF Shows(f[m - 1], tokens[m]) THEN ToSet(tokens[m].words) ELSE {}
      <4>1. f[m - 1] \in Reading /\ f[m] = ReadToken(f[m - 1], tokens[m])
        BY <3>1
      <4>2. IsToken(tokens[m])
        BY <1>1, <3>1 DEF AreTokens
      <4>3. WordsOf(ReadToken(f[m - 1], tokens[m]).lines) =
              WordsOf(f[m - 1].lines)
                \cup IF Shows(f[m - 1], tokens[m]) THEN ToSet(tokens[m].words) ELSE {}
        <5> DEFINE acc == f[m - 1]
                   token == tokens[m]
        <5>1. acc \in Reading /\ IsToken(token)
          BY <4>1, <4>2
        <5> HIDE DEF acc, token
        <5>2. /\ Shows(acc, token) =>
                   WordsOf(ReadToken(acc, token).lines) = WordsOf(acc.lines) \cup ToSet(token.words)
              /\ ~Shows(acc, token) => WordsOf(ReadToken(acc, token).lines) = WordsOf(acc.lines)
          BY <5>1, ReadTokenEffect, Zenon
        <5> QED BY <5>2 DEF acc, token
      <4> QED BY <4>1, <4>3, Zenon
    <3>5. Met(m) = Met(m - 1) \cup IF Shows(f[m - 1], tokens[m]) THEN ToSet(tokens[m].words) ELSE {}
      <4> DEFINE P(i) == Shows(f[i - 1], tokens[i])
                 W(i) == ToSet(tokens[i].words)
      <4>1. 1 .. m = (1 .. (m - 1)) \cup {m}
        BY <1>1, <3>1
      <4> HIDE DEF P, W
      <4>2. UNION {W(i) : i \in {i \in 1 .. m : P(i)}} =
              (UNION {W(i) : i \in {i \in 1 .. (m - 1) : P(i)}}) \cup IF P(m) THEN W(m) ELSE {}
        BY <4>1
      <4> QED BY <4>2 DEF P, W
    <3> HIDE DEF Met
    <3> QED BY <2>2, <3>3, <3>4, <3>5
  <2> QED BY <2>3, <2>4
<1>3. n \in 0 .. n
  BY <1>1
<1>4. WordsOf(f[n].lines) = Met(n)
  <2> HIDE DEF Met
  <2> QED BY <1>2, <1>3
<1> QED BY <1>1, <1>4

\* Joining lines loses no word and adds none.
LEMMA FlattenedWords ==
  ASSUME NEW lines \in Seq(Seq(STRING))
  PROVE  ToSet(FlattenSeq(lines)) = WordsOf(lines)
<1> DEFINE n == Len(lines)
           Upto(m) == UNION {ToSet(lines[i]) : i \in 1 .. m}
<1>1. n \in Nat /\ DOMAIN lines = 1 .. n /\ \A i \in 1 .. n : lines[i] \in Seq(STRING)
  OBVIOUS
<1>2. CASE n = 0
  <2>1. FlattenSeq(lines) = lines
    BY <1>2, Zenon DEF FlattenSeq
  <2>2. DOMAIN lines = {}
    BY <1>2
  <2>3. ToSet(lines) = {} /\ WordsOf(lines) = {}
    BY <2>2 DEF ToSet, WordsOf
  <2> QED BY <2>1, <2>3
<1>3. CASE n # 0
  <2>1. PICK f : /\ FlattenSeq(lines) = f[Len(lines)]
                 /\ \A i \in 1 .. Len(lines) : f[i] \in Seq(STRING)
                 /\ f[1] = lines[1]
                 /\ \A i \in 2 .. Len(lines) : f[i] = f[i - 1] \o lines[i]
    BY <1>3, FlattenJoins
  <2> DEFINE Bad == {m \in 1 .. n : ToSet(f[m]) # Upto(m)}
  <2>2. Bad = {}
    <3> SUFFICES ASSUME Bad # {} PROVE FALSE
      OBVIOUS
    <3>1. PICK m \in Bad : \A k \in Bad : m <= k
      <4>1. Bad \in SUBSET Nat
        BY <1>1
      <4> HIDE DEF Bad
      <4> QED BY <4>1, LeastOf
    <3>2. m \in 1 .. n /\ ToSet(f[m]) # Upto(m)
      BY <3>1
    <3>3. CASE m = 1
      <4>1. 1 .. 1 = {1}
        OBVIOUS
      <4>2. Upto(1) = ToSet(lines[1])
        BY <4>1
      <4> QED BY <2>1, <3>2, <3>3, <4>2
    <3>4. CASE m # 1
      <4>1. m - 1 \in 1 .. n /\ m \in 2 .. n /\ ~(m <= m - 1)
        BY <1>1, <3>2, <3>4
      <4>2. m - 1 \notin Bad
        <5> HIDE DEF Bad
        <5> QED BY <3>1, <4>1
      <4>3. ToSet(f[m - 1]) = Upto(m - 1)
        BY <4>1, <4>2
      <4>4. ToSet(f[m]) = ToSet(f[m - 1]) \cup ToSet(lines[m])
        <5>1. f[m] = f[m - 1] \o lines[m] /\ f[m - 1] \in Seq(STRING) /\ lines[m] \in Seq(STRING)
          BY <1>1, <2>1, <4>1
        <5> QED BY <5>1, WordsOfBoth
      <4>5. Upto(m) = Upto(m - 1) \cup ToSet(lines[m])
        <5>1. 1 .. m = (1 .. (m - 1)) \cup {m}
          BY <1>1, <3>2
        <5> QED BY <5>1
      <4> HIDE DEF Upto
      <4> QED BY <3>2, <4>3, <4>4, <4>5
    <3> QED BY <3>3, <3>4
  <2>3. n \in 1 .. n
    BY <1>1, <1>3
  <2>4. ToSet(f[n]) = Upto(n)
    <3> HIDE DEF Upto
    <3> QED BY <2>2, <2>3
  <2> QED BY <1>1, <2>1, <2>4 DEF WordsOf
<1> QED BY <1>2, <1>3

\* For any HTML: no word of a script or style is read, no word outside script, style
\* and head is lost.
LEMMA OnlyVisibleWords ==
  ASSUME NEW html, AreTokens(html), NEW i \in DOMAIN html, html[i].kind = "text",
         NEW raw, raw = {j \in DOMAIN html :
                           html[j].kind = "text" /\ Inside(html, j, {"script", "style"})},
         \A j \in raw : html[j - 1].kind = "start" /\ html[j - 1].tag \in {"script", "style"},
         \A j \in raw : \A k \in DOMAIN html :
           html[k].kind = "text" /\ k \notin raw => ToSet(html[j].words) \cap ToSet(html[k].words) = {}
  PROVE  LET shown == ToSet(FlattenSeq(htmlToText(html)))
         IN  /\ i \in raw => ToSet(html[i].words) \cap shown = {}
             /\ ~Inside(html, i, Hiding) => ToSet(html[i].words) \subseteq shown
<1> DEFINE n == Len(html)
           shown == ToSet(FlattenSeq(htmlToText(html)))
<1>1. n \in Nat /\ DOMAIN html = 1 .. n
  BY DEF AreTokens
<1>2. PICK f \in [0 .. n -> Reading] :
        /\ htmlToText(html) = f[n].lines
        /\ f[0] = NothingRead
        /\ \A j \in 1 .. n : f[j] = ReadToken(f[j - 1], html[j])
  BY HtmlIsRead
<1>3. shown = UNION {ToSet(html[j].words) : j \in {j \in DOMAIN html : Shows(f[j - 1], html[j])}}
  <2>1. f[n] \in Reading
    BY <1>1, <1>2
  <2>2. f[n].lines \in Seq(Seq(STRING))
    BY <2>1 DEF Reading
  <2>3. shown = WordsOf(f[n].lines)
    BY <1>2, <2>2, FlattenedWords
  <2> QED BY <1>2, <2>3, WordsShown
<1> HIDE DEF shown
<1>4. ASSUME NEW j \in raw PROVE f[j - 1].hidden
  <2>1. j \in 1 .. n /\ html[j - 1].kind = "start" /\ html[j - 1].tag \in {"script", "style"}
    BY <1>1
  <2>2. j - 1 \in 1 .. n
    <3>1. \E s \in 1 .. (j - 1) : TRUE
      BY Zenon DEF Inside
    <3> QED BY <1>1, <2>1, <3>1
  <2>3. f[j - 1] = ReadToken(f[(j - 1) - 1], html[j - 1]) /\ f[(j - 1) - 1] \in Reading
    <3>1. (j - 1) - 1 \in 0 .. n
      BY <1>1, <2>2
    <3> QED BY <1>2, <2>2, <3>1
  <2>4. IsToken(html[j - 1])
    BY <1>1, <2>2 DEF AreTokens
  <2>5. Opens(html[j - 1])
    BY <2>1 DEF Opens, Hiding
  <2>6. ReadToken(f[(j - 1) - 1], html[j - 1]).hidden = (html[j - 1].kind = "start")
    <3> DEFINE acc == f[(j - 1) - 1]
               token == html[j - 1]
    <3>1. acc \in Reading /\ Opens(token)
          /\ IsToken(token)
      BY <2>3, <2>4, <2>5
    <3> HIDE DEF acc, token
    <3>2. ReadToken(acc, token).hidden = (token.kind = "start")
      BY <3>1, ReadTokenEffect
    <3> QED BY <3>2 DEF acc, token
  <2> QED BY <2>1, <2>3, <2>6
<1>5. ASSUME i \in raw PROVE ToSet(html[i].words) \cap shown = {}
  <2>1. ASSUME NEW j \in DOMAIN html, Shows(f[j - 1], html[j])
        PROVE  ToSet(html[i].words) \cap ToSet(html[j].words) = {}
    <3>1. html[j].kind = "text" /\ j \notin raw
      BY <1>4, <2>1 DEF Shows
    <3> QED BY <1>5, <3>1
  <2> QED BY <1>3, <2>1
<1>6. ASSUME ~Inside(html, i, Hiding) PROVE ToSet(html[i].words) \subseteq shown
  <2>1. ~f[i - 1].hidden
    BY <1>2, <1>6, HiddenMeansInside
  <2>2. Shows(f[i - 1], html[i])
    BY <2>1 DEF Shows
  <2> QED BY <1>3, <2>2
<1> QED BY <1>5, <1>6 DEF shown

\* Whichever part or token stream a body is read from, it is lines of words.
LEMMA BodiesAreLines ==
  ASSUME NEW p \in Payloads
  PROVE  cleanedBodyRaw(toMessage(p)) \in Seq(Seq(STRING))
<1> DEFINE msg == toMessage(p)
           html == msg.html
<1>1. msg.text \in Seq(Seq(STRING))
  BY TextsAreLines
<1>2. AreTokens(html)
  BY BodiesAreTokens, Zenon DEF AreTokens, IsToken
<1> HIDE DEF html
<1>3. htmlToText(html) \in Seq(Seq(STRING))
  <2>1. PICK f \in [0 .. Len(html) -> Reading] : htmlToText(html) = f[Len(html)].lines
    BY <1>2, HtmlIsRead
  <2>2. f[Len(html)] \in Reading
    <3>1. Len(html) \in Nat
      BY <1>2 DEF AreTokens
    <3> QED BY <3>1
  <2> QED BY <2>1, <2>2 DEF Reading
<1> HIDE DEF msg
<1>4. \/ cleanedBodyRaw(msg) = msg.text
      \/ cleanedBodyRaw(msg) = htmlToText(html)
      \/ cleanedBodyRaw(msg) = <<>>
  BY Zenon DEF cleanedBodyRaw, html
<1>5. cleanedBodyRaw(msg) \in Seq(Seq(STRING))
  <2>1. <<>> \in Seq(Seq(STRING))
    OBVIOUS
  <2> QED BY <1>1, <1>3, <1>4, <2>1, Zenon
<1> QED BY <1>5 DEF msg

-----------------------------------------------------------------------------
(* The paragraph the model reads.                                          *)

\* A sequence up to its first marked element.
BeforeFirst(s, I) == IF I = {} THEN s ELSE SubSeq(s, 1, Min(I) - 1)

LEMMA CutBeforeFirst ==
  ASSUME NEW X, NEW s \in Seq(X), NEW I \in SUBSET (1 .. Len(s))
  PROVE  \E k \in 0 .. Len(s) :
           /\ BeforeFirst(s, I) = SubSeq(s, 1, k)
           /\ \A j \in 1 .. k : j \notin I
           /\ k < Len(s) => k + 1 \in I
<1>1. Len(s) \in Nat
  OBVIOUS
<1>2. CASE I = {}
  <2>1. s = SubSeq(s, 1, Len(s))
    OBVIOUS
  <2>2. Len(s) \in 0 .. Len(s) /\ \A j \in 1 .. Len(s) : j \notin I
    BY <1>1, <1>2
  <2>3. BeforeFirst(s, I) = SubSeq(s, 1, Len(s))
    BY <1>2, <2>1, Zenon DEF BeforeFirst
  <2>4. ~(Len(s) < Len(s))
    BY <1>1
  <2> QED BY <2>2, <2>3, <2>4, Zenon
<1>3. CASE I # {}
  <2> DEFINE i == Min(I)
  <2>1. I \in SUBSET Nat
    BY <1>1
  <2>2. i \in I /\ \A j \in I : i <= j
    BY <1>3, <2>1, MinIsFirst
  <2>3. BeforeFirst(s, I) = SubSeq(s, 1, i - 1)
    BY <1>3 DEF BeforeFirst
  <2> HIDE DEF i
  <2>4. i \in 1 .. Len(s) /\ i - 1 \in 0 .. Len(s) /\ (i - 1) + 1 = i
    BY <1>1, <2>2
  <2>5. \A j \in 1 .. (i - 1) : j \notin I
    BY <2>2, <2>4
  <2> QED BY <2>2, <2>3, <2>4, <2>5
<1> QED BY <1>2, <1>3

\* The reply is cut at the first quote.
LEMMA CutAtQuote ==
  ASSUME NEW X, NEW lines \in Seq(X)
  PROVE  \E k \in 0 .. Len(lines) :
           /\ trimQuotedReply(lines) = SubSeq(lines, 1, k)
           /\ \A j \in 1 .. k : ~IsQuote(lines[j])
           /\ k < Len(lines) => IsQuote(lines[k + 1])
<1> DEFINE I == {i \in 1 .. Len(lines) : IsQuote(lines[i])}
           at == IF I # {} THEN Min(I) ELSE 0
           cut == trimQuotedReply(lines)
<1>1. cut = IF at = 0 THEN lines ELSE SubSeq(lines, 1, at - 1)
  BY Zenon DEF trimQuotedReply, UpTo, SelectInSeq
<1>2. I \in SUBSET (1 .. Len(lines))
  BY Zenon
<1>3. \A j \in 1 .. Len(lines) : j \in I <=> IsQuote(lines[j])
  BY Zenon
<1> HIDE DEF I, cut
<1>4. I # {} => Min(I) # 0
  BY <1>2, MinIsFirst
<1>5. cut = BeforeFirst(lines, I)
  BY <1>1, <1>4, Zenon DEF BeforeFirst
<1>6. PICK k \in 0 .. Len(lines) :
        /\ BeforeFirst(lines, I) = SubSeq(lines, 1, k)
        /\ \A j \in 1 .. k : j \notin I
        /\ k < Len(lines) => k + 1 \in I
  BY <1>2, CutBeforeFirst
<1>7. (\A j \in 1 .. k : j \in 1 .. Len(lines)) /\ (k < Len(lines) => k + 1 \in 1 .. Len(lines))
  OBVIOUS
<1> QED BY <1>3, <1>5, <1>6, <1>7, Zenon DEF cut

\* And the signature at the first delimiter.
LEMMA CutAtDelimiter ==
  ASSUME NEW X, NEW lines \in Seq(X)
  PROVE  \E k \in 0 .. Len(lines) :
           /\ trimSignature(lines) = SubSeq(lines, 1, k)
           /\ \A j \in 1 .. k : ~IsDelimiter(lines[j])
           /\ k < Len(lines) => IsDelimiter(lines[k + 1])
<1> DEFINE I == {i \in 1 .. Len(lines) : IsDelimiter(lines[i])}
           at == IF I # {} THEN Min(I) ELSE 0
           cut == trimSignature(lines)
<1>1. cut = IF at = 0 THEN lines ELSE SubSeq(lines, 1, at - 1)
  BY Zenon DEF trimSignature, UpTo, SelectInSeq
<1>2. I \in SUBSET (1 .. Len(lines))
  BY Zenon
<1>3. \A j \in 1 .. Len(lines) : j \in I <=> IsDelimiter(lines[j])
  BY Zenon
<1> HIDE DEF I, cut
<1>4. I # {} => Min(I) # 0
  BY <1>2, MinIsFirst
<1>5. cut = BeforeFirst(lines, I)
  BY <1>1, <1>4, Zenon DEF BeforeFirst
<1>6. PICK k \in 0 .. Len(lines) :
        /\ BeforeFirst(lines, I) = SubSeq(lines, 1, k)
        /\ \A j \in 1 .. k : j \notin I
        /\ k < Len(lines) => k + 1 \in I
  BY <1>2, CutBeforeFirst
<1>7. (\A j \in 1 .. k : j \in 1 .. Len(lines)) /\ (k < Len(lines) => k + 1 \in 1 .. Len(lines))
  OBVIOUS
<1> QED BY <1>3, <1>5, <1>6, <1>7, Zenon DEF cut

\* Together the text is cut at the first of both.
LEMMA TrimmedIsFresh ==
  ASSUME NEW X, NEW lines \in Seq(X)
  PROVE  \E k \in 0 .. Len(lines) :
           /\ trimSignature(trimQuotedReply(lines)) = SubSeq(lines, 1, k)
           /\ {i \in DOMAIN lines :
                 \A j \in 1 .. i : ~IsQuote(lines[j]) /\ ~IsDelimiter(lines[j])} = 1 .. k
<1> DEFINE first == trimQuotedReply(lines)
           L == Len(lines)
           Marked(j) == IsQuote(lines[j]) \/ IsDelimiter(lines[j])
<1>1. PICK m \in 0 .. Len(lines) :
        /\ first = SubSeq(lines, 1, m)
        /\ \A j \in 1 .. m : ~IsQuote(lines[j])
        /\ m < Len(lines) => IsQuote(lines[m + 1])
  BY CutAtQuote
<1> HIDE DEF first
<1>2. /\ first \in Seq(X) /\ Len(first) = m
      /\ \A j \in 1 .. m : first[j] = lines[j]
  BY <1>1
<1>3. PICK k \in 0 .. Len(first) :
        /\ trimSignature(first) = SubSeq(first, 1, k)
        /\ \A j \in 1 .. k : ~IsDelimiter(first[j])
        /\ k < Len(first) => IsDelimiter(first[k + 1])
  BY <1>2, CutAtDelimiter
<1>4. /\ m \in Nat /\ k \in Nat /\ k <= m /\ m <= L /\ L \in Nat
      /\ DOMAIN lines = 1 .. L
  BY <1>2
<1>5. SubSeq(first, 1, k) = SubSeq(lines, 1, k)
  <2>1. SubSeq(lines, 1, k) \in Seq(X) /\ Len(SubSeq(lines, 1, k)) = k
        /\ \A j \in 1 .. k : SubSeq(lines, 1, k)[j] = lines[j]
    BY <1>4
  <2>2. SubSeq(first, 1, k) \in Seq(X) /\ Len(SubSeq(first, 1, k)) = k
        /\ \A j \in 1 .. k : SubSeq(first, 1, k)[j] = first[j]
    BY <1>2, <1>4
  <2>3. \A j \in 1 .. k : first[j] = lines[j]
    BY <1>2, <1>4
  <2> QED BY <1>4, <2>1, <2>2, <2>3
<1>6. /\ \A j \in 1 .. m : ~IsQuote(lines[j])
      /\ m < L => IsQuote(lines[m + 1])
      /\ \A j \in 1 .. k : ~IsDelimiter(first[j])
      /\ k < m => IsDelimiter(first[k + 1])
  BY <1>1, <1>2, <1>3
<1> HIDE DEF L
<1>7. \A j \in 1 .. k : ~Marked(j)
  BY <1>2, <1>4, <1>6
<1>8. k < L => Marked(k + 1)
  <2>1. CASE k = m
    BY <1>6, <2>1
  <2>2. CASE k < m
    <3>1. first[k + 1] = lines[k + 1]
      BY <1>2, <1>4, <2>2
    <3> QED BY <1>6, <2>2, <3>1
  <2> QED BY <1>4, <2>1, <2>2
<1> HIDE DEF Marked
<1>9. {i \in 1 .. L : \A j \in 1 .. i : ~Marked(j)} = 1 .. k
  <2>1. ASSUME NEW i \in 1 .. L, i > k PROVE \E j \in 1 .. i : Marked(j)
    <3>1. k + 1 \in 1 .. i /\ k < L
      BY <1>4, <2>1
    <3> QED BY <1>8, <3>1
  <2>2. \A i \in 1 .. k : i \in 1 .. L /\ \A j \in 1 .. i : j \in 1 .. k
    BY <1>4
  <2>3. ASSUME NEW i \in 1 .. L
        PROVE  i \in 1 .. k <=> \A j \in 1 .. i : ~Marked(j)
    BY <1>4, <1>7, <2>1, <2>2
  <2> QED BY <2>2, <2>3
<1>10. k \in 0 .. Len(lines)
  BY <1>4 DEF L
<1>11. trimSignature(trimQuotedReply(lines)) = SubSeq(lines, 1, k)
  BY <1>3, <1>5 DEF first
<1>12. {i \in DOMAIN lines :
          \A j \in 1 .. i : ~IsQuote(lines[j]) /\ ~IsDelimiter(lines[j])} = 1 .. k
  BY <1>4, <1>9 DEF Marked
<1> QED BY <1>10, <1>11, <1>12

\* What the program makes of a body is its new text, as words.
LEMMA CleanedIsNewLines ==
  ASSUME NEW W, cleanedBodyRaw(message) \in Seq(Seq(W))
  PROVE  Cleaned(message) = NewLines /\ NewLines \in Seq(W)
<1> DEFINE lines == cleanedBodyRaw(message)
<1>1. PICK k \in 0 .. Len(lines) :
        /\ trimSignature(trimQuotedReply(lines)) = SubSeq(lines, 1, k)
        /\ {i \in DOMAIN lines :
              \A j \in 1 .. i : ~IsQuote(lines[j]) /\ ~IsDelimiter(lines[j])} = 1 .. k
  BY TrimmedIsFresh
<1>2. Cardinality(1 .. k) = k
  BY FS_Interval
<1>3. NewLines = FlattenSeq(SubSeq(lines, 1, k))
  BY <1>1, <1>2, Zenon DEF NewLines
<1>4. Cleaned(message) = FlattenSeq(SubSeq(lines, 1, k))
  BY <1>1, Zenon DEF Cleaned, collapseWhitespace
<1>5. SubSeq(lines, 1, k) \in Seq(Seq(W))
  <2> HIDE DEF lines
  <2>1. lines \in Seq(Seq(W))
    BY DEF lines
  <2> QED BY <2>1
<1> QED BY <1>3, <1>4, <1>5, FlattenIsSeq

\* Until it is sent, the request is about the message that was fetched.
ParagraphInv ==
  /\ stage \in {"extract", "answer"} => payload \in Payloads /\ message = toMessage(payload)
  /\ stage = "answer" => \E para \in ToParagraph(message) : request = Request(para)

LEMMA ParagraphInvStep == ParagraphInv /\ [Next]_vars => ParagraphInv'
<1> SUFFICES ASSUME ParagraphInv, [Next]_vars PROVE ParagraphInv'
  OBVIOUS
<1> USE DEF ParagraphInv, one
<1>1. CASE GetOne
  BY <1>1 DEF GetOne
<1>2. CASE Extract
  <2>1. stage = "extract" /\ stage' = "answer" /\ payload' = payload /\ message' = message
    BY <1>2 DEF Extract
  <2>2. \E para \in ToParagraph(message') : request' = Request(para)
    BY <1>2, <2>1, Zenon DEF Extract
  <2> QED BY <2>1, <2>2
<1>3. CASE ListStep \/ Listed \/ ShowOne \/ SkipOne \/ Send \/ Answered \/ LoopEnds \/ PrintRow
  <2>1. stage' \notin {"extract", "answer"}
    BY <1>3 DEF ListStep, Listed, ShowOne, SkipOne, Send, Answered, LoopEnds, PrintRow
  <2> QED BY <2>1
<1>4. CASE UNCHANGED vars
  <2>1. UNCHANGED <<stage, one>>
    BY <1>4 DEF vars
  <2>2. CASE stage = "answer"
    BY <2>1, <2>2, Zenon
  <2>3. CASE stage # "answer"
    BY <2>1, <2>3
  <2> QED BY <2>2, <2>3
<1> QED
  BY <1>1, <1>2, <1>3, <1>4 DEF Next

LEMMA ParagraphInvHolds == Spec => []ParagraphInv
<1>1. Init => ParagraphInv
  BY DEF Init, ParagraphInv
<1> QED
  BY <1>1, ParagraphInvStep, PTL DEF Spec

\* What a cut leaves, word by word.
LEMMA WhatACutLeaves ==
  ASSUME NEW W, NEW w \in Seq(W), NEW n \in Nat \ {0}, NEW cut \in truncateRunes(w, n)
  PROVE  /\ DOMAIN cut = 1 .. Len(cut)
         /\ Len(cut) = IF Len(w) < n THEN Len(w) ELSE n
         /\ Len(w) < n => cut = w
         /\ \A i \in 1 .. Len(cut) :
              IF i < n THEN cut[i] = w[i] ELSE cut[i] \in CutIn(w[i])
<1>1. CASE Len(w) < n
  <2>1. cut = w
    BY <1>1 DEF truncateRunes
  <2>2. Len(w) \in Nat /\ DOMAIN w = 1 .. Len(w)
    OBVIOUS
  <2>3. \A i \in 1 .. Len(w) : i < n
    BY <1>1, <2>2
  <2> QED BY <1>1, <2>1, <2>2, <2>3
<1>2. CASE ~(Len(w) < n)
  <2> DEFINE front == SubSeq(w, 1, n - 1)
  <2>1. PICK last \in CutIn(w[n]) : cut = Append(front, last)
    BY <1>2 DEF truncateRunes
  <2>2. front \in Seq(W) /\ Len(front) = n - 1 /\ \A i \in 1 .. (n - 1) : front[i] = w[i]
    BY <1>2
  <2> HIDE DEF front
  <2>3. /\ DOMAIN cut = 1 .. n /\ Len(cut) = n /\ cut[n] = last
        /\ \A i \in 1 .. (n - 1) : cut[i] = w[i]
    <3>1. front \in Seq(W \cup {last})
      BY <2>2
    <3> QED BY <2>1, <2>2, <3>1
  <2>4. \A i \in 1 .. n : IF i < n THEN cut[i] = w[i] ELSE cut[i] \in CutIn(w[i])
    <3> SUFFICES ASSUME NEW i \in 1 .. n
                 PROVE  IF i < n THEN cut[i] = w[i] ELSE cut[i] \in CutIn(w[i])
      OBVIOUS
    <3>1. CASE i < n
      BY <2>3, <3>1
    <3>2. CASE i = n
      BY <2>1, <2>3, <3>2
    <3> QED BY <3>1, <3>2
  <2> QED BY <1>2, <2>3, <2>4
<1> QED BY <1>1, <1>2

\* What the request of the message at hand says, in terms of its new text.
LEMMA RequestIsOfTheNewText ==
  ASSUME ParagraphInv, stage = "answer"
  PROVE  /\ NewLines \in Seq(STRING)
         /\ request.state.body \in truncateRunes(NewLines, Budget(message, NewLines))
         /\ request.model =
              IF (ToSet(request.state.body) \cup {message.subject, message.domain})
                   \cap (SpanishDomains \cup SpanishHosts \cup SpanishWords) # {}
              THEN "multilingual" ELSE "english"
<1>1. cleanedBodyRaw(message) \in Seq(Seq(STRING))
  <2>1. payload \in Payloads /\ message = toMessage(payload)
    BY DEF ParagraphInv
  <2> QED BY <2>1, BodiesAreLines, Zenon
<1>2. Cleaned(message) = NewLines /\ NewLines \in Seq(STRING)
  BY <1>1, CleanedIsNewLines
<1> DEFINE cuts == truncateRunes(NewLines, Budget(message, NewLines))
<1>3. PICK para \in ToParagraph(message) : request = Request(para)
  BY DEF ParagraphInv
<1>4. ToParagraph(message) =
        {[domain |-> message.domain, subject |-> message.subject, body |-> cut,
          hasAttachments |-> message.hasAttachments] : cut \in cuts}
  BY <1>2, Zenon DEF ToParagraph
<1> HIDE DEF cuts
<1>5. PICK cut \in cuts :
        para = [domain |-> message.domain, subject |-> message.subject, body |-> cut,
                hasAttachments |-> message.hasAttachments]
  BY <1>3, <1>4
<1>6. para.body = cut /\ para.subject = message.subject /\ para.domain = message.domain
  BY <1>5
<1>7. request.state = para /\ request.model = detectLangHint(para)
  BY <1>3 DEF Request
<1>8. request.state.body = cut
  BY <1>6, <1>7
<1>9. request.model =
        IF (ToSet(cut) \cup {message.subject, message.domain})
             \cap (SpanishDomains \cup SpanishHosts \cup SpanishWords) # {}
        THEN "multilingual" ELSE "english"
  BY <1>6, <1>7, Zenon DEF detectLangHint
<1> QED BY <1>2, <1>8, <1>9, Zenon DEF cuts

\* The model is asked about the text above the first quoted line, reply header or
\* signature delimiter, whichever is first; it is cut, if at all, where one of the two
\* budgets ends, and only the last word may be cut short (extract.ToParagraph).
THEOREM TheBodyIsTheNewText == Spec => []BodyIsTheNewText
<1>1. ParagraphInv => BodyIsTheNewText
  <2> SUFFICES ASSUME ParagraphInv, stage = "answer" PROVE BodyIsTheNewText
    BY DEF BodyIsTheNewText
  <2> DEFINE body == request.state.body
             budget == Budget(message, NewLines)
  <2>1. budget \in {ShortBudget, LongBudget} /\ budget \in Nat \ {0}
    BY ExtractAssumption DEF Budget
  <2>2. NewLines \in Seq(STRING) /\ body \in truncateRunes(NewLines, budget)
    BY RequestIsOfTheNewText
  <2> HIDE DEF budget, body
  <2>3. /\ DOMAIN body = 1 .. Len(body)
        /\ Len(body) = IF Len(NewLines) < budget THEN Len(NewLines) ELSE budget
        /\ Len(NewLines) < budget => body = NewLines
        /\ \A i \in 1 .. Len(body) :
             IF i < budget THEN body[i] = NewLines[i] ELSE body[i] \in CutIn(NewLines[i])
    BY <2>1, <2>2, WhatACutLeaves
  <2>4. Len(NewLines) \in Nat
    BY <2>2
  <2>5. body = NewLines \/ Len(body) \in {ShortBudget, LongBudget}
    BY <2>1, <2>3
  <2>6. Len(body) <= Len(NewLines)
    BY <2>1, <2>3, <2>4
  <2>7. ASSUME NEW i \in DOMAIN body
        PROVE  IF i < Len(body) THEN body[i] = NewLines[i] ELSE body[i] \in CutIn(NewLines[i])
    <3>1. i \in 1 .. Len(body) /\ Len(body) <= budget /\ Len(body) \in Nat
      BY <2>1, <2>3, <2>4
    <3>2. CASE i < budget
      BY <2>3, <3>1, <3>2 DEF CutIn
    <3>3. CASE ~(i < budget)
      <4>1. ~(i < Len(body))
        BY <2>1, <3>1, <3>3
      <4> QED BY <2>3, <3>1, <3>3, <4>1
    <3> QED BY <3>2, <3>3
  <2> QED BY <2>5, <2>6, <2>7, Zenon DEF BodyIsTheNewText, body
<1> QED
  BY <1>1, ParagraphInvHolds, PTL

\* The language is guessed twice, in the whole text and in what is left of it after the
\* cut (isMultilingualHeuristic, detectLangHint).  Spanish in a whole word within the
\* long budget, in the subject or in the sender's domain gets the long budget and the
\* multilingual model, wherever the cut falls.  A message with no sign at all gets the
\* short budget, and if it is sent as multilingual nevertheless, then because of the
\* word the cut left at its end.
THEOREM SpanishGetsTheLongBudget == Spec => []SpanishIsSentAsSpanish
<1>1. ParagraphInv => SpanishIsSentAsSpanish
  <2> SUFFICES ASSUME ParagraphInv, stage = "answer" PROVE SpanishIsSentAsSpanish
    BY DEF SpanishIsSentAsSpanish
  <2> DEFINE body == request.state.body
             text == NewLines
             CutAt(n) == Len(body) = IF Len(text) < n THEN Len(text) ELSE n
             whole == {text[i] : i \in {i \in DOMAIN text : i < LongBudget}}
             ends == {message.subject, message.domain}
             signs == SpanishDomains \cup SpanishHosts \cup SpanishWords
             spanish == \/ message.domain \in SpanishDomains
                        \/ (ToSet(text) \cup ends) \cap SpanishWords # {}
             budget == IF spanish THEN LongBudget ELSE ShortBudget
  <2>1. /\ text \in Seq(STRING) /\ DOMAIN text = 1 .. Len(text) /\ Len(text) \in Nat
        /\ LongBudget \in Nat \ {0} /\ ShortBudget \in Nat \ {0}
        /\ budget \in Nat \ {0}
    BY RequestIsOfTheNewText, ExtractAssumption
  <2>2. body \in truncateRunes(text, budget)
    <3>1. Budget(message, NewLines) = budget
      BY Zenon DEF Budget, isMultilingualHeuristic
    <3>2. body \in truncateRunes(NewLines, Budget(message, NewLines))
      BY RequestIsOfTheNewText, Zenon
    <3> QED BY <3>1, <3>2, Zenon
  <2>3. request.model = IF (ToSet(body) \cup ends) \cap signs # {}
                        THEN "multilingual" ELSE "english"
    BY RequestIsOfTheNewText, Zenon
  <2> HIDE DEF body, text, budget
  <2>4. /\ DOMAIN body = 1 .. Len(body) /\ CutAt(budget)
        /\ Len(text) < budget => body = text
        /\ \A i \in 1 .. Len(body) :
             IF i < budget THEN body[i] = text[i] ELSE body[i] \in CutIn(text[i])
    BY <2>1, <2>2, WhatACutLeaves
  <2>5. ASSUME message.domain \in SpanishDomains
                 \/ (whole \cup ends) \cap SpanishWords # {}
        PROVE  request.model = "multilingual" /\ CutAt(LongBudget)
    <3>1. whole \subseteq ToSet(text)
      BY DEF ToSet
    <3>2. spanish
      BY <2>5, <3>1
    <3>3. budget = LongBudget
      BY <3>2 DEF budget
    <3>4. whole \subseteq ToSet(body)
      <4> SUFFICES ASSUME NEW i \in DOMAIN text, i < LongBudget
                   PROVE  text[i] \in ToSet(body)
        OBVIOUS
      <4>1. i \in 1 .. Len(body)
        BY <2>1, <2>4, <3>3
      <4>2. body[i] = text[i]
        BY <2>4, <3>3, <4>1
      <4> QED BY <2>4, <4>1, <4>2 DEF ToSet
    <3>5. (ToSet(body) \cup ends) \cap signs # {}
      BY <2>5, <3>4
    <3> QED BY <2>3, <2>4, <3>3, <3>5
  <2>6. ASSUME message.domain \notin SpanishDomains,
               (ToSet(text) \cup ends) \cap (SpanishWords \cup SpanishHosts) = {},
               request.model # "english"
        PROVE  body # text /\ body[Len(body)] \in SpanishWords \cup SpanishHosts
    <3>1. ToSet(body) \cap (SpanishWords \cup SpanishHosts) # {}
      BY <2>3, <2>6, ExtractAssumption
    <3>2. body # text
      BY <2>6, <3>1
    <3>3. PICK i \in 1 .. Len(body) : body[i] \in SpanishWords \cup SpanishHosts
      BY <2>4, <3>1 DEF ToSet
    <3>4. ~(i < budget)
      <4> SUFFICES ASSUME i < budget PROVE FALSE
        OBVIOUS
      <4>1. body[i] = text[i]
        BY <2>4
      <4>2. i \in DOMAIN text
        BY <2>1, <2>4
      <4> QED BY <2>6, <3>3, <4>1, <4>2 DEF ToSet
    <3>5. i = Len(body)
      <4>1. Len(body) \in Nat /\ Len(body) <= budget
        BY <2>1, <2>4
      <4> HIDE DEF CutAt
      <4> QED BY <2>1, <3>4, <4>1
    <3> QED BY <3>2, <3>3, <3>5
  <2>7. ASSUME message.domain \notin SpanishDomains,
               (ToSet(text) \cup ends) \cap (SpanishWords \cup SpanishHosts) = {}
        PROVE  CutAt(ShortBudget)
    <3>1. ~spanish
      BY <2>7
    <3> QED BY <2>4, <3>1 DEF budget
  <2> QED
    BY <2>5, <2>6, <2>7, Zenon DEF SpanishIsSentAsSpanish, body, text
<1> QED
  BY <1>1, ParagraphInvHolds, PTL

\* What the model reads of an HTML body is its visible text, for every sequence
\* of tokens, whichever elements are nested, mixed up or left unclosed (htmlToText).
THEOREM OnlyVisibleTextIsRead == Spec => []VisibleTextOnly
<1>1. ParagraphInv => VisibleTextOnly
  <2> SUFFICES ASSUME ParagraphInv, stage = "extract", message.text = <<>> PROVE VisibleTextOnly
    BY DEF VisibleTextOnly
  <2> DEFINE html == message.html
             raw == {j \in DOMAIN html :
                       html[j].kind = "text" /\ Inside(html, j, {"script", "style"})}
             shown == ToSet(FlattenSeq(cleanedBodyRaw(message)))
  <2>1. payload \in Payloads /\ message = toMessage(payload)
    BY DEF ParagraphInv
  <2>2. /\ AreTokens(html)
        /\ \A j \in raw : html[j - 1].kind = "start" /\ html[j - 1].tag \in {"script", "style"}
        /\ \A j \in raw : \A k \in DOMAIN html : html[k].kind = "text" /\ k \notin raw =>
             ToSet(html[j].words) \cap ToSet(html[k].words) = {}
    BY <2>1, BodiesAreTokens, Zenon DEF AreTokens, IsToken
  <2>3. ASSUME NEW i \in DOMAIN html, html[i].kind = "text"
        PROVE  /\ Inside(html, i, {"script", "style"}) => ToSet(html[i].words) \cap shown = {}
               /\ ~Inside(html, i, Hiding) => ToSet(html[i].words) \subseteq shown
    <3>1. html # <<>>
      BY <2>3
    <3>2. cleanedBodyRaw(message) = htmlToText(html)
      BY <3>1, Zenon DEF cleanedBodyRaw
    <3>3. i \in raw <=> Inside(html, i, {"script", "style"})
      BY <2>3, Zenon
    <3>4. /\ i \in raw => ToSet(html[i].words) \cap ToSet(FlattenSeq(htmlToText(html))) = {}
          /\ ~Inside(html, i, Hiding) =>
               ToSet(html[i].words) \subseteq ToSet(FlattenSeq(htmlToText(html)))
      <4> HIDE DEF html
      <4> QED BY <2>2, <2>3, OnlyVisibleWords, Zenon
    <3> QED BY <3>2, <3>3, <3>4, Zenon
  <2> QED BY <2>3, Zenon DEF VisibleTextOnly
<1> QED
  BY <1>1, ParagraphInvHolds, PTL

-----------------------------------------------------------------------------
(* The parts of a message.                                                *)

\* A message is a tree: its parts can be ranked so that every part ranks above
\* its children.
PartsAreNested ==
  \E deepest \in Nat : \E rank \in [Parts -> 0 .. deepest] :
    \A part \in Parts : \A i \in DOMAIN part.parts : rank[part.parts[i]] < rank[part]

LEMMA ChildrenAreParts ==
  ASSUME NEW part \in Parts
  PROVE  /\ part.parts \in Seq(Parts)
         /\ DOMAIN part.parts = 1 .. Len(part.parts)
         /\ \A i \in DOMAIN part.parts : part.parts[i] \in Parts
<1>1. part.parts \in Seq(ToSet(part.parts)) /\ ToSet(part.parts) \subseteq Parts
  BY PartsAssumption
<1> QED BY <1>1

LEMMA ChildrenYieldSeq ==
  ASSUME NEW V, NEW f \in [Parts -> V], NEW part \in Parts
  PROVE  [i \in DOMAIN part.parts |-> f[part.parts[i]]] \in Seq(V)
<1> DEFINE n == Len(part.parts)
           r(i) == f[part.parts[i]]
<1>1. n \in Nat /\ DOMAIN part.parts = 1 .. n
  BY ChildrenAreParts
<1>2. \A i \in 1 .. n : r(i) \in V
  BY <1>1, ChildrenAreParts
<1> HIDE DEF n, r
<1>3. [i \in 1 .. n |-> r(i)] \in Seq(V)
  BY <1>1, <1>2
<1> QED BY <1>1, <1>3 DEF r

\* What is computed at a part: G of the part and the results of its children.
Solves(f, G) ==
  \A part \in Parts : f[part] = G[<<part, [i \in DOMAIN part.parts |-> f[part.parts[i]]]>>]

\* A definition by recursion over the parts has a solution.
LEMMA TreeRecursion ==
  ASSUME PartsAreNested, NEW V, NEW v \in V, NEW G \in [Parts \X Seq(V) -> V]
  PROVE  \E f \in [Parts -> V] : Solves(f, G)
<1>0. PICK deepest \in Nat : \E rank \in [Parts -> 0 .. deepest] :
        \A part \in Parts : \A i \in DOMAIN part.parts : rank[part.parts[i]] < rank[part]
  BY DEF PartsAreNested
<1>1. PICK rank \in [Parts -> 0 .. deepest] :
        \A part \in Parts : \A i \in DOMAIN part.parts : rank[part.parts[i]] < rank[part]
  BY <1>0
<1> DEFINE kids(f, part) == [i \in DOMAIN part.parts |-> f[part.parts[i]]]
           Below(f, k) == \A part \in Parts : rank[part] < k => f[part] = G[<<part, kids(f, part)>>]
           Bad == {k \in Nat : ~\E f \in [Parts -> V] : Below(f, k)}
<1>2. ASSUME NEW f \in [Parts -> V], NEW part \in Parts
      PROVE  kids(f, part) \in Seq(V)
  BY ChildrenYieldSeq
<1>3. Bad = {}
  <2> SUFFICES ASSUME Bad # {} PROVE FALSE
    OBVIOUS
  <2>1. PICK k \in Bad : \A m \in Bad : k <= m
    <3>1. Bad \in SUBSET Nat
      OBVIOUS
    <3> HIDE DEF Bad
    <3> QED BY <3>1, LeastOf
  <2>2. k \in Nat /\ ~\E f \in [Parts -> V] : Below(f, k)
    BY <2>1
  <2>3. CASE k = 0
    <3>1. \A part \in Parts : ~(rank[part] < 0)
      OBVIOUS
    <3>2. Below([part \in Parts |-> v], 0)
      BY <3>1
    <3>3. [part \in Parts |-> v] \in [Parts -> V]
      OBVIOUS
    <3> HIDE DEF Below
    <3> QED BY <2>2, <2>3, <3>2, <3>3
  <2>4. CASE k # 0
    <3>1. k - 1 \in Nat /\ k - 1 \notin Bad
      <4> HIDE DEF Bad
      <4>1. k \in Nat /\ k # 0
        BY <2>2, <2>4
      <4>2. \A m \in Bad : k <= m
        BY <2>1
      <4> QED BY <4>1, <4>2
    <3>2. PICK f \in [Parts -> V] : Below(f, k - 1)
      <4> HIDE DEF Below
      <4> QED BY <3>1
    <3> DEFINE g == [part \in Parts |-> G[<<part, kids(f, part)>>]]
    <3>3. g \in [Parts -> V]
      <4> HIDE DEF kids
      <4> QED BY <1>2
    <3>4. ASSUME NEW part \in Parts, rank[part] < k
          PROVE  g[part] = G[<<part, kids(g, part)>>]
      <4>1. ASSUME NEW i \in DOMAIN part.parts
            PROVE  g[part.parts[i]] = f[part.parts[i]]
        <5>1. part.parts[i] \in Parts /\ rank[part.parts[i]] < rank[part]
          BY <1>1, ChildrenAreParts
        <5>2. rank[part.parts[i]] < k - 1
          BY <3>4, <5>1, <2>2
        <5> HIDE DEF kids
        <5> QED BY <3>2, <5>1, <5>2
      <4>2. kids(g, part) = kids(f, part)
        BY <4>1
      <4> HIDE DEF kids
      <4> QED BY <4>2
    <3> HIDE DEF g, kids
    <3>5. Below(g, k)
      BY <3>4
    <3> HIDE DEF Below
    <3> QED BY <2>2, <3>3, <3>5
  <2> QED BY <2>3, <2>4
<1>4. PICK f \in [Parts -> V] : Below(f, deepest + 1)
  <2> HIDE DEF Below
  <2>1. deepest + 1 \in Nat
    OBVIOUS
  <2> QED BY <1>3, <2>1
<1>5. \A part \in Parts : rank[part] < deepest + 1
  OBVIOUS
<1>6. Solves(f, G)
  BY <1>4, <1>5 DEF Solves
<1> QED BY <1>6

\* r is the first body of s that is there, or there is none.
IsFirst(s, r) ==
  \/ r = <<>> /\ \A i \in DOMAIN s : s[i] = <<>>
  \/ \E i \in DOMAIN s :
       s[i] # <<>> /\ s[i] = r /\ \A j \in DOMAIN s : s[j] # <<>> => i <= j

LEMMA FirstOfIsFirst ==
  ASSUME NEW V, NEW s \in Seq(V)
  PROVE  IsFirst(s, FirstOf(s))
<1> DEFINE there == {i \in DOMAIN s : s[i] # <<>>}
<1>1. there \in SUBSET Nat
  OBVIOUS
<1>2. CASE there = {}
  <2>1. FirstOf(s) = <<>>
    BY <1>2, Zenon DEF FirstOf
  <2> QED BY <1>2, <2>1 DEF IsFirst
<1>3. CASE there # {}
  <2>1. FirstOf(s) = s[Min(there)]
    BY <1>3, Zenon DEF FirstOf
  <2>2. Min(there) \in there /\ \A j \in there : Min(there) <= j
    <3> HIDE DEF there
    <3> QED BY <1>1, <1>3, MinIsFirst
  <2> QED BY <2>1, <2>2 DEF IsFirst
<1> QED BY <1>2, <1>3

LEMMA FirstIsOne ==
  ASSUME NEW V, NEW s \in Seq(V), NEW r, NEW q, IsFirst(s, r), IsFirst(s, q)
  PROVE  r = q
<1>1. CASE \A i \in DOMAIN s : s[i] = <<>>
  BY <1>1 DEF IsFirst
<1>2. CASE ~\A i \in DOMAIN s : s[i] = <<>>
  <2>1. PICK i \in DOMAIN s :
          s[i] # <<>> /\ s[i] = r /\ \A j \in DOMAIN s : s[j] # <<>> => i <= j
    BY <1>2 DEF IsFirst
  <2>2. PICK k \in DOMAIN s :
          s[k] # <<>> /\ s[k] = q /\ \A j \in DOMAIN s : s[j] # <<>> => k <= j
    BY <1>2 DEF IsFirst
  <2>3. i <= k /\ k <= i /\ i \in Nat /\ k \in Nat
    BY <2>1, <2>2
  <2> QED BY <2>1, <2>2, <2>3
<1> QED BY <1>1, <1>2

\* The first of two sequences of bodies, one after the other.
LEMMA FirstOfBoth ==
  ASSUME NEW V, NEW s \in Seq(V), NEW t \in Seq(V)
  PROVE  FirstOf(s \o t) = IF FirstOf(s) # <<>> THEN FirstOf(s) ELSE FirstOf(t)
<1> DEFINE u == s \o t
<1>1. /\ u \in Seq(V) /\ Len(u) = Len(s) + Len(t)
      /\ Len(s) \in Nat /\ Len(t) \in Nat
      /\ DOMAIN u = 1 .. (Len(s) + Len(t)) /\ DOMAIN s = 1 .. Len(s) /\ DOMAIN t = 1 .. Len(t)
      /\ \A i \in 1 .. Len(s) : u[i] = s[i]
      /\ \A i \in 1 .. Len(t) : u[Len(s) + i] = t[i]
  OBVIOUS
<1>2. IsFirst(s, FirstOf(s)) /\ IsFirst(t, FirstOf(t))
  BY FirstOfIsFirst
<1>3. CASE FirstOf(s) # <<>>
  <2>1. PICK i \in DOMAIN s : /\ s[i] # <<>> /\ s[i] = FirstOf(s)
                              /\ \A j \in DOMAIN s : s[j] # <<>> => i <= j
    BY <1>2, <1>3 DEF IsFirst
  <2> HIDE DEF u
  <2>2. i \in DOMAIN u /\ u[i] = FirstOf(s)
    BY <1>1, <2>1
  <2>3. ASSUME NEW j \in DOMAIN u, u[j] # <<>> PROVE i <= j
    <3>1. CASE j \in DOMAIN s
      BY <1>1, <2>1, <2>3, <3>1
    <3>2. CASE j \notin DOMAIN s
      BY <1>1, <2>1, <3>2
    <3> QED BY <3>1, <3>2
  <2>4. IsFirst(u, FirstOf(s))
    BY <1>3, <2>2, <2>3 DEF IsFirst
  <2>5. IsFirst(u, FirstOf(u))
    BY <1>1, FirstOfIsFirst
  <2>6. FirstOf(u) = FirstOf(s)
    BY <1>1, <2>4, <2>5, FirstIsOne
  <2> QED BY <1>3, <2>6 DEF u
<1>4. CASE FirstOf(s) = <<>>
  <2>1. \A i \in DOMAIN s : s[i] = <<>>
    BY <1>2, <1>4 DEF IsFirst
  <2> HIDE DEF u
  <2>2. ASSUME NEW j \in DOMAIN u
        PROVE  \/ u[j] = <<>>
               \/ j - Len(s) \in DOMAIN t /\ u[j] = t[j - Len(s)]
    <3>1. CASE j \in DOMAIN s
      BY <1>1, <2>1, <3>1
    <3>2. CASE j \notin DOMAIN s
      <4>1. j - Len(s) \in 1 .. Len(t) /\ Len(s) + (j - Len(s)) = j
        BY <1>1, <3>2
      <4> QED BY <1>1, <4>1
    <3> QED BY <3>1, <3>2
  <2>3. IsFirst(u, FirstOf(t))
    <3>1. CASE FirstOf(t) = <<>> /\ \A i \in DOMAIN t : t[i] = <<>>
      <4>1. \A j \in DOMAIN u : u[j] = <<>>
        BY <2>2, <3>1
      <4> QED BY <3>1, <4>1 DEF IsFirst
    <3>2. CASE \E i \in DOMAIN t : /\ t[i] # <<>> /\ t[i] = FirstOf(t)
                                   /\ \A j \in DOMAIN t : t[j] # <<>> => i <= j
      <4>1. PICK i \in DOMAIN t : /\ t[i] # <<>> /\ t[i] = FirstOf(t)
                                  /\ \A j \in DOMAIN t : t[j] # <<>> => i <= j
        BY <3>2
      <4>2. Len(s) + i \in DOMAIN u /\ u[Len(s) + i] = t[i]
        BY <1>1, <4>1
      <4>3. ASSUME NEW j \in DOMAIN u, u[j] # <<>> PROVE Len(s) + i <= j
        <5>1. j - Len(s) \in DOMAIN t /\ t[j - Len(s)] # <<>>
          BY <2>2, <4>3
        <5>2. i <= j - Len(s)
          BY <4>1, <5>1
        <5> QED BY <1>1, <4>1, <5>2
      <4> QED BY <4>1, <4>2, <4>3 DEF IsFirst
    <3> QED BY <1>2, <3>1, <3>2 DEF IsFirst
  <2>4. IsFirst(u, FirstOf(u))
    BY <1>1, FirstOfIsFirst
  <2>5. FirstOf(u) = FirstOf(t)
    BY <1>1, <2>3, <2>4, FirstIsOne
  <2> QED BY <1>4, <2>5 DEF u
<1> QED BY <1>3, <1>4

LEMMA FirstOfOne ==
  ASSUME NEW V, NEW x \in V
  PROVE  FirstOf(<<x>>) = x
<1>1. <<x>> \in Seq(V) /\ DOMAIN <<x>> = {1} /\ <<x>>[1] = x
  OBVIOUS
<1>2. IsFirst(<<x>>, FirstOf(<<x>>))
  BY <1>1, FirstOfIsFirst
<1> QED BY <1>1, <1>2 DEF IsFirst

Bodies == {<<>>} \cup {part.body : part \in Parts}
Owns(parts, type) == [i \in DOMAIN parts |-> ownBody(parts[i], type)]

LEMMA OwnBodyIsBody ==
  ASSUME NEW part \in Parts, NEW type
  PROVE  ownBody(part, type) \in Bodies
<1>1. part.body \in Bodies /\ <<>> \in Bodies
  BY Zenon DEF Bodies
<1> QED BY <1>1, Zenon DEF ownBody

LEMMA OwnsAreBodies ==
  ASSUME NEW parts \in Seq(Parts), NEW type
  PROVE  /\ Owns(parts, type) \in Seq(Bodies)
         /\ DOMAIN Owns(parts, type) = DOMAIN parts
         /\ \A i \in DOMAIN parts : Owns(parts, type)[i] = ownBody(parts[i], type)
<1> DEFINE r(i) == ownBody(parts[i], type)
           n == Len(parts)
<1>1. n \in Nat /\ DOMAIN parts = 1 .. n
  OBVIOUS
<1>2. \A i \in 1 .. n : r(i) \in Bodies
  BY <1>1, OwnBodyIsBody
<1>3. Owns(parts, type) = [i \in 1 .. n |-> r(i)]
  BY <1>1, Zenon DEF Owns
<1> HIDE DEF r, n
<1>4. /\ [i \in 1 .. n |-> r(i)] \in Seq(Bodies)
      /\ DOMAIN [i \in 1 .. n |-> r(i)] = 1 .. n
      /\ \A i \in 1 .. n : [j \in 1 .. n |-> r(j)][i] = r(i)
  BY <1>1, <1>2
<1>5. \A i \in 1 .. n : r(i) = ownBody(parts[i], type)
  BY DEF r
<1> QED BY <1>1, <1>3, <1>4, <1>5

LEMMA FirstOfIsBody ==
  ASSUME NEW s \in Seq(Bodies)
  PROVE  FirstOf(s) \in Bodies
<1>1. IsFirst(s, FirstOf(s))
  BY FirstOfIsFirst
<1>2. <<>> \in Bodies /\ \A i \in DOMAIN s : s[i] \in Bodies
  BY DEF Bodies
<1> QED BY <1>1, <1>2 DEF IsFirst

LEMMA FirstBodyIsFirstOf ==
  ASSUME NEW parts \in Seq(Parts), NEW type
  PROVE  FirstBody(parts, type) = FirstOf(Owns(parts, type))
<1> DEFINE usable == {i \in DOMAIN parts :
                        parts[i].type = type /\ parts[i].decodes /\ parts[i].body # <<>>}
           owns == Owns(parts, type)
<1>1. /\ owns \in Seq(Bodies) /\ DOMAIN owns = DOMAIN parts
      /\ \A i \in DOMAIN parts : owns[i] = ownBody(parts[i], type)
  BY OwnsAreBodies
<1>2. \A i \in DOMAIN parts : i \in usable <=> owns[i] # <<>>
  BY <1>1, Zenon DEF ownBody
<1>3. \A i \in usable : owns[i] = parts[i].body
  BY <1>1, Zenon DEF ownBody
<1>4. usable \in SUBSET Nat
  OBVIOUS
<1>5. CASE usable = {}
  <2>1. FirstBody(parts, type) = <<>>
    BY <1>5, Zenon DEF FirstBody
  <2>2. \A i \in DOMAIN owns : owns[i] = <<>>
    BY <1>1, <1>2, <1>5, Zenon
  <2>3. IsFirst(owns, <<>>)
    BY <2>2, Zenon DEF IsFirst
  <2> HIDE DEF owns, usable
  <2> QED BY <1>1, <2>1, <2>3, FirstOfIsFirst, FirstIsOne DEF owns
<1>6. CASE usable # {}
  <2> DEFINE first == CHOOSE i \in usable : \A j \in usable : i <= j
  <2>1. FirstBody(parts, type) = parts[first].body
    BY <1>6, Zenon DEF FirstBody
  <2> HIDE DEF usable
  <2>2. first \in usable /\ \A j \in usable : first <= j
    BY <1>4, <1>6, LeastOf
  <2>3. usable \subseteq DOMAIN parts
    BY DEF usable
  <2> HIDE DEF first, owns
  <2>4. /\ first \in DOMAIN owns /\ owns[first] # <<>> /\ owns[first] = parts[first].body
        /\ \A j \in DOMAIN owns : owns[j] # <<>> => first <= j
    BY <1>1, <1>2, <1>3, <2>2, <2>3
  <2>5. IsFirst(owns, parts[first].body)
    BY <2>4, Zenon DEF IsFirst
  <2> QED BY <1>1, <2>1, <2>5, FirstOfIsFirst, FirstIsOne DEF owns
<1> QED BY <1>5, <1>6

LEMMA FirstBodyOfNone ==
  ASSUME NEW type
  PROVE  FirstBody(<<>>, type) = <<>>
<1>1. {i \in DOMAIN <<>> : <<>>[i].type = type /\ <<>>[i].decodes /\ <<>>[i].body # <<>>} = {}
  <2>1. DOMAIN <<>> = {}
    OBVIOUS
  <2> QED BY <2>1, Zenon
<1> QED BY <1>1, Zenon DEF FirstBody

LEMMA FirstBodyOfOne ==
  ASSUME NEW part \in Parts, NEW type
  PROVE  FirstBody(<<part>>, type) = ownBody(part, type)
<1>1. <<part>> \in Seq(Parts) /\ DOMAIN <<part>> = {1} /\ <<part>>[1] = part
  OBVIOUS
<1> DEFINE owns == Owns(<<part>>, type)
<1>2. owns \in Seq(Bodies) /\ DOMAIN owns = {1} /\ owns[1] = ownBody(part, type)
  BY <1>1, OwnsAreBodies
<1>3. FirstBody(<<part>>, type) = FirstOf(owns)
  BY <1>1, FirstBodyIsFirstOf
<1> HIDE DEF owns
<1>4. IsFirst(owns, FirstOf(owns))
  BY <1>2, FirstOfIsFirst
<1> QED BY <1>2, <1>3, <1>4 DEF IsFirst

LEMMA FirstBodyOfBoth ==
  ASSUME NEW s \in Seq(Parts), NEW t \in Seq(Parts), NEW type
  PROVE  FirstBody(s \o t, type) =
           IF FirstBody(s, type) # <<>> THEN FirstBody(s, type) ELSE FirstBody(t, type)
<1> DEFINE u == s \o t
           owns == Owns(s, type) \o Owns(t, type)
<1>1. /\ u \in Seq(Parts) /\ DOMAIN u = 1 .. (Len(s) + Len(t))
      /\ Len(s) \in Nat /\ Len(t) \in Nat
      /\ \A i \in 1 .. (Len(s) + Len(t)) : u[i] = IF i <= Len(s) THEN s[i] ELSE t[i - Len(s)]
  OBVIOUS
<1>2. /\ Owns(s, type) \in Seq(Bodies) /\ Owns(t, type) \in Seq(Bodies)
      /\ Len(Owns(s, type)) = Len(s) /\ Len(Owns(t, type)) = Len(t)
      /\ \A i \in 1 .. Len(s) : Owns(s, type)[i] = ownBody(s[i], type)
      /\ \A i \in 1 .. Len(t) : Owns(t, type)[i] = ownBody(t[i], type)
  BY OwnsAreBodies
<1>3. /\ DOMAIN owns = 1 .. (Len(s) + Len(t))
      /\ \A i \in 1 .. (Len(s) + Len(t)) :
           owns[i] = IF i <= Len(s) THEN Owns(s, type)[i] ELSE Owns(t, type)[i - Len(s)]
  <2> DEFINE a == Owns(s, type)
             b == Owns(t, type)
  <2>1. a \in Seq(Bodies) /\ b \in Seq(Bodies) /\ Len(a) = Len(s) /\ Len(b) = Len(t)
    BY <1>2
  <2> HIDE DEF a, b
  <2>2. /\ DOMAIN (a \o b) = 1 .. (Len(a) + Len(b))
        /\ \A i \in 1 .. (Len(a) + Len(b)) :
             (a \o b)[i] = IF i <= Len(a) THEN a[i] ELSE b[i - Len(a)]
    BY <2>1
  <2> QED BY <2>1, <2>2 DEF a, b
<1>4. /\ Owns(u, type) \in Seq(Bodies) /\ DOMAIN Owns(u, type) = DOMAIN u
      /\ \A i \in DOMAIN u : Owns(u, type)[i] = ownBody(u[i], type)
  <2> HIDE DEF u
  <2> QED BY <1>1, OwnsAreBodies
<1>5. Owns(u, type) = owns
  <2> HIDE DEF u
  <2>1. owns \in Seq(Bodies)
    BY <1>2
  <2> HIDE DEF owns
  <2>2. ASSUME NEW i \in 1 .. (Len(s) + Len(t))
        PROVE  Owns(u, type)[i] = owns[i]
    <3>1. CASE i <= Len(s)
      <4>1. i \in 1 .. Len(s)
        BY <1>1, <3>1
      <4>2. u[i] = s[i] /\ owns[i] = Owns(s, type)[i]
        BY <1>1, <1>3, <3>1
      <4> QED BY <1>1, <1>2, <1>4, <4>1, <4>2
    <3>2. CASE ~(i <= Len(s))
      <4>1. i - Len(s) \in 1 .. Len(t)
        BY <1>1, <3>2
      <4>2. u[i] = t[i - Len(s)] /\ owns[i] = Owns(t, type)[i - Len(s)]
        BY <1>1, <1>3, <3>2
      <4> QED BY <1>1, <1>2, <1>4, <4>1, <4>2
    <3> QED BY <3>1, <3>2
  <2>3. Owns(u, type) \in Seq(Bodies) /\ DOMAIN Owns(u, type) = DOMAIN owns
    BY <1>1, <1>3, <1>4
  <2> QED BY <1>1, <1>3, <2>1, <2>2, <2>3
<1>6. FirstBody(u, type) = FirstOf(owns)
  <2> HIDE DEF u, owns
  <2> QED BY <1>1, <1>5, FirstBodyIsFirstOf
<1>7. FirstOf(owns) = IF FirstOf(Owns(s, type)) # <<>> THEN FirstOf(Owns(s, type))
                                                       ELSE FirstOf(Owns(t, type))
  BY <1>2, FirstOfBoth
<1> QED BY <1>6, <1>7, FirstBodyIsFirstOf

LEMMA OneMoreBody ==
  ASSUME NEW V, NEW b \in Seq(V), NEW m \in 1 .. Len(b), m # 1
  PROVE  FirstOf(SubSeq(b, 1, m)) =
           IF FirstOf(SubSeq(b, 1, m - 1)) # <<>> THEN FirstOf(SubSeq(b, 1, m - 1)) ELSE b[m]
<1> DEFINE c == SubSeq(b, 1, m - 1)
<1>1. c \in Seq(V) /\ b[m] \in V /\ <<b[m]>> \in Seq(V)
  OBVIOUS
<1>2. SubSeq(b, 1, m) = c \o <<b[m]>>
  OBVIOUS
<1> HIDE DEF c
<1>3. FirstOf(c \o <<b[m]>>) = IF FirstOf(c) # <<>> THEN FirstOf(c) ELSE FirstOf(<<b[m]>>)
  BY <1>1, FirstOfBoth
<1>4. FirstOf(<<b[m]>>) = b[m]
  BY <1>1, FirstOfOne
<1> QED BY <1>2, <1>3, <1>4 DEF c

\* The first body of a tree's branches is the first of their first bodies.
LEMMA FirstBodyOfAll ==
  ASSUME NEW ss \in Seq(Seq(Parts)), NEW type
  PROVE  FirstBody(FlattenSeq(ss), type) =
           FirstOf([i \in DOMAIN ss |-> FirstBody(ss[i], type)])
<1> DEFINE n == Len(ss)
           r(i) == FirstBody(ss[i], type)
           b == [i \in 1 .. n |-> r(i)]
<1>1. n \in Nat /\ DOMAIN ss = 1 .. n /\ \A i \in 1 .. n : ss[i] \in Seq(Parts)
  OBVIOUS
<1>2. \A i \in 1 .. n : r(i) \in Bodies
  BY <1>1, FirstBodyIsFirstOf, OwnsAreBodies, FirstOfIsBody
<1>3. b \in Seq(Bodies) /\ Len(b) = n /\ \A i \in 1 .. n : b[i] = r(i)
  <2> HIDE DEF n, r
  <2> QED BY <1>1, <1>2
<1>4. b = [i \in DOMAIN ss |-> FirstBody(ss[i], type)]
  BY <1>1
<1>5. CASE n = 0
  <2>1. FlattenSeq(ss) = <<>>
    <3>1. FlattenSeq(ss) = ss
      BY <1>5, Zenon DEF FlattenSeq
    <3> QED BY <1>5, <3>1
  <2>2. FirstOf(b) = <<>>
    <3> HIDE DEF b
    <3>1. DOMAIN b = {}
      BY <1>3, <1>5
    <3> QED BY <1>3, <3>1, FirstOfIsFirst DEF IsFirst
  <2> QED BY <1>4, <2>1, <2>2, FirstBodyOfNone, Zenon
<1>6. CASE n # 0
  <2>1. PICK f : /\ FlattenSeq(ss) = f[Len(ss)]
                 /\ \A i \in 1 .. Len(ss) : f[i] \in Seq(Parts)
                 /\ f[1] = ss[1]
                 /\ \A i \in 2 .. Len(ss) : f[i] = f[i - 1] \o ss[i]
    BY <1>6, FlattenJoins
  <2> DEFINE Bad == {m \in 1 .. n : FirstBody(f[m], type) # FirstOf(SubSeq(b, 1, m))}
  <2>2. Bad = {}
    <3> SUFFICES ASSUME Bad # {} PROVE FALSE
      OBVIOUS
    <3> HIDE DEF b
    <3>1. PICK m \in Bad : \A k \in Bad : m <= k
      <4>1. Bad \in SUBSET Nat
        BY <1>1
      <4> HIDE DEF Bad
      <4> QED BY <4>1, LeastOf
    <3>2. m \in 1 .. n /\ FirstBody(f[m], type) # FirstOf(SubSeq(b, 1, m))
      BY <3>1
    <3>3. CASE m = 1
      <4>1. b \in Seq(Bodies) /\ 1 \in 1 .. Len(b)
        BY <1>3, <3>2, <3>3
      <4> DEFINE c == SubSeq(b, 1, 1)
      <4>2. c \in Seq(Bodies) /\ DOMAIN c = {1} /\ c[1] = b[1]
        BY <4>1
      <4>4. FirstOf(c) = b[1]
        <5> HIDE DEF c
        <5> QED BY <4>2, FirstOfIsFirst DEF IsFirst
      <4>3. b[1] = FirstBody(f[1], type)
        BY <1>3, <2>1, <3>2, <3>3
      <4> QED BY <3>2, <3>3, <4>3, <4>4
    <3>4. CASE m # 1
      <4>1. m - 1 \in 1 .. n /\ m \in 2 .. n /\ ~(m <= m - 1)
        BY <1>1, <3>2, <3>4
      <4>2. m - 1 \notin Bad
        <5> HIDE DEF Bad
        <5> QED BY <3>1, <4>1
      <4>3. FirstBody(f[m - 1], type) = FirstOf(SubSeq(b, 1, m - 1))
        BY <4>1, <4>2
      <4>4. FirstBody(f[m], type) =
              IF FirstBody(f[m - 1], type) # <<>> THEN FirstBody(f[m - 1], type)
                                                 ELSE FirstBody(ss[m], type)
        <5>1. f[m] = f[m - 1] \o ss[m] /\ f[m - 1] \in Seq(Parts) /\ ss[m] \in Seq(Parts)
          BY <1>1, <2>1, <4>1
        <5> QED BY <5>1, FirstBodyOfBoth
      <4>5. FirstOf(SubSeq(b, 1, m)) =
              IF FirstOf(SubSeq(b, 1, m - 1)) # <<>> THEN FirstOf(SubSeq(b, 1, m - 1)) ELSE b[m]
        BY <1>3, <3>2, <3>4, OneMoreBody
      <4>6. b[m] = FirstBody(ss[m], type)
        BY <1>3, <3>2
      <4> QED BY <3>2, <4>3, <4>4, <4>5, <4>6
    <3> QED BY <3>3, <3>4
  <2>3. n \in 1 .. n
    BY <1>1, <1>6
  <2>4. FirstBody(FlattenSeq(ss), type) = FirstOf(SubSeq(b, 1, n))
    <3> HIDE DEF b
    <3> QED BY <2>1, <2>2, <2>3
  <2>5. SubSeq(b, 1, n) = b
    <3> HIDE DEF b, n
    <3> QED BY <1>3, <1>1
  <2> QED BY <1>4, <2>4, <2>5, Zenon
<1> QED BY <1>5, <1>6

HasFile(parts) == \E i \in DOMAIN parts : parts[i].file

LEMMA HasFileOfBoth ==
  ASSUME NEW s \in Seq(Parts), NEW t \in Seq(Parts)
  PROVE  HasFile(s \o t) <=> HasFile(s) \/ HasFile(t)
<1> DEFINE u == s \o t
<1>1. /\ DOMAIN u = 1 .. (Len(s) + Len(t)) /\ DOMAIN s = 1 .. Len(s) /\ DOMAIN t = 1 .. Len(t)
      /\ Len(s) \in Nat /\ Len(t) \in Nat
      /\ \A i \in 1 .. (Len(s) + Len(t)) : u[i] = IF i <= Len(s) THEN s[i] ELSE t[i - Len(s)]
  OBVIOUS
<1> HIDE DEF u
<1>2. ASSUME HasFile(u) PROVE HasFile(s) \/ HasFile(t)
  <2>1. PICK i \in DOMAIN u : u[i].file
    BY <1>2 DEF HasFile
  <2>2. CASE i <= Len(s)
    <3>1. i \in DOMAIN s /\ u[i] = s[i]
      BY <1>1, <2>2
    <3> QED BY <2>1, <3>1, Zenon DEF HasFile
  <2>3. CASE ~(i <= Len(s))
    <3>1. i - Len(s) \in DOMAIN t /\ u[i] = t[i - Len(s)]
      BY <1>1, <2>3
    <3> QED BY <2>1, <3>1, Zenon DEF HasFile
  <2> QED BY <2>2, <2>3
<1>3. ASSUME HasFile(s) PROVE HasFile(u)
  <2>1. PICK i \in DOMAIN s : s[i].file
    BY <1>3 DEF HasFile
  <2>2. i \in DOMAIN u /\ u[i] = s[i]
    BY <1>1
  <2> QED BY <2>1, <2>2, Zenon DEF HasFile
<1>4. ASSUME HasFile(t) PROVE HasFile(u)
  <2>1. PICK i \in DOMAIN t : t[i].file
    BY <1>4 DEF HasFile
  <2>2. Len(s) + i \in DOMAIN u /\ u[Len(s) + i] = t[i]
    BY <1>1
  <2> QED BY <2>1, <2>2, Zenon DEF HasFile
<1> QED BY <1>2, <1>3, <1>4 DEF u

LEMMA HasFileOfAll ==
  ASSUME NEW ss \in Seq(Seq(Parts))
  PROVE  HasFile(FlattenSeq(ss)) <=> \E i \in DOMAIN ss : HasFile(ss[i])
<1> DEFINE n == Len(ss)
<1>1. n \in Nat /\ DOMAIN ss = 1 .. n /\ \A i \in 1 .. n : ss[i] \in Seq(Parts)
  OBVIOUS
<1>2. CASE n = 0
  <2>1. FlattenSeq(ss) = ss
    BY <1>2, Zenon DEF FlattenSeq
  <2>2. DOMAIN ss = {}
    BY <1>2
  <2> QED BY <2>1, <2>2, Zenon DEF HasFile
<1>3. CASE n # 0
  <2>1. PICK f : /\ FlattenSeq(ss) = f[Len(ss)]
                 /\ \A i \in 1 .. Len(ss) : f[i] \in Seq(Parts)
                 /\ f[1] = ss[1]
                 /\ \A i \in 2 .. Len(ss) : f[i] = f[i - 1] \o ss[i]
    BY <1>3, FlattenJoins
  <2> DEFINE Upto(m) == \E i \in 1 .. m : HasFile(ss[i])
             Bad == {m \in 1 .. n : ~(HasFile(f[m]) <=> Upto(m))}
  <2>2. Bad = {}
    <3> SUFFICES ASSUME Bad # {} PROVE FALSE
      OBVIOUS
    <3>1. PICK m \in Bad : \A k \in Bad : m <= k
      <4>1. Bad \in SUBSET Nat
        BY <1>1
      <4> HIDE DEF Bad
      <4> QED BY <4>1, LeastOf
    <3>2. m \in 1 .. n /\ ~(HasFile(f[m]) <=> Upto(m))
      BY <3>1
    <3>3. CASE m = 1
      <4>1. Upto(1) <=> HasFile(ss[1])
        <5>1. 1 .. 1 = {1}
          OBVIOUS
        <5> QED BY <5>1, Zenon
      <4> QED BY <2>1, <3>2, <3>3, <4>1, Zenon
    <3>4. CASE m # 1
      <4>1. m - 1 \in 1 .. n /\ m \in 2 .. n /\ ~(m <= m - 1)
        BY <1>1, <3>2, <3>4
      <4>2. m - 1 \notin Bad
        <5> HIDE DEF Bad
        <5> QED BY <3>1, <4>1
      <4>3. HasFile(f[m - 1]) <=> Upto(m - 1)
        BY <4>1, <4>2, Zenon
      <4>4. HasFile(f[m]) <=> HasFile(f[m - 1]) \/ HasFile(ss[m])
        <5>1. f[m] = f[m - 1] \o ss[m] /\ f[m - 1] \in Seq(Parts) /\ ss[m] \in Seq(Parts)
          BY <1>1, <2>1, <4>1
        <5>2. HasFile(f[m - 1] \o ss[m]) <=> HasFile(f[m - 1]) \/ HasFile(ss[m])
          BY <5>1, HasFileOfBoth
        <5> QED BY <5>1, <5>2, Zenon
      <4>5. Upto(m) <=> Upto(m - 1) \/ HasFile(ss[m])
        <5>1. 1 .. m = (1 .. (m - 1)) \cup {m}
          BY <1>1, <3>2
        <5> QED BY <5>1, Zenon
      <4> QED BY <3>2, <4>3, <4>4, <4>5, Zenon
    <3> QED BY <3>3, <3>4
  <2>3. n \in 1 .. n
    BY <1>1, <1>3
  <2>4. HasFile(f[n]) <=> Upto(n)
    BY <2>2, <2>3, Zenon
  <2> QED BY <1>1, <2>1, <2>4, Zenon
<1> QED BY <1>2, <1>3

\* An induction over the tree: of some parts, one has no child among them.
LEMMA SomePartIsLowest ==
  ASSUME PartsAreNested, NEW B \in SUBSET Parts, B # {}
  PROVE  \E part \in B : \A i \in DOMAIN part.parts : part.parts[i] \notin B
<1>0. PICK deepest \in Nat : \E rank \in [Parts -> 0 .. deepest] :
        \A part \in Parts : \A i \in DOMAIN part.parts : rank[part.parts[i]] < rank[part]
  BY DEF PartsAreNested
<1>1. PICK rank \in [Parts -> 0 .. deepest] :
        \A part \in Parts : \A i \in DOMAIN part.parts : rank[part.parts[i]] < rank[part]
  BY <1>0
<1> DEFINE T == {rank[part] : part \in B}
<1>2. T \in SUBSET Nat /\ T # {}
  OBVIOUS
<1>3. PICK x \in T : \A y \in T : x <= y
  <2> HIDE DEF T
  <2> QED BY <1>2, LeastOf
<1>4. PICK part \in B : rank[part] = x
  OBVIOUS
<1>5. ASSUME NEW i \in DOMAIN part.parts PROVE part.parts[i] \notin B
  <2>1. rank[part.parts[i]] < x /\ part.parts[i] \in Parts
    BY <1>1, <1>4, ChildrenAreParts
  <2>2. rank[part.parts[i]] \in Nat /\ x \in Nat
    BY <2>1, <1>2
  <2>3. rank[part.parts[i]] \notin T
    <3> HIDE DEF T
    <3> QED BY <1>3, <2>1, <2>2
  <2> QED BY <2>3
<1> QED BY <1>5

\* What both recursions do at a part, given the results of its children.
Children(f, part) == [i \in DOMAIN part.parts |-> f[part.parts[i]]]
Walked(part, below) ==
  [text |-> FirstOf(<<ownBody(part, "text/plain")>> \o [i \in DOMAIN below |-> below[i].text]),
   html |-> FirstOf(<<ownBody(part, "text/html")>> \o [i \in DOMAIN below |-> below[i].html]),
   files |-> part.file \/ \E i \in DOMAIN below : below[i].files]
IsWalk(f) == f = [part \in Parts |-> Walked(part, Children(f, part))]
IsOrder(f) == f = [part \in Parts |-> <<part>> \o FlattenSeq(Children(f, part))]

\* What FirstPlainPartWins says of a part, its descendants listed in order.
Summary(parts) ==
  [text |-> FirstBody(parts, "text/plain"), html |-> FirstBody(parts, "text/html"),
   files |-> HasFile(parts)]

LEMMA OneBranchMore ==
  ASSUME NEW part \in Parts, NEW orders \in Seq(Seq(Parts)), NEW type
  PROVE  FirstBody(<<part>> \o FlattenSeq(orders), type) =
           FirstOf(<<ownBody(part, type)>> \o [i \in DOMAIN orders |-> FirstBody(orders[i], type)])
<1> DEFINE own == ownBody(part, type)
           r(i) == FirstBody(orders[i], type)
           b == [i \in DOMAIN orders |-> r(i)]
           n == Len(orders)
<1>1. FlattenSeq(orders) \in Seq(Parts) /\ <<part>> \in Seq(Parts)
  BY FlattenIsSeq
<1>2. FirstBody(<<part>> \o FlattenSeq(orders), type) =
        IF own # <<>> THEN own ELSE FirstBody(FlattenSeq(orders), type)
  BY <1>1, FirstBodyOfBoth, FirstBodyOfOne
<1>3. FirstBody(FlattenSeq(orders), type) = FirstOf(b)
  BY FirstBodyOfAll
<1>4. own \in Bodies /\ <<own>> \in Seq(Bodies)
  BY OwnBodyIsBody
<1>5. b \in Seq(Bodies)
  <2>1. n \in Nat /\ DOMAIN orders = 1 .. n /\ \A i \in 1 .. n : orders[i] \in Seq(Parts)
    OBVIOUS
  <2>2. \A i \in 1 .. n : r(i) \in Bodies
    BY <2>1, FirstBodyIsFirstOf, OwnsAreBodies, FirstOfIsBody
  <2> HIDE DEF r, n
  <2>3. [i \in 1 .. n |-> r(i)] \in Seq(Bodies)
    BY <2>1, <2>2
  <2> QED BY <2>1, <2>3
<1> HIDE DEF b, own
<1>6. FirstOf(<<own>> \o b) = IF FirstOf(<<own>>) # <<>> THEN FirstOf(<<own>>) ELSE FirstOf(b)
  BY <1>4, <1>5, FirstOfBoth
<1>7. FirstOf(<<own>>) = own
  BY <1>4, FirstOfOne
<1> QED BY <1>2, <1>3, <1>6, <1>7 DEF b, own

LEMMA WalkedIsSummary ==
  ASSUME NEW part \in Parts, NEW orders \in Seq(Seq(Parts)),
         NEW below, below = [i \in DOMAIN orders |-> Summary(orders[i])]
  PROVE  Walked(part, below) = Summary(<<part>> \o FlattenSeq(orders))
<1> DEFINE all == <<part>> \o FlattenSeq(orders)
<1>1. DOMAIN below = DOMAIN orders
  OBVIOUS
<1>2. ASSUME NEW i \in DOMAIN orders
      PROVE  /\ below[i].text = FirstBody(orders[i], "text/plain")
             /\ below[i].html = FirstBody(orders[i], "text/html")
             /\ below[i].files <=> HasFile(orders[i])
  BY DEF Summary
<1>3. /\ [i \in DOMAIN below |-> below[i].text]
           = [i \in DOMAIN orders |-> FirstBody(orders[i], "text/plain")]
      /\ [i \in DOMAIN below |-> below[i].html]
           = [i \in DOMAIN orders |-> FirstBody(orders[i], "text/html")]
  BY <1>1, <1>2, Zenon
<1>4. (part.file \/ \E i \in DOMAIN below : below[i].files) <=> HasFile(all)
  <2>1. <<part>> \in Seq(Parts) /\ FlattenSeq(orders) \in Seq(Parts)
    BY FlattenIsSeq
  <2>2. HasFile(all) <=> HasFile(<<part>>) \/ HasFile(FlattenSeq(orders))
    BY <2>1, HasFileOfBoth
  <2>3. HasFile(<<part>>) <=> part.file
    <3>1. DOMAIN <<part>> = {1} /\ <<part>>[1] = part
      OBVIOUS
    <3> QED BY <3>1, Zenon DEF HasFile
  <2>4. HasFile(FlattenSeq(orders)) <=> \E i \in DOMAIN orders : HasFile(orders[i])
    BY HasFileOfAll
  <2> HIDE DEF all
  <2> QED BY <1>1, <1>2, <2>2, <2>3, <2>4, Zenon
<1>5. /\ FirstBody(all, "text/plain")
           = FirstOf(<<ownBody(part, "text/plain")>>
                       \o [i \in DOMAIN orders |-> FirstBody(orders[i], "text/plain")])
      /\ FirstBody(all, "text/html")
           = FirstOf(<<ownBody(part, "text/html")>>
                       \o [i \in DOMAIN orders |-> FirstBody(orders[i], "text/html")])
  BY OneBranchMore, Zenon
<1> HIDE DEF all
<1>6. Walked(part, below).files = HasFile(all)
  <2> DEFINE files == part.file \/ \E i \in DOMAIN below : below[i].files
  <2>1. files \in BOOLEAN /\ HasFile(all) \in BOOLEAN
    BY DEF HasFile
  <2>2. Walked(part, below).files = files
    BY DEF Walked
  <2>3. files <=> HasFile(all)
    BY <1>4
  <2> HIDE DEF files
  <2>4. files = HasFile(all)
    BY <2>1, <2>3
  <2> QED BY <2>2, <2>4
<1>7. /\ Walked(part, below).text = FirstBody(all, "text/plain")
      /\ Walked(part, below).html = FirstBody(all, "text/html")
  BY <1>3, <1>5, Zenon DEF Walked
<1>8. Walked(part, below) =
        [text |-> Walked(part, below).text, html |-> Walked(part, below).html,
         files |-> Walked(part, below).files]
  BY DEF Walked
<1> QED BY <1>6, <1>7, <1>8, Zenon DEF Summary, all

\* Both recursions have a solution, so the functions do solve them.
LEMMA InOrderUnfolds == PartsAreNested => IsOrder(InOrder)
<1> SUFFICES ASSUME PartsAreNested PROVE IsOrder(InOrder)
  OBVIOUS
<1> DEFINE V == Seq(Parts)
           G == [x \in Parts \X Seq(V) |-> <<x[1]>> \o FlattenSeq(x[2])]
<1>1. G \in [Parts \X Seq(V) -> V]
  <2>1. ASSUME NEW x \in Parts \X Seq(V) PROVE <<x[1]>> \o FlattenSeq(x[2]) \in V
    <3>1. <<x[1]>> \in V /\ FlattenSeq(x[2]) \in V
      BY FlattenIsSeq
    <3> QED BY <3>1
  <2> QED BY <2>1
<1>2. ASSUME NEW part \in Parts, NEW below \in Seq(V)
      PROVE  G[<<part, below>>] = <<part>> \o FlattenSeq(below)
  <2>1. <<part, below>> \in Parts \X Seq(V)
    OBVIOUS
  <2> QED BY <2>1
<1>3. <<>> \in V
  OBVIOUS
<1> HIDE DEF G
<1>4. PICK f \in [Parts -> V] : Solves(f, G)
  <2> HIDE DEF V
  <2> QED BY <1>1, <1>3, TreeRecursion
<1>5. ASSUME NEW part \in Parts
      PROVE  f[part] = <<part>> \o FlattenSeq(Children(f, part))
  <2>1. Children(f, part) \in Seq(V)
    <3> HIDE DEF V
    <3> QED BY <1>4, ChildrenYieldSeq, Zenon DEF Children
  <2>2. f[part] = G[<<part, Children(f, part)>>]
    BY <1>4, Zenon DEF Solves, Children
  <2> HIDE DEF V
  <2> QED BY <1>2, <2>1, <2>2
<1>6. IsOrder(f)
  <2> DEFINE r(part) == <<part>> \o FlattenSeq(Children(f, part))
  <2>1. f = [part \in Parts |-> f[part]] /\ \A part \in Parts : f[part] = r(part)
    BY <1>4, <1>5
  <2> HIDE DEF r
  <2>2. f = [part \in Parts |-> r(part)]
    BY <2>1
  <2> QED BY <2>2, Zenon DEF r, IsOrder
<1>7. InOrder = CHOOSE o : IsOrder(o)
  BY Zenon DEF InOrder, IsOrder, Children
<1> QED BY <1>6, <1>7, Zenon

LEMMA OrdersAreParts ==
  ASSUME PartsAreNested, NEW o, IsOrder(o)
  PROVE  o \in [Parts -> Seq(Parts)]
<1> DEFINE Bad == {part \in Parts : o[part] \notin Seq(Parts)}
<1>1. ASSUME NEW part \in Parts
      PROVE  o[part] = <<part>> \o FlattenSeq(Children(o, part))
  <2> DEFINE r(p) == <<p>> \o FlattenSeq(Children(o, p))
  <2>1. o = [p \in Parts |-> r(p)]
    BY Zenon DEF IsOrder
  <2> HIDE DEF r
  <2>2. o[part] = r(part)
    BY <2>1
  <2> QED BY <2>2 DEF r
<1>2. Bad = {}
  <2> SUFFICES ASSUME Bad # {} PROVE FALSE
    OBVIOUS
  <2>1. PICK part \in Bad : \A i \in DOMAIN part.parts : part.parts[i] \notin Bad
    <3>1. Bad \in SUBSET Parts
      OBVIOUS
    <3> HIDE DEF Bad
    <3> QED BY <3>1, SomePartIsLowest
  <2>2. part \in Parts /\ o[part] \notin Seq(Parts)
    BY <2>1
  <2>3. \A i \in DOMAIN part.parts : o[part.parts[i]] \in Seq(Parts)
    BY <2>1, <2>2, ChildrenAreParts
  <2>4. Children(o, part) \in Seq(Seq(Parts))
    <3> DEFINE n == Len(part.parts)
               r(i) == o[part.parts[i]]
    <3>1. n \in Nat /\ DOMAIN part.parts = 1 .. n /\ \A i \in 1 .. n : r(i) \in Seq(Parts)
      BY <2>2, <2>3, ChildrenAreParts
    <3>2. Children(o, part) = [i \in 1 .. n |-> r(i)]
      BY <3>1, Zenon DEF Children
    <3> HIDE DEF n, r
    <3> QED BY <3>1, <3>2
  <2>5. FlattenSeq(Children(o, part)) \in Seq(Parts) /\ <<part>> \in Seq(Parts)
    BY <2>2, <2>4, FlattenIsSeq
  <2>6. <<part>> \o FlattenSeq(Children(o, part)) \in Seq(Parts)
    BY <2>5
  <2>7. o[part] = <<part>> \o FlattenSeq(Children(o, part))
    BY <1>1, <2>2, Zenon
  <2> QED BY <2>2, <2>6, <2>7, Zenon
<1>3. o = [part \in Parts |-> o[part]]
  BY DEF IsOrder
<1> QED BY <1>2, <1>3

\* Summarised part by part, an order solves the recursion of walkParts.
LEMMA SummariesAreAWalk ==
  ASSUME PartsAreNested, NEW o, IsOrder(o)
  PROVE  IsWalk([part \in Parts |-> Summary(o[part])])
<1> DEFINE w == [part \in Parts |-> Summary(o[part])]
<1>1. o \in [Parts -> Seq(Parts)]
  BY OrdersAreParts
<1>2. ASSUME NEW part \in Parts
      PROVE  w[part] = Walked(part, Children(w, part))
  <2> DEFINE orders == Children(o, part)
  <2>1. orders \in Seq(Seq(Parts)) /\ DOMAIN orders = DOMAIN part.parts
    BY <1>1, ChildrenYieldSeq, Zenon DEF Children
  <2>2. Children(w, part) = [i \in DOMAIN orders |-> Summary(orders[i])]
    <3>1. \A i \in DOMAIN part.parts : w[part.parts[i]] = Summary(orders[i])
      BY ChildrenAreParts, Zenon DEF Children
    <3> HIDE DEF w, orders
    <3> QED BY <2>1, <3>1, Zenon DEF Children
  <2> HIDE DEF orders
  <2>3. Walked(part, Children(w, part)) = Summary(<<part>> \o FlattenSeq(orders))
    <3> HIDE DEF w
    <3> QED BY <2>1, <2>2, WalkedIsSummary
  <2>4. o[part] = <<part>> \o FlattenSeq(orders)
    <3> DEFINE r(p) == <<p>> \o FlattenSeq(Children(o, p))
    <3>1. o = [p \in Parts |-> r(p)]
      BY Zenon DEF IsOrder
    <3> HIDE DEF r
    <3>2. o[part] = r(part)
      BY <3>1
    <3> QED BY <3>2 DEF r, orders
  <2> QED BY <2>3, <2>4
<1>3. w = [part \in Parts |-> Walked(part, Children(w, part))]
  <2> DEFINE r(part) == Walked(part, Children(w, part))
  <2>1. w = [part \in Parts |-> w[part]] /\ \A part \in Parts : w[part] = r(part)
    BY <1>2
  <2> HIDE DEF r, w
  <2>2. w = [part \in Parts |-> r(part)]
    BY <2>1
  <2> QED BY <2>2, Zenon DEF r
<1> QED BY <1>3, Zenon DEF IsWalk

\* The recursion of walkParts has one solution.
LEMMA WalksAgree ==
  ASSUME PartsAreNested, NEW v, IsWalk(v), NEW w, IsWalk(w), NEW root \in Parts
  PROVE  v[root] = w[root]
<1> DEFINE Bad == {part \in Parts : v[part] # w[part]}
<1>1. ASSUME NEW f, IsWalk(f), NEW part \in Parts
      PROVE  f[part] = Walked(part, Children(f, part))
  <2> DEFINE r(p) == Walked(p, Children(f, p))
  <2>1. f = [p \in Parts |-> r(p)]
    BY <1>1, Zenon DEF IsWalk
  <2> HIDE DEF r
  <2>2. f[part] = r(part)
    BY <2>1
  <2> QED BY <2>2 DEF r
<1>2. SUFFICES ASSUME Bad # {} PROVE FALSE
  OBVIOUS
<1>3. PICK part \in Bad : \A i \in DOMAIN part.parts : part.parts[i] \notin Bad
  <2>1. Bad \in SUBSET Parts
    OBVIOUS
  <2> HIDE DEF Bad
  <2> QED BY <1>2, <2>1, SomePartIsLowest
<1>4. part \in Parts /\ v[part] # w[part]
  BY <1>3
<1>5. \A i \in DOMAIN part.parts : v[part.parts[i]] = w[part.parts[i]]
  BY <1>3, <1>4, ChildrenAreParts
<1>6. Children(v, part) = Children(w, part)
  BY <1>5, Zenon DEF Children
<1> QED BY <1>1, <1>4, <1>6, Zenon

LEMMA WalkIsInOrder ==
  ASSUME PartsAreNested, NEW root \in Parts
  PROVE  walkParts[root] = Summary(InOrder[root])
<1> DEFINE w == [part \in Parts |-> Summary(InOrder[part])]
<1>1. IsWalk(w)
  BY InOrderUnfolds, SummariesAreAWalk
<1>2. walkParts = CHOOSE v : IsWalk(v)
  BY Zenon DEF walkParts, IsWalk, Walked, Children
<1> HIDE DEF w
<1>3. IsWalk(walkParts)
  BY <1>1, <1>2, Zenon
<1>4. walkParts[root] = w[root]
  BY <1>1, <1>3, WalksAgree
<1> QED BY <1>4 DEF w

\* In every MIME tree, the first text/plain that has data and decodes is what
\* the model reads, the first such HTML if there is none, and no attachment
\* is missed.
THEOREM TheFirstPlainPartWins ==
  ASSUME PartsAreNested
  PROVE  Spec => []FirstPlainPartWins
<1>1. ParagraphInv => FirstPlainPartWins
  <2> SUFFICES ASSUME ParagraphInv, stage = "extract" PROVE FirstPlainPartWins
    BY DEF FirstPlainPartWins
  <2>1. message = toMessage(payload) /\ payload.root \in Parts
    BY TuneAssumption DEF ParagraphInv
  <2> DEFINE parts == InOrder[payload.root]
             w == walkParts[payload.root]
  <2>2. w = Summary(parts)
    BY <2>1, WalkIsInOrder
  <2>3. /\ message.text = w.text
        /\ message.html = IF w.text # <<>> THEN <<>> ELSE w.html
        /\ message.hasAttachments = w.files
    <3> HIDE DEF w
    <3>1. message = [domain |-> Header(payload, "from"), subject |-> Header(payload, "subject"),
                     text |-> w.text, html |-> IF w.text # <<>> THEN <<>> ELSE w.html,
                     hasAttachments |-> w.files]
      BY <2>1, Zenon DEF toMessage, w
    <3> QED BY <3>1
  <2> HIDE DEF w, parts
  <2>4. /\ w.text = FirstBody(parts, "text/plain")
        /\ w.html = FirstBody(parts, "text/html")
        /\ w.files = HasFile(parts)
    BY <2>2 DEF Summary
  <2>5. /\ message.text = FirstBody(parts, "text/plain")
        /\ message.html = IF FirstBody(parts, "text/plain") = <<>>
                          THEN FirstBody(parts, "text/html") ELSE <<>>
        /\ message.hasAttachments = HasFile(parts)
    BY <2>3, <2>4
  <2> QED BY <2>5, Zenon DEF FirstPlainPartWins, HasFile, parts
<1> QED
  BY <1>1, ParagraphInvHolds, PTL
=============================================================================
