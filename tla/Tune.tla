-------------------------------- MODULE Tune --------------------------------
(***************************************************************************)
(* The commands that only read, `list` and `tune`: list the inbox, get     *)
(* each message, and for tune ask the model once per message, replay       *)
(* policy.Decide over a grid of thresholds and print how each pair would   *)
(* divide the sample.  `run` shares the listing; RunPool takes over there. *)
(***************************************************************************)
EXTENDS Policy, Listing, SystemOne

CONSTANTS
  Payloads,         \* messages Gmail may hand over
  Inputs,           \* answers the model may give
  Labels,           \* the config's labels
  JunkThresholds,   \* tuneJunkThresholds
  TopicThresholds   \* tuneTopicThresholds

ASSUME TuneAssumption ==
  /\ {p.root : p \in Payloads} \subseteq Parts
  /\ \A a \in Inputs : AreAnswers(a)
  /\ JunkThresholds \subseteq Int /\ TopicThresholds \subseteq Int

\* A plain body is lines of words.
ASSUME TextsAreLines == \A p \in Payloads : toMessage(p).text \in Seq(Seq(STRING))

VARIABLES
  stage,    \* "listing", "loop", "extract", "answer", "sent", "table" or "over"
  payload,  \* the message as Gmail sent it
  message,  \* what toMessage made of it
  request,  \* what the model is asked
  samples,  \* answers of the messages sampled so far
  skipped,  \* messages whose Get or Predict failed
  table     \* the printed rows: counts per threshold pair

one == <<payload, message, request>>
sample == <<samples, skipped>>
vars == <<listVars, stage, one, sample, table>>

Grid == [junk : JunkThresholds, topic : TopicThresholds]

None == <<>>

Init ==
  /\ ListInit
  /\ stage = "listing" /\ payload = None /\ message = None /\ request = None
  /\ samples = <<>> /\ skipped = 0 /\ table = [c \in {} |-> {}]

ListStep ==
  /\ stage = "listing"
  /\ ParseLimit \/ Page \/ PageFails
  /\ UNCHANGED <<stage, one, sample, table>>

\* ListMessages has returned; of its variables only ids lives on.
Listed ==
  /\ stage = "listing" /\ listing \in {"listed", "failed", "refused"}
  /\ stage' = IF listing # "listed" \/ command = "run" \/ ids = <<>> THEN "over" ELSE "loop"
  /\ listing' = "returned"
  /\ max' = 0 /\ matching' = 0 /\ given' = 0 /\ retried' = FALSE
  /\ UNCHANGED <<command, ids, one, sample, table>>

\* One message less to look at.
NextId == ids' = Tail(ids) /\ UNCHANGED <<query, given, retried, listing>>

\* list prints a line about the message, or that it skips it.
ShowOne ==
  /\ stage = "loop" /\ command = "list" /\ ids # <<>>
  /\ NextId
  /\ UNCHANGED <<stage, one, sample, table>>

GetOne ==
  /\ stage = "loop" /\ command = "tune" /\ ids # <<>>
  /\ \E p \in Payloads : payload' = p /\ message' = toMessage(p)
  /\ stage' = "extract"
  /\ UNCHANGED <<listVars, request, sample, table>>

\* GetMessage failed, or the message has no payload.
SkipOne ==
  /\ stage = "loop" /\ command = "tune" /\ ids # <<>>
  /\ NextId
  /\ skipped' = skipped + 1
  /\ UNCHANGED <<stage, one, samples, table>>

Extract ==
  /\ stage = "extract"
  /\ \E para \in ToParagraph(message) : request' = Request(para)
  /\ stage' = "answer"
  /\ UNCHANGED <<listVars, payload, message, sample, table>>

\* The request is on its way; only the reply matters from here on.
Send ==
  /\ stage = "answer"
  /\ stage' = "sent" /\ payload' = None /\ message' = None /\ request' = None
  /\ UNCHANGED <<listVars, sample, table>>

\* The reply, or no reply at all.
Answered ==
  /\ stage = "sent"
  /\ \/ \E reply \in [status : Statuses, shape : Shapes] :
          IF ErrorOf(reply) = "none"
          THEN (\E a \in Inputs : samples' = Append(samples, a)) /\ UNCHANGED skipped
          ELSE skipped' = skipped + 1 /\ UNCHANGED samples
     \/ skipped' = skipped + 1 /\ UNCHANGED samples
  /\ NextId
  /\ stage' = "loop"
  /\ UNCHANGED <<one, table>>

LoopEnds ==
  /\ stage = "loop" /\ ids = <<>>
  /\ stage' = IF command = "tune" THEN "table" ELSE "over"
  /\ UNCHANGED <<listVars, one, sample, table>>

\* How many of the samples satisfy P.
HowMany(P(_)) == Cardinality({i \in DOMAIN samples : P(samples[i])})

sweepCounts_KindOnly(cfg) ==
  LET trash(a) == Decide(a, cfg, Labels).kind = "trash"
      label(a) == Cleared(a, cfg.topic) # {}
      unclass(a) == Cleared(a, cfg.topic) = {}
      spill(a) == Cardinality(Cleared(a, cfg.topic)) > 1
  IN  [trash |-> HowMany(trash), label |-> HowMany(label),
       unclass |-> HowMany(unclass), spill |-> HowMany(spill)]
sweepCounts(cfg) ==
  LET trash(a) == Decide(a, cfg, Labels).kind = "trash"
      label(a) == Decide(a, cfg, Labels).kind = "label"
      unclass(a) == Decide(a, cfg, Labels).kind = "unclassified"
      spill(a) == label(a) /\ Cardinality(Cleared(a, cfg.topic)) > 1
  IN  [trash |-> HowMany(trash), label |-> HowMany(label),
       unclass |-> HowMany(unclass), spill |-> HowMany(spill)]

\* printSweep walks the junk thresholds, and the topic thresholds within each.
Before(c, d) == c.junk < d.junk \/ (c.junk = d.junk /\ c.topic < d.topic)

PrintRow ==
  /\ stage = "table"
  /\ \E c \in Grid \ DOMAIN table :
       /\ \A d \in Grid \ DOMAIN table : c = d \/ Before(c, d)
       /\ table' = [d \in DOMAIN table \cup {c} |->
                      IF d = c THEN sweepCounts(c) ELSE table[d]]
  /\ UNCHANGED <<listVars, stage, one, sample>>

Next ==
  \/ ListStep \/ Listed \/ ShowOne \/ GetOne \/ SkipOne \/ Extract \/ Send
  \/ Answered \/ LoopEnds \/ PrintRow

Spec == Init /\ [][Next]_vars

-----------------------------------------------------------------------------
(* Properties *)

\* The MIME tree in reading order.
InOrder[part \in Parts] ==
  <<part>> \o FlattenSeq([i \in DOMAIN part.parts |-> InOrder[part.parts[i]]])

FirstBody(parts, type) ==
  LET usable == {i \in DOMAIN parts :
                   parts[i].type = type /\ parts[i].decodes /\ parts[i].body # <<>>}
  IN  IF usable = {} THEN <<>>
      ELSE parts[CHOOSE i \in usable : \A j \in usable : i <= j].body

\* The model reads the first text/plain of the message that has data and decodes,
\* however the parts are nested and whatever else fails to decode; the first
\* such HTML only if there is none; and an attachment anywhere is seen (walkParts).
FirstPlainPartWins ==
  stage = "extract" =>
    LET parts == InOrder[payload.root]
        plain == FirstBody(parts, "text/plain")
    IN  /\ message.text = plain
        /\ message.html = IF plain = <<>> THEN FirstBody(parts, "text/html") ELSE <<>>
        /\ message.hasAttachments <=> \E i \in DOMAIN parts : parts[i].file

\* Where a token of an HTML body stands: inside an element, or not.
Inside(tokens, i, tags) ==
  \E s \in 1 .. (i - 1) :
    /\ tokens[s].kind = "start" /\ tokens[s].tag \in tags
    /\ \A e \in s .. (i - 1) : tokens[e].kind = "end" => tokens[e].tag # tokens[s].tag

\* The tokenizer reads the content of a script or style as one text.  For their words
\* to be told from those that are shown, they stand in no other text.
ASSUME BodiesAreTokens ==
  \A p \in Payloads :
    LET html == toMessage(p).html
        texts == {i \in DOMAIN html : html[i].kind = "text"}
        raw == {i \in texts : Inside(html, i, {"script", "style"})}
    IN  /\ html \in Seq(ToSet(html))
        /\ \A i \in DOMAIN html :
             html[i].kind \in {"start", "end", "self", "text"} /\ html[i].words \in Seq(STRING)
        /\ \A i \in raw : html[i - 1].kind = "start" /\ html[i - 1].tag \in {"script", "style"}
        /\ \A i \in raw, j \in texts \ raw : ToSet(html[i].words) \cap ToSet(html[j].words) = {}

\* Script and style text never reaches the model, and no text outside script, style
\* and head is lost, however the elements follow each other or stay unclosed (the one
\* flag of htmlToText).  Nothing is said of the rest of head: a style or script that
\* ends inside it clears the flag, and what follows it is read as body text.
VisibleTextOnly ==
  stage = "extract" /\ message.text = <<>> =>
    LET shown == ToSet(FlattenSeq(cleanedBodyRaw(message)))
        html == message.html
    IN  \A i \in DOMAIN html : html[i].kind = "text" =>
          /\ Inside(html, i, {"script", "style"}) => ToSet(html[i].words) \cap shown = {}
          /\ ~Inside(html, i, Hiding) => ToSet(html[i].words) \subseteq shown

\* The lines before the first quoted line, reply header or signature delimiter.
NewLines ==
  LET lines == cleanedBodyRaw(message)
      fresh == {i \in DOMAIN lines :
                  \A j \in 1 .. i : ~IsQuote(lines[j]) /\ ~IsDelimiter(lines[j])}
  IN  FlattenSeq(SubSeq(lines, 1, Cardinality(fresh)))

\* What the model judges is what the sender wrote: the text above any quoted reply and
\* signature, whichever comes first, whole or cut where one of the two budgets ends;
\* every word but the last is whole, and of that one at least a beginning is left.
BodyIsTheNewText ==
  stage = "answer" =>
    LET body == request.state.body
    IN  /\ body = NewLines \/ Len(body) \in {ShortBudget, LongBudget}
        /\ Len(body) <= Len(NewLines)
        /\ \A i \in DOMAIN body :
             IF i < Len(body) THEN body[i] = NewLines[i] ELSE body[i] \in CutIn(NewLines[i])

\* The two language tests, made before and after the text is cut, agree as far as they
\* can.  Spanish in a whole word within the long budget, in the subject or in the domain
\* gets both the long budget and the multilingual model.  A message without any sign gets
\* the short budget, and the English model too unless the cut itself made a Spanish word
\* ("design" cut to "de"), which only the second test sees.
SpanishIsSentAsSpanish ==
  stage = "answer" =>
    LET body == request.state.body
        CutAt(n) == Len(body) = IF Len(NewLines) < n THEN Len(NewLines) ELSE n
        whole == {NewLines[i] : i \in {i \in DOMAIN NewLines : i < LongBudget}}
        ends == {message.subject, message.domain}
    IN  /\ message.domain \in SpanishDomains \/ (whole \cup ends) \cap SpanishWords # {} =>
             request.model = "multilingual" /\ CutAt(LongBudget)
        /\ message.domain \notin SpanishDomains
             /\ (ToSet(NewLines) \cup ends) \cap (SpanishWords \cup SpanishHosts) = {} =>
             /\ CutAt(ShortBudget)
             /\ \/ request.model = "english"
                \/ /\ body # NewLines
                   /\ body[Len(body)] \in SpanishWords \cup SpanishHosts

\* Every row divides the whole sample: a message is trashed, labelled or left
\* unclassified at each threshold pair, and only a labelled one spills over.
RowsAddUp ==
  \A c \in DOMAIN table :
    /\ table[c].trash + table[c].label + table[c].unclass = Len(samples)
    /\ table[c].spill <= table[c].label

\* Down the junk column the gate only gets stricter.  Down the topic column it does
\* not: a topic that no longer clears its threshold stops protecting the message,
\* so fewer are labelled and MORE may be trashed.
RowsAreMonotone ==
  \A c, d \in DOMAIN table :
    /\ c.topic = d.topic /\ c.junk <= d.junk =>
         /\ table[c].trash >= table[d].trash
         /\ table[c].label <= table[d].label /\ table[c].unclass <= table[d].unclass
    /\ c.junk = d.junk /\ c.topic <= d.topic =>
         /\ table[c].trash <= table[d].trash
         /\ table[c].label >= table[d].label /\ table[c].unclass <= table[d].unclass

\* The trash column counts what the comment over Decide (policy.go:56) describes:
\* junk was affirmed and beats EVERY affirmed topic by more than the margin (JunkBeats).
TrashColumnIsThePolicy ==
  \A c \in DOMAIN table :
    table[c].trash = Cardinality({i \in DOMAIN samples : JunkBeats(samples[i], c)})
=============================================================================
