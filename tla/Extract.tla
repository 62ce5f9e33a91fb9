------------------------------ MODULE Extract ------------------------------
(***************************************************************************)
(* internal/extract: from a Message to the paragraph the model reads.  A   *)
(* line is a sequence of words, a body a sequence of lines.  The budgets   *)
(* count runes: each is the number of the word it ends in, at the end of   *)
(* the word or anywhere inside.  Every text of an HTML body begins and     *)
(* ends with white space.                                                  *)
(***************************************************************************)
EXTENDS Message

CONSTANTS
  SpanishWords,    \* words in which the list of Spanish words finds one, "a.de" too
  SpanishHosts,    \* words that contain ".mx" or ".es"
  SpanishDomains,  \* sender domains that end in ".mx" or ".es"
  Beginnings,      \* of a long word: what a cut inside it may leave
  ShortBudget,     \* body_preview_chars, or its default
  LongBudget       \* body_preview_chars_multilingual, or its default

ASSUME ExtractAssumption ==
  /\ ShortBudget \in Nat \ {0} /\ LongBudget \in Nat \ {0}
  /\ \A word \in DOMAIN Beginnings : Beginnings[word] \subseteq STRING
  /\ SpanishWords \cap SpanishHosts = {} /\ SpanishDomains \subseteq SpanishHosts

\* An HTML token: kind "start", "end", "self" or "text", a tag, the words of a text.
Hiding == {"script", "style", "head"}

isBlock(tag) == tag \in {"p", "div", "br"}

\* Text goes to the line being written, a block element starts the next one.
Write(lines, words) == Front(lines) \o <<Last(lines) \o words>>
NewLine(lines) == Append(lines, <<>>)

\* One flag stands for all three hiding elements, whichever set or cleared it.
ReadToken_ShowsAll(acc, token) ==
  CASE token.kind = "text" -> [acc EXCEPT !.lines = Write(@, token.words)]
    [] token.kind # "text" /\ isBlock(token.tag) -> [acc EXCEPT !.lines = NewLine(@)]
    [] OTHER -> acc
ReadToken(acc, token) ==
  CASE token.kind \in {"start", "end"} /\ token.tag \in Hiding ->
         [acc EXCEPT !.hidden = (token.kind = "start")]
    [] token.kind \in {"start", "end"} /\ token.tag \notin Hiding ->
         IF ~acc.hidden /\ isBlock(token.tag) THEN [acc EXCEPT !.lines = NewLine(@)] ELSE acc
    [] token.kind = "self" ->
         IF isBlock(token.tag) THEN [acc EXCEPT !.lines = NewLine(@)] ELSE acc
    [] token.kind = "text" ->
         IF acc.hidden THEN acc ELSE [acc EXCEPT !.lines = Write(@, token.words)]

htmlToText(tokens) ==
  LET read[i \in 0 .. Len(tokens)] ==
        IF i = 0 THEN [hidden |-> FALSE, lines |-> <<<<>>>>] ELSE ReadToken(read[i - 1], tokens[i])
  IN  read[Len(tokens)].lines

cleanedBodyRaw(msg) ==
  IF msg.text # <<>> THEN msg.text
  ELSE IF msg.html # <<>> THEN htmlToText(msg.html) ELSE <<>>

\* "> ...", "On ... wrote:" and, word for word the same, "El ... escribió:".
IsQuote(line) ==
  /\ line # <<>>
  /\ \/ Head(line) = ">"
     \/ Len(line) > 2 /\ Head(line) = "On" /\ Last(line) = "wrote:"

IsDelimiter(line) == line = <<"--">>

\* The lines before the first one that satisfies Marker.
UpTo(lines, Marker(_)) ==
  LET i == SelectInSeq(lines, Marker) IN IF i = 0 THEN lines ELSE SubSeq(lines, 1, i - 1)

trimQuotedReply(lines) == UpTo(lines, IsQuote)
trimSignature(lines) == UpTo(lines, IsDelimiter)
collapseWhitespace(lines) == FlattenSeq(lines)

Cleaned_CollapsedFirst(msg) ==
  FlattenSeq(trimSignature(trimQuotedReply(<<FlattenSeq(cleanedBodyRaw(msg))>>)))
Cleaned(msg) == collapseWhitespace(trimSignature(trimQuotedReply(cleanedBodyRaw(msg))))

\* What may be left of the last word: all of it, or a beginning of it.
CutIn(word) == {word} \cup (IF word \in DOMAIN Beginnings THEN Beginnings[word] ELSE {})

\* What may be left of the words by a budget that ends in the n-th.
truncateRunes(words, n) ==
  IF Len(words) < n THEN {words}
  ELSE {Append(SubSeq(words, 1, n - 1), last) : last \in CutIn(words[n])}

isMultilingualHeuristic(msg, words) ==
  \/ msg.domain \in SpanishDomains
  \/ (ToSet(words) \cup {msg.subject, msg.domain}) \cap SpanishWords # {}

\* The language is looked for in the whole body, before it is cut.
Budget_OfThePreview(msg, words) ==
  IF \E cut \in truncateRunes(words, ShortBudget) : isMultilingualHeuristic(msg, cut)
  THEN LongBudget ELSE ShortBudget
Budget(msg, words) == IF isMultilingualHeuristic(msg, words) THEN LongBudget ELSE ShortBudget

\* The paragraphs a message may turn into, one for each way the cut may fall.
ToParagraph(msg) ==
  LET words == Cleaned(msg)
  IN  {[domain |-> msg.domain, subject |-> msg.subject, body |-> cut,
        hasAttachments |-> msg.hasAttachments] : cut \in truncateRunes(words, Budget(msg, words))}
=============================================================================
