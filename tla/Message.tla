------------------------------ MODULE Message ------------------------------
(***************************************************************************)
(* toMessage: what the program keeps of a Gmail message.  A MIME part has  *)
(* a type, a body (<<>> if it carries no data), whether that body decodes  *)
(* (decodeBody: base64url, padded or not), whether it is an attachment,    *)
(* and its child parts.  A decoded text/plain body is a sequence of lines, *)
(* a text/html body a sequence of the tokens the HTML tokenizer finds.     *)
(***************************************************************************)
EXTENDS SequencesExt

CONSTANT Parts   \* MIME parts, whole messages and what they are made of

ASSUME PartsAssumption ==
  \A part \in Parts :
    /\ part.parts \in Seq(ToSet(part.parts)) /\ ToSet(part.parts) \subseteq Parts
    /\ part.file \in BOOLEAN

\* The part's own body, if it is of this type, has data and decodes.
ownBody(part, type) == IF part.type = type /\ part.decodes THEN part.body ELSE <<>>

\* The first body that is there, and its mutant, the last one.
LastOf(bodies) ==
  LET there == {i \in DOMAIN bodies : bodies[i] # <<>>}
  IN  IF there = {} THEN <<>> ELSE bodies[Max(there)]
FirstOf(bodies) ==
  LET there == {i \in DOMAIN bodies : bodies[i] # <<>>}
  IN  IF there = {} THEN <<>> ELSE bodies[Min(there)]

\* The part's own body comes before those of its children.
walkParts[part \in Parts] ==
  LET below == [i \in DOMAIN part.parts |-> walkParts[part.parts[i]]]
  IN  [text |-> FirstOf(<<ownBody(part, "text/plain")>> \o [i \in DOMAIN below |-> below[i].text]),
       html |-> FirstOf(<<ownBody(part, "text/html")>> \o [i \in DOMAIN below |-> below[i].html]),
       files |-> part.file \/ \E i \in DOMAIN below : below[i].files]

\* A header that comes twice: the last one counts; one that is missing is empty.
Header(payload, name) ==
  LET found == SelectSeq(payload.headers, LAMBDA h : h.name = name)
  IN  IF found = <<>> THEN "" ELSE Last(found).value

\* The HTML is dropped as soon as there is a plain body, even a blank one.
toMessage(payload) ==
  LET w == walkParts[payload.root]
  IN  [domain |-> Header(payload, "from"), subject |-> Header(payload, "subject"),
       text |-> w.text, html |-> IF w.text # <<>> THEN <<>> ELSE w.html,
       hasAttachments |-> w.files]
=============================================================================
