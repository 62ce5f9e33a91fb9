----------------------------- MODULE SystemOne -----------------------------
(***************************************************************************)
(* internal/systemone: one request to the model server and what is made of *)
(* its reply.  The server and the network are the environment.             *)
(***************************************************************************)
EXTENDS Extract, Integers

\* Looks for the same signs as isMultilingualHeuristic, but in the whole
\* paragraph, already cut, and for ".mx" and ".es" anywhere in it.
detectLangHint(para) ==
  LET words == ToSet(para.body) \cup {para.subject, para.domain}
  IN  IF words \cap (SpanishDomains \cup SpanishHosts \cup SpanishWords) # {}
      THEN "multilingual" ELSE "english"

Request(para) == [state |-> para, model |-> detectLangHint(para)]

\* A reply: the status, the shape of the body and, for shape "answers", the answers.
Shapes == {"answers", "null", "absent", "misshapen", "not json"}

Statuses == {200, 204, 422, 429, 503}

\* "none", or the error.  A status that is not 2xx hides the body; an answers object
\* that is null or missing is an error, an empty one is not.
ErrorOf(reply) ==
  CASE reply.status = 422 -> "unprocessable"
    [] reply.status # 422 /\ reply.status \notin 200 .. 299 -> "unexpected status"
    [] reply.status \in 200 .. 299 /\ reply.shape \in {"not json", "misshapen"} -> "decode"
    [] reply.status \in 200 .. 299 /\ reply.shape \in {"null", "absent"} -> "missing answers"
    [] reply.status \in 200 .. 299 /\ reply.shape = "answers" -> "none"
=============================================================================
