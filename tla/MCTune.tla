------------------------------- MODULE MCTune -------------------------------
(* Two of the four topics are asked in this instance; scores sit on, just under *)
(* and well over the thresholds and the margin.                                 *)
EXTENDS Tune

MCNorm == "A" :> "A" @@ "a" :> "A" @@ "B" :> "B"

Plain(choice, confidence) == [choice |-> choice, confidence |-> confidence, probabilities |-> <<>>]
Scored(choice, key, p) == [choice |-> choice, confidence |-> 10, probabilities |-> key :> p]

JunkAnswers == {Plain("B", 99), Plain("a", 60), Scored("A", "A", 76), Scored("a", "a", 100)}
PersonAnswers == {Scored("B", "B", 90), Scored("a", "A", 60), Plain("A", 84), Scored("A", "A", 85)}
BankingAnswers == {Plain("A", 61), Scored("A", "A", 54)}

MCInputs ==
  {jk @@ pe @@ ba : jk \in {JunkQuestion :> x : x \in JunkAnswers} \cup {<<>>},
                    pe \in {"is_person" :> x : x \in PersonAnswers} \cup {<<>>},
                    ba \in {"is_banking" :> x : x \in BankingAnswers} \cup {<<>>}}

MCLabels == "people" :> "p" @@ "banking" :> "" @@ "unclassified" :> "u"
-----------------------------------------------------------------------------
(* Messages: every plain body of up to three lines, every HTML body of up to five *)
(* tokens over head, style, p and text, and MIME trees of up to three branches.   *)
Part(type, body, decodes, file, parts) ==
  [type |-> type, body |-> body, decodes |-> decodes, file |-> file, parts |-> parts]
Leaf(type, body) == Part(type, body, TRUE, FALSE, <<>>)
Multi(parts) == Part("multipart", <<>>, TRUE, FALSE, parts)

From(domain) == [name |-> "from", value |-> domain]
Subject(word) == [name |-> "subject", value |-> word]
Plainly(root) == [root |-> root, headers |-> <<From("a.com"), Subject("news")>>]

Lines == {<<>>, <<"text">>, <<"para">>, <<"text", "design">>, <<"tienda.mx", "text">>, <<"--">>,
          <<"--", "text">>, <<">", "text">>, <<"On", "text", "wrote:">>}
PlainBodies == UNION {[1 .. n -> Lines] : n \in 1 .. 3}

\* What a cut may leave of a word: it makes "design" Spanish, "para" and "tienda.mx" not.
MCBeginnings ==
  "text" :> {"te"} @@ "design" :> {"de", "desi"} @@ "para" :> {"par"} @@ "tienda.mx" :> {"tienda"}

Words == <<"w1", "w2", "w3", "w4", "w5">>
Tag(kind, tag) == [kind |-> kind, tag |-> tag, words |-> <<>>]
Tokens == {Tag(k, t) : k \in {"start", "end"}, t \in {"head", "style"}}
            \cup {Tag("start", "p"), Tag("text", "")}

\* Two texts never follow each other, and a style element holds raw text only.
Tokenized(html) ==
  \A i \in 1 .. (Len(html) - 1) :
    /\ html[i].kind = "text" => html[i + 1].kind # "text"
    /\ html[i] = Tag("start", "style") => html[i + 1] \in {Tag("text", ""), Tag("end", "style")}
    /\ i > 1 /\ html[i - 1] = Tag("start", "style") /\ html[i].kind = "text"
         => html[i + 1] = Tag("end", "style")

HtmlBodies ==
  {[i \in DOMAIN h |-> IF h[i].kind = "text" THEN [h[i] EXCEPT !.words = <<Words[i]>>] ELSE h[i]] :
     h \in {h \in UNION {[1 .. n -> Tokens] : n \in 1 .. 5} : Tokenized(h)}}

\* Read as an HTML reply: a paragraph, a self-closed rule, the reply header, the quote.
HtmlReply ==
  <<Tag("start", "div"), [kind |-> "text", tag |-> "", words |-> <<"para", "text">>],
    Tag("self", "br"), [kind |-> "text", tag |-> "", words |-> <<"On", "text", "wrote:">>],
    Tag("end", "div"), [kind |-> "text", tag |-> "", words |-> <<"text">>]>>

Branches ==
  {Leaf("text/plain", <<<<"text">>>>), Leaf("text/plain", <<>>),
   Part("text/plain", <<<<"broken">>>>, FALSE, TRUE, <<>>),
   Leaf("text/html", HtmlReply), Part("image", <<>>, TRUE, TRUE, <<>>),
   Multi(<<Leaf("text/html", <<Tag("start", "p")>>), Leaf("text/plain", <<<<"para">>>>)>>)}

MCPayloads ==
  {Plainly(Leaf("text/plain", b)) : b \in PlainBodies}
    \cup {Plainly(Leaf("text/html", b)) : b \in HtmlBodies \cup {HtmlReply}}
    \cup {Plainly(Multi(bs)) : bs \in UNION {[1 .. n -> Branches] : n \in 0 .. 3}}
    \cup {[root |-> Leaf("text/plain", b), headers |-> h] :
             b \in [1 .. 2 -> {<<"text">>, <<"text", "para">>}],
             h \in {<<>>, <<From("a.mx")>>, <<From("b.mx.com")>>, <<From("a.de")>>,
                    <<Subject("para")>>, <<Subject("para"), Subject("news"), From("a.com")>>}}

Children(parts) == UNION {ToSet(part.parts) : part \in parts}
MCParts ==
  LET roots == {p.root : p \in MCPayloads}
  IN  roots \cup Children(roots) \cup Children(Children(roots))
=============================================================================
