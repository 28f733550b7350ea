----------------------------- MODULE UriTemplate -----------------------------
(***************************************************************************)
(* URI templates (internal/uritemplates/uritemplates.go): parsing, names,  *)
(* expansion, and the partial expansion that this repository added.        *)
(*                                                                         *)
(* A text is a sequence of tokens: a name, a number, a character of the    *)
(* template syntax, or a character of a value.  A value is a string, an    *)
(* array or a map; its items are pairs of texts, in the order in which Go  *)
(* happens to iterate over them (the key is used by maps only).            *)
(***************************************************************************)
EXTENDS Naturals, Sequences, SequencesExt, TLC

CONSTANTS
    NameTokens,  \* tokens that validname accepts
    Numbers,     \* what a token that is a number stands for: [token -> Nat]
    Unreserved,  \* characters that are never escaped
    Reserved     \* characters that + and # leave alone

ASSUME NumbersAssumption == \A t \in DOMAIN Numbers : Numbers[t] \in Nat
ASSUME EscapeAssumption  == "{" \notin Unreserved \cup Reserved

\* strings.Split and strings.Join with a separator of one token.
Split(text, sep) ==
    LET split[i \in 0..Len(text)] ==
            IF i = 0 THEN << <<>> >>
            ELSE LET chunks == split[i - 1]
                 IN  IF text[i] = sep THEN Append(chunks, <<>>)
                     ELSE Append(Front(chunks), Append(Last(chunks), text[i]))
    IN  split[Len(text)]
Join(texts, sep) ==
    LET joined[i \in 0..Len(texts)] ==
            IF i = 0 THEN <<>>
            ELSE joined[i - 1] \o (IF i = 1 THEN <<>> ELSE <<sep>>) \o texts[i]
    IN  joined[Len(texts)]

\* What Op makes of each of texts.
Each(Op(_), texts) ==
    LET made == [text \in ToSet(texts) |-> Op(text)]
    IN  [i \in DOMAIN texts |-> made[texts[i]]]

Escape(text, allowReserved) ==
    [i \in DOMAIN text |->
        IF text[i] \in Unreserved \/ (allowReserved /\ text[i] \in Reserved)
        THEN text[i] ELSE "%" \o text[i]]

(***************************************************************************)
(* Parsing                                                                 *)
(***************************************************************************)
Operators == {"+", ".", "/", ";", "?", "&", "#"}

\* The fields that parseExpression sets for each operator.
Style == [op \in Operators \cup {"none"} |->
    [first         |-> IF op \in {"none", "+"} THEN <<>> ELSE <<op>>,
     sep           |-> IF op \in {"none", "+", "#"} THEN "," ELSE IF op = "?" THEN "&" ELSE op,
     named         |-> op \in {";", "?", "&"},
     ifemp         |-> IF op \in {"?", "&"} THEN <<"=">> ELSE <<>>,
     allowReserved |-> op \in {"+", "#"}]]

ParseTerm(text) ==
    LET explode == text # <<>> /\ Last(text) = "*"
        split   == Split(IF explode THEN Front(text) ELSE text, ":")
        number  == IF Len(split) = 2 THEN split[2] ELSE <<"0">>
        isInt   == Len(number) = 1 /\ number[1] \in DOMAIN Numbers
        cut     == IF isInt THEN Numbers[number[1]] ELSE 0
    IN  [term |-> [name |-> split[1], explode |-> explode, truncate |-> cut],
         ok   |-> /\ Len(split) <= 2 /\ isInt
                  /\ split[1] # <<>> /\ ToSet(split[1]) \subseteq NameTokens
                  /\ ~(explode /\ cut > 0)]

Literal(text) == [raw |-> text, terms |-> <<>>, style |-> Style["none"]]

\* Only called with an expression that is not empty.
ParseExpression(text) ==
    LET op    == IF text[1] \in Operators THEN text[1] ELSE "none"
        split == Split(IF op = "none" THEN text ELSE Tail(text), ",")
        terms == Each(ParseTerm, split)
    IN  [part |-> [raw   |-> <<>>, style |-> Style[op],
                   terms |-> [i \in DOMAIN terms |-> terms[i].term]],
         ok   |-> \A i \in DOMAIN terms : terms[i].ok]

\* What the chunk after a "{" makes of Parse: expression[0] of an empty
\* expression is out of range.
ChunkParsed(chunk) ==
    LET subsplit == Split(chunk, "}")
        Ended(outcome) == [outcome |-> outcome, parts |-> <<>>]
        Parsed(e) == IF e.ok THEN [outcome |-> "ok", parts |-> <<e.part, Literal(subsplit[2])>>]
                     ELSE Ended("error")
    IN  IF Len(subsplit) # 2 THEN Ended("error")
        ELSE IF subsplit[1] = <<>> THEN Ended("panic")
        ELSE Parsed(ParseExpression(subsplit[1]))

\* The first chunk that is not well-formed decides.
Parse(raw) ==
    LET split  == Split(raw, "{")
        chunks == <<[outcome |-> IF Contains(split[1], "}") THEN "error" ELSE "ok",
                     parts   |-> <<Literal(split[1])>>]>> \o Each(ChunkParsed, Tail(split))
        bad    == SelectInSeq(chunks, LAMBDA c : c.outcome # "ok")
    IN  IF bad = 0
        THEN [outcome |-> "ok", raw |-> raw,
              parts   |-> FlattenSeq([i \in DOMAIN chunks |-> chunks[i].parts])]
        ELSE [outcome |-> chunks[bad].outcome, raw |-> <<>>, parts |-> <<>>]

NamesOf(template) ==
    UNION {{p.terms[i].name : i \in DOMAIN p.terms} : p \in ToSet(template.parts)}

(***************************************************************************)
(* Expansion                                                               *)
(***************************************************************************)
Truncate(term, text) ==
    IF term.truncate > 0 /\ Len(text) > term.truncate
    THEN SubSeq(text, 1, term.truncate) ELSE text

NameText(style, term, empty) ==
    IF style.named THEN term.name \o (IF empty THEN style.ifemp ELSE <<"=">>) ELSE <<>>

ExpandString(style, term, text) ==
    LET s == Truncate(term, text)
    IN  NameText(style, term, s = <<>>) \o Escape(s, style.allowReserved)

ExpandItem(style, term, kind, item) ==
    IF kind = "map"
    THEN Escape(item.key, style.allowReserved) \o <<IF term.explode THEN "=" ELSE ",">>
         \o Escape(item.val, style.allowReserved)
    ELSE IF term.explode THEN ExpandString(style, term, item.val)
    ELSE Escape(Truncate(term, item.val), style.allowReserved)

\* expandArray and expandMap write nothing when there are no items.
ExpandValue(style, term, v) ==
    IF v.kind = "string" THEN ExpandString(style, term, v.items[1].val)
    ELSE IF v.items = <<>> THEN <<>>
    ELSE (IF term.explode THEN <<>> ELSE NameText(style, term, FALSE))
         \o Join([i \in DOMAIN v.items |-> ExpandItem(style, term, v.kind, v.items[i])],
                 IF term.explode THEN style.sep ELSE ",")

\* templatePart.expand: the text, the terms without a value, and whether a map
\* was to be truncated.  A separator is written whenever something is there
\* already, and first is dropped when nothing follows it.
ExpandTerm(acc, term, style, values) ==
    IF term.name \notin DOMAIN values
    THEN [acc EXCEPT !.missing = Append(@, term)]
    ELSE LET v == values[term.name]
         IN  [acc EXCEPT
                !.text = @ \o (IF @ = <<>> THEN <<>> ELSE <<style.sep>>)
                           \o ExpandValue(style, term, v),
                !.ok   = @ /\ ~(v.kind = "map" /\ term.truncate > 0)]
ExpandTerms(p, values) ==
    LET expanded[i \in 0..Len(p.terms)] ==
            IF i = 0 THEN [text |-> <<>>, missing |-> <<>>, ok |-> TRUE]
            ELSE ExpandTerm(expanded[i - 1], p.terms[i], p.style, values)
    IN  expanded[Len(p.terms)]
ExpandPart(p, values) ==
    IF p.raw # <<>> THEN [text |-> p.raw, missing |-> <<>>, ok |-> TRUE]
    ELSE [ExpandTerms(p, values) EXCEPT !.text = IF @ = <<>> THEN <<>> ELSE p.style.first \o @]

Expand(template, values) ==
    LET done == [i \in DOMAIN template.parts |-> ExpandPart(template.parts[i], values)]
    IN  [ok   |-> \A i \in DOMAIN done : done[i].ok,
         text |-> FlattenSeq([i \in DOMAIN done |-> done[i].text])]

\* Fault: the operator is written as if no term had a value.
RemainderFirst(p, missing) ==
    IF missing = <<>> THEN <<>>
    ELSE <<"{">> \o p.style.first
         \o Join([i \in DOMAIN missing |->
                     missing[i].name \o (IF missing[i].explode THEN <<"*">> ELSE <<>>)], ",")
         \o <<"}">>

\* What PartialExpand writes for the terms of p that have no value: the operator
\* as first or sep has it, and no prefix length.
Remainder(p, missing) ==
    IF missing = <<>> THEN <<>>
    ELSE <<"{">>
         \o (IF Len(missing) = Len(p.terms) THEN p.style.first ELSE <<p.style.sep>>)
         \o Join([i \in DOMAIN missing |->
                     missing[i].name \o (IF missing[i].explode THEN <<"*">> ELSE <<>>)], ",")
         \o <<"}">>

\* The new template keeps the whole part where a term has no value.
PartialExpand(template, values) ==
    LET done == [i \in DOMAIN template.parts |-> ExpandPart(template.parts[i], values)]
    IN  [ok    |-> \A i \in DOMAIN done : done[i].ok,
         raw   |-> FlattenSeq([i \in DOMAIN done |->
                       done[i].text \o Remainder(template.parts[i], done[i].missing)]),
         parts |-> [i \in DOMAIN done |->
                       IF done[i].missing = <<>> THEN Literal(done[i].text)
                       ELSE template.parts[i]]]
=============================================================================
