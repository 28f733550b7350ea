------------------------------ MODULE Locations ------------------------------
(***************************************************************************)
(* From the command line to what is expanded or requested: the expander of *)
(* rug (uritemplates/command.go, uritemplate.go) and the location resolver *)
(* of wig (httpclient/resolver.go, value.go, client.go).                   *)
(*                                                                         *)
(* Both programs read flags in the order they are given, -T and -t merge   *)
(* into the same kind of variables, and then run once: rug prints the      *)
(* template expanded or partially expanded, wig resolves every location    *)
(* and asks each for its URL.                                              *)
(***************************************************************************)
EXTENDS TemplateVars

CONSTANTS
    Chars,        \* tokens that arguments are made of
    Schemes,      \* tokens such as "https:" that make a location absolute
    ParamArgs,    \* what -T may be given: sequences of arguments
    ParamsArgs,   \* what -t may be given: JSON objects, as sequences of entries
    ParamsTexts,  \* what -t may be given in the abbreviated syntax
    TemplateArgs, \* arguments of rug
    UrlArgs,      \* arguments of wig
    BaseArgs,     \* what --base may be given
    Rests,        \* values for the variables that a partial expansion leaves
    MaxFlags      \* bound: flags and arguments of a command line

\* JSON has for a name a string, an array, a map, or something else.
Texts      == Seq(Chars)
JSONValues == [kind : {"string", "array", "map", "other"}, items : Seq([key : Texts, val : Texts])]

ASSUME MaxFlagsAssumption == MaxFlags \in Nat
ASSUME TextsAssumption ==
    /\ ParamArgs \subseteq Seq(Texts)
    /\ ParamsTexts \subseteq Texts /\ TemplateArgs \subseteq Texts /\ UrlArgs \subseteq Texts
ASSUME ParamsArgsAssumption == \A entries \in ParamsArgs :
    /\ entries \in Seq([key : Texts, val : JSONValues])
    /\ \A i \in DOMAIN entries :
          entries[i].val.kind \in {"string", "other"} => Len(entries[i].val.items) = 1
\* A percent-encoded character is not a brace.
ASSUME EscapedAssumption == \A c \in Chars \cup {"<nil>"} : "%" \o c # "{"

VARIABLES
    program,   \* "rug" or "wig"
    phase,     \* "flags", "fetching", "done", "failed" or "panicked"
    count,     \* flags and arguments so far
    vars,      \* Expander.vars, or defaultLocationResolver.vars
    given,     \* history: the variables that Add and Update were called with
    template,  \* Expander.template
    partial,   \* Expander.partial
    printed,   \* what rug prints
    urls,      \* defaultLocationResolver.urls
    base,      \* defaultLocationResolver.base
    locations, \* what Resolve returned
    requested  \* the URLs of the locations so far

rugVars == <<template, partial, printed>>
wigVars == <<urls, base, locations, requested>>
allVars == <<program, phase, count, vars, given, template, partial, printed,
             urls, base, locations, requested>>

NoTemplate == [outcome |-> "unset", raw |-> <<>>, parts |-> <<>>]
Nothing    == [ok |-> FALSE, raw |-> <<>>]

Init ==
    /\ program \in {"rug", "wig"} /\ phase = "flags" /\ count = 0
    /\ vars = NoVars /\ given = <<>>
    /\ template = NoTemplate /\ partial = FALSE /\ printed = Nothing
    /\ urls = <<>> /\ base = <<>> /\ locations = <<>> /\ requested = <<>>

\* One more flag or argument, after which the phase is next.
Flag(next) ==
    /\ phase = "flags" /\ count < MaxFlags
    /\ count' = count + 1 /\ phase' = next
    /\ UNCHANGED program

(***************************************************************************)
(* Variables                                                               *)
(***************************************************************************)
Entry(name, v) == [key |-> name, val |-> v]

\* -T: rug hands the Var to Vars.Add; wig makes a new one of its name and value.
\* The error of a map that does not apply is dropped by Add.
SetURITemplateVar(args) ==
    LET v     == ReadVar(args)
        value == IF program = "wig" THEN NewVarValue(v.value) ELSE v.value
    IN  /\ IF ~v.ok THEN Flag("failed") /\ UNCHANGED <<vars, given>>
           ELSE IF ~CanSet(value) THEN Flag("panicked") /\ UNCHANGED <<vars, given>>
           ELSE /\ Flag("flags")
                /\ vars'  = SetHelper(vars, v.name, value)
                /\ given' = Append(given, Entry(v.name, value))
        /\ UNCHANGED rugVars /\ UNCHANGED wigVars

\* -t: rug updates its variables in place; wig adds them one by one.
SetURITemplateVars(entries) ==
    LET asVars == [i \in DOMAIN entries |-> Entry(entries[i].key, NewVarValue(entries[i].val))]
        update == Update(vars, entries)
    IN  /\ IF program = "wig"
           THEN /\ Flag("flags")
                /\ vars'  = AddAll(vars, asVars)
                /\ given' = given \o asVars
           ELSE /\ Flag(CASE update.outcome = "ok"    -> "flags"
                          [] update.outcome = "error" -> "failed"
                          [] update.outcome = "panic" -> "panicked")
                /\ vars'  = update.vars
                /\ given' = given \o entries
        /\ UNCHANGED rugVars /\ UNCHANGED wigVars

ParamFlag  == \E args \in ParamArgs : SetURITemplateVar(args)
ParamsFlag == \E entries \in ParamsArgs : \E order \in SetToSeqs(ToSet(entries)) :
                  SetURITemplateVars(order)

\* The abbreviated syntax sets one variable of a new Vars.
ParamsTextFlag ==
    \E text \in ParamsTexts :
        LET set == VarsSet(text)
        IN  \/ set.ok /\ SetURITemplateVars(<<Entry(set.key, set.val)>>)
            \/ /\ ~set.ok /\ Flag("failed")
               /\ UNCHANGED <<vars, given>> /\ UNCHANGED rugVars /\ UNCHANGED wigVars

(***************************************************************************)
(* rug                                                                     *)
(***************************************************************************)
\* URITemplate.Set appends the argument to the template it has.
TemplateArg ==
    /\ program = "rug"
    /\ \E arg \in TemplateArgs :
          /\ template' = Parse(template.raw \o arg)
          /\ Flag(CASE template'.outcome = "ok"    -> "flags"
                    [] template'.outcome = "error" -> "failed"
                    [] template'.outcome = "panic" -> "panicked")
    /\ UNCHANGED <<vars, given, partial, printed>> /\ UNCHANGED wigVars

PartialFlag ==
    /\ program = "rug" /\ ~partial
    /\ Flag("flags")
    /\ partial' = TRUE
    /\ UNCHANGED <<vars, given, template, printed>> /\ UNCHANGED wigVars

\* The variables with the entries of each map in some order: Go's iteration.
Iterations(vs) ==
    {o \in [DOMAIN vs -> UNION {[kind : {vs[n].kind}, items : SetToSeqs(ToSet(vs[n].items))
                                                               \cup {vs[n].items}] : n \in DOMAIN vs}] :
        \A n \in DOMAIN vs :
            /\ o[n].kind = vs[n].kind
            /\ IF vs[n].kind = "map" THEN o[n].items \in SetToSeqs(ToSet(vs[n].items))
               ELSE o[n].items = vs[n].items}

\* expandAndPrint; rug shows its help without a template.
ExpandAndPrint ==
    /\ program = "rug" /\ phase = "flags" /\ template.outcome = "ok"
    /\ \E values \in Iterations(vars) :
          LET whole == Expand(template, values)
              part  == PartialExpand(template, values)
          IN  printed' = IF partial THEN [ok |-> part.ok, raw |-> part.raw]
                                    ELSE [ok |-> whole.ok, raw |-> whole.text]
    /\ phase' = IF printed'.ok THEN "done" ELSE "failed"
    /\ UNCHANGED <<program, count, vars, given, template, partial>> /\ UNCHANGED wigVars

(***************************************************************************)
(* wig                                                                     *)
(***************************************************************************)
StartsWith(text, tokens) == text # <<>> /\ text[1] \in tokens
LooksLikeURL(text) == StartsWith(text, Schemes)

FixupAddress(addr) ==
    IF StartsWith(addr, {":"}) THEN <<"http:", "/", "/", "localhost">> \o addr
    ELSE IF addr = <<>> \/ StartsWith(addr, {"/"}) \/ LooksLikeURL(addr) THEN addr
    ELSE <<"http:", "/", "/">> \o addr

\* path.Clean for paths without "." and "..": one slash for several, and none
\* at the end.  path.Join leaves out what is empty.
OneSlash(text) ==
    LET cleaned[i \in 0..Len(text)] ==
            IF i = 0 THEN <<>>
            ELSE IF text[i] = "/" /\ i > 1 /\ text[i - 1] = "/" THEN cleaned[i - 1]
            ELSE Append(cleaned[i - 1], text[i])
    IN  cleaned[Len(text)]
JoinNonempty(texts) ==
    LET joined[i \in 0..Len(texts)] ==
            IF i = 0 THEN <<>>
            ELSE IF texts[i] = <<>> THEN joined[i - 1]
            ELSE joined[i - 1] \o (IF joined[i - 1] = <<>> THEN <<>> ELSE <<"/">>) \o texts[i]
    IN  joined[Len(texts)]
PathJoin(texts) ==
    LET path == OneSlash(JoinNonempty(texts))
    IN  IF Len(path) > 1 /\ Last(path) = "/" THEN Front(path) ELSE path

\* Only the first of the locations to append is tested for being absolute.
ResolveURL(from, prefix) ==
    LET absolute == prefix # <<>> /\ LooksLikeURL(prefix[1])
        start    == IF absolute THEN prefix[1] ELSE from
        rest     == IF absolute THEN Tail(prefix) ELSE prefix
    IN  start \o (IF start # <<>> /\ rest # <<>> THEN <<"/">> ELSE <<>>) \o PathJoin(rest)

\* Location i appends the second to the i-th argument to the first.
ResolveAll(us) ==
    [i \in DOMAIN us |->
        FixupAddress(IF i = 1 THEN ResolveURL(<<>>, <<us[1]>>)
                     ELSE ResolveURL(FixupAddress(us[1]), SubSeq(us, 2, i)))]

URLArg ==
    /\ program = "wig"
    /\ Flag("flags")
    /\ \E u \in UrlArgs : urls' = Append(urls, u)
    /\ UNCHANGED <<vars, given, base, locations, requested>> /\ UNCHANGED rugVars

\* url.ResolveReference of what URLValue.URL returns: empty, rooted or absolute.
ResolveReference(from, u) ==
    IF u = <<>> THEN from
    ELSE IF ~StartsWith(u, {"/"}) THEN u
    ELSE (IF LooksLikeURL(from) THEN SubSeq(from, 1, 4) ELSE <<>>) \o u

SetBaseURL ==
    /\ program = "wig"
    /\ \E b \in BaseArgs :
          \/ Flag("failed") /\ UNCHANGED base
          \/ /\ Flag("flags")
             /\ base' = IF base = <<>> THEN FixupAddress(b)
                        ELSE ResolveReference(base, FixupAddress(b))
    /\ UNCHANGED <<vars, given, urls, locations, requested>> /\ UNCHANGED rugVars

\* Fault: only a location with an expression in its own argument is a template.
ResolveOwn ==
    /\ program = "wig" /\ phase = "flags" /\ urls # <<>>
    /\ locations' = [i \in DOMAIN urls |->
                        [text |-> ResolveAll(urls)[i], template |-> vars # NoVars /\ Contains(urls[i], "{")]]
    /\ phase' = "fetching"
    /\ UNCHANGED <<program, count, vars, given, urls, base, requested>> /\ UNCHANGED rugVars

\* Resolve: a location is a template if there is any variable.
Resolve ==
    /\ program = "wig" /\ phase = "flags" /\ urls # <<>>
    /\ locations' = [i \in DOMAIN urls |->
                        [text |-> ResolveAll(urls)[i], template |-> vars # NoVars]]
    /\ phase' = "fetching"
    /\ UNCHANGED <<program, count, vars, given, urls, base, requested>> /\ UNCHANGED rugVars

\* u.JoinPath: a path of at least one slash, and one slash for several.
JoinPath(u) ==
    LET query     == SelectInSeq(u, LAMBDA t : t \in {"?", "#"})
        whole     == IF query = 0 THEN u ELSE SubSeq(u, 1, query - 1)
        slash     == IF LooksLikeURL(u)
                     THEN SelectInSubSeq(whole, 4, Len(whole), LAMBDA t : t = "/") ELSE 1
        authority == IF slash = 0 THEN whole ELSE SubSeq(whole, 1, slash - 1)
    IN  authority
        \o (IF slash = 0 THEN <<"/">> ELSE OneSlash(SubSeq(whole, slash, Len(whole))))
        \o (IF query = 0 THEN <<>> ELSE SubSeq(u, query, Len(u)))

\* autoLocation.URL of the next location; Do stops at the first error.  What
\* url.Parse refuses is not modelled: it may refuse anything.
FetchURL ==
    /\ phase = "fetching" /\ Len(requested) < Len(locations)
    /\ LET l == locations[Len(requested) + 1]
       IN  \/ phase' = "failed" /\ UNCHANGED requested
           \/ /\ ~l.template
              /\ requested' = Append(requested, l.text) /\ UNCHANGED phase
           \/ /\ l.template
              /\ \E parsed \in {Parse(l.text)} :
                    \/ /\ parsed.outcome = "ok"
                       /\ \E whole \in {Expand(parsed, values) : values \in Iterations(vars)} :
                             whole.ok /\ requested' = Append(requested, JoinPath(whole.text))
                       /\ UNCHANGED phase
                    \/ /\ parsed.outcome = "panic"
                       /\ phase' = "panicked" /\ UNCHANGED requested
    /\ UNCHANGED <<program, count, vars, given, urls, base, locations>> /\ UNCHANGED rugVars

AllFetched ==
    /\ phase = "fetching" /\ Len(requested) = Len(locations)
    /\ phase' = "done"
    /\ UNCHANGED <<program, count, vars, given>> /\ UNCHANGED rugVars /\ UNCHANGED wigVars

Next ==
    \/ ParamFlag \/ ParamsFlag \/ ParamsTextFlag
    \/ TemplateArg \/ PartialFlag \/ ExpandAndPrint
    \/ URLArg \/ SetBaseURL \/ Resolve \/ FetchURL \/ AllFetched

Spec == Init /\ [][Next]_allVars

-----------------------------------------------------------------------------
(***************************************************************************)
(* Properties                                                              *)
(***************************************************************************)
\* Every variable holds a value of its type.
TypeOK ==
    /\ program \in {"rug", "wig"}
    /\ phase \in {"flags", "fetching", "done", "failed", "panicked"}
    /\ count \in 0..MaxFlags
    /\ \A name \in DOMAIN vars : CanSet(vars[name])
    /\ \A name \in DOMAIN vars : vars[name].kind = "string" => Len(vars[name].items) = 1
    /\ \A i \in DOMAIN given : given[i].val.kind \in {"string", "array", "map", "other"}
    /\ template.outcome \in {"unset", "ok", "error", "panic"} /\ partial \in BOOLEAN
    /\ Len(urls) <= MaxFlags
    /\ Len(locations) <= Len(urls) /\ Len(requested) <= Len(locations)

\* What was given for a name, in the order of the flags.
EventsOf(history, name) ==
    LET events[i \in 0..Len(history)] ==
            IF i = 0 THEN <<>>
            ELSE IF history[i].key = name THEN Append(events[i - 1], history[i])
            ELSE events[i - 1]
    IN  events[Len(history)]

\* What counts of it: all from the latest string on.
Current(history, name) ==
    LET events == EventsOf(history, name)
        latest == SelectLastInSeq(events, LAMBDA e : e.val.kind = "string")
    IN  SubSeq(events, IF latest = 0 THEN 1 ELSE latest, Len(events))

\* The arrays and strings that were given for a name add up in the order of
\* the flags, from the latest string on; no flag loses what an earlier one gave.
OccurrencesAccumulate ==
    phase \notin {"failed", "panicked"} => \A name \in DOMAIN vars :
        LET current == Current(given, name)
        IN  (\A i \in DOMAIN current : current[i].val.kind # "map") =>
                vars[name].items = FlattenSeq([i \in DOMAIN current |-> current[i].val.items])

\* The parts of a template that survive being printed with some of their terms
\* filled in: all terms have values; or none has, and the operator is not "+",
\* which first does not hold; or those that have come first, leave a text, and
\* are separated by the operator.  Prefix lengths are lost.
Survives(p) ==
    LET known(i) == p.terms[i].name \in DOMAIN vars
        ids      == DOMAIN p.terms
    IN  \/ \A i \in ids : known(i)
        \/ /\ \A i \in ids : ~known(i) => p.terms[i].truncate = 0
           /\ \/ /\ \A i \in ids : ~known(i)
                 /\ p.style # Style["+"]
              \/ /\ \A i, j \in ids : known(j) /\ i < j => known(i)
                 /\ ExpandPart(p, vars).text # <<>>
                 /\ p.style.sep # ","

\* Expanding what rug --partial printed with values for the missing variables
\* gives what the template gives with all values at once.
PartialKeepsRest ==
    (program = "rug" /\ phase = "done" /\ partial
     /\ \A i \in DOMAIN template.parts : Survives(template.parts[i])) =>
        LET again == Parse(printed.raw)
        IN  \A rest \in Rests :
              LET missing == NamesOf(template) \ DOMAIN vars
                  Values(known) == [name \in missing |-> rest] @@ known
              IN  /\ again.outcome = "ok"
                  /\ \E known \in Iterations(vars) :
                        Expand(again, Values(NoVars)) = Expand(template, Values(known))

\* As soon as a variable is given, before or after the locations, no request
\* carries an expression that was not expanded.
TemplatesExpand ==
    vars # NoVars => \A i \in DOMAIN requested : ~Contains(requested[i], "{")
=============================================================================
