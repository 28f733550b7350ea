---------------------------- MODULE TemplateVars ----------------------------
(***************************************************************************)
(* The variables of URI templates (uritemplates/vars.go, var.go): how one  *)
(* occurrence of a flag is read, and how occurrences merge.                *)
(*                                                                         *)
(* Vars is a function from names to values as UriTemplate has them.  A     *)
(* value of another type, a JSON number for one, has kind "other"; what a  *)
(* Var holds before a value was read has kind "nil".                       *)
(***************************************************************************)
EXTENDS UriTemplate

CONSTANT TypeNames  \* what varTypes accepts: [token -> {"string", "array", "map"}]

ASSUME TypeNamesAssumption == \A t \in DOMAIN TypeNames :
                                  TypeNames[t] \in {"string", "array", "map"}

Item(key, val) == [key |-> key, val |-> val]
String(text)   == [kind |-> "string", items |-> <<Item(<<>>, text)>>]
Array(texts)   == [kind |-> "array", items |-> [i \in DOMAIN texts |-> Item(<<>>, texts[i])]]
Other(text)    == [kind |-> "other", items |-> <<Item(<<>>, text)>>]
NilValue       == [kind |-> "nil", items |-> <<>>]
NoVars         == << >>

\* strings.Cut with a separator of one token.
Cut(text, sep) ==
    LET i == SelectInSeq(text, LAMBDA t : t = sep)
    IN  IF i = 0 THEN [before |-> text, after |-> <<>>, found |-> FALSE]
        ELSE [before |-> SubSeq(text, 1, i - 1), after |-> SubSeq(text, i + 1, Len(text)),
              found |-> TRUE]

\* maps.Copy(items, more), the items of a map.
CopyItem(items, item) ==
    LET i == SelectInSeq(items, LAMBDA old : old.key = item.key)
    IN  IF i = 0 THEN Append(items, item) ELSE [items EXCEPT ![i] = item]
CopyItems(items, more) ==
    LET copied[i \in 0..Len(more)] ==
            IF i = 0 THEN items ELSE CopyItem(copied[i - 1], more[i])
    IN  copied[Len(more)]

(***************************************************************************)
(* Vars                                                                    *)
(***************************************************************************)
SetStringHelper(vars, name, v) ==
    [n \in DOMAIN vars \cup {name} |-> IF n = name THEN v ELSE vars[n]]

\* Fault: an array replaces what earlier occurrences gave.
SetArrayReplaces(vars, name, v) == SetStringHelper(vars, name, v)

\* Fault: a string that gets more elements is still taken for a string.
SetArrayKeepsKind(vars, name, v) ==
    IF name \notin DOMAIN vars THEN SetStringHelper(vars, name, v)
    ELSE [vars EXCEPT ![name].items = @ \o v.items]

\* An array extends what is there: a string becomes its first element, a map
\* gets its elements as keys.
SetArrayHelper(vars, name, v) ==
    LET c    == vars[name]
        keys == [i \in DOMAIN v.items |-> Item(v.items[i].val, <<>>)]
    IN  IF name \notin DOMAIN vars THEN SetStringHelper(vars, name, v)
        ELSE IF c.kind = "map" THEN [vars EXCEPT ![name].items = CopyItems(@, keys)]
        ELSE [vars EXCEPT ![name] = [kind |-> "array", items |-> c.items \o v.items]]

\* Whether setMapHelper returns no error, and what it leaves.
MapApplies(vars, name) == name \in DOMAIN vars => vars[name].kind = "map"
SetMapHelper(vars, name, v) ==
    IF ~MapApplies(vars, name) THEN vars
    ELSE IF name \in DOMAIN vars THEN [vars EXCEPT ![name].items = CopyItems(@, v.items)]
    ELSE SetStringHelper(vars, name, v)

SetHelper(vars, name, v) ==
    CASE v.kind = "map"    -> SetMapHelper(vars, name, v)
      [] v.kind = "array"  -> SetArrayHelper(vars, name, v)
      [] v.kind = "string" -> SetStringHelper(vars, name, v)

\* The default case of Add and Update panics.
CanSet(v) == v.kind \in {"map", "array", "string"}

\* NewVar turns what is not a map, an array or a string into text.
NewVarValue(v) == IF CanSet(v) THEN v
                  ELSE String(IF v.kind = "nil" THEN <<"<nil>">> ELSE v.items[1].val)

\* Update: stops at the first value that fails, and keeps what it set before.
UpdateOne(r, e) ==
    IF r.outcome # "ok" THEN r
    ELSE IF ~CanSet(e.val) THEN [vars |-> r.vars, outcome |-> "panic"]
    ELSE [vars    |-> SetHelper(r.vars, e.key, e.val),
          outcome |-> IF e.val.kind = "map" /\ ~MapApplies(r.vars, e.key)
                      THEN "error" ELSE "ok"]
Update(vars, entries) ==
    LET updated[i \in 0..Len(entries)] ==
            IF i = 0 THEN [vars |-> vars, outcome |-> "ok"]
            ELSE UpdateOne(updated[i - 1], entries[i])
    IN  updated[Len(entries)]

\* Add for each entry: the error of a map that does not apply is dropped.
AddAll(vars, entries) ==
    LET added[i \in 0..Len(entries)] ==
            IF i = 0 THEN vars ELSE SetHelper(added[i - 1], entries[i].key, entries[i].val)
    IN  added[Len(entries)]

\* The abbreviated syntax of Vars.Set for one variable, as the variable that it
\* sets or "error".
VarsSet(text) ==
    LET cut   == Cut(text, "=")
        value == cut.after
        inner == Split(SubSeq(value, 2, Len(value) - 1), ",")
        Entry(chunk) == LET c == Cut(chunk, ":") IN Item(c.before, c.after)
    IN  [key |-> cut.before,
         val |-> IF ~cut.found THEN String(cut.before)
                 ELSE IF value # <<>> /\ value[1] = "["
                 THEN Array(inner)
                 ELSE IF value # <<>> /\ value[1] = "{"
                 THEN [kind |-> "map", items |-> CopyItems(<<>>, [i \in DOMAIN inner |-> Entry(inner[i])])]
                 ELSE String(value),
         ok  |-> /\ (cut.found /\ value # <<>> /\ value[1] = "[") => Last(value) = "]"
                 /\ (cut.found /\ value # <<>> /\ value[1] = "{") => Last(value) = "}"]

(***************************************************************************)
(* Var: the state machine that reads the arguments of one occurrence       *)
(***************************************************************************)
NewVarState == [state |-> "initial", type |-> "string", name |-> <<>>, value |-> NilValue,
                ok |-> TRUE]

ValueOf(type, text) ==
    CASE type = "map"    -> LET c == Cut(text, "=")
                            IN  [kind |-> "map", items |-> <<Item(c.before, c.after)>>]
      [] type = "string" -> String(text)
      [] type = "array"  -> Array(Split(text, ","))

IsType(text) == Len(text) = 1 /\ text[1] \in DOMAIN TypeNames

\* ^(type),(.+)=(.+)$
IsInline(text) ==
    /\ Len(text) >= 2 /\ IsType(<<text[1]>>) /\ text[2] = ","
    /\ \E i \in 4..Len(text) - 1 : text[i] = "="

ParseNVP(v, text) ==
    LET c == Cut(text, "=")
    IN  [v EXCEPT !.name = c.before, !.value = ValueOf(v.type, c.after), !.state = "end"]

\* varState.next; arguments after the end are ignored.
NextArg(v, text) ==
    CASE v.state = "initial" ->
            IF IsInline(text)
            THEN ParseNVP([v EXCEPT !.type = TypeNames[text[1]]], SubSeq(text, 3, Len(text)))
            ELSE IF Contains(text, "=") THEN ParseNVP(v, text)
            ELSE IF IsType(text)
            THEN [v EXCEPT !.type = TypeNames[text[1]], !.state = "sawType"]
            ELSE [v EXCEPT !.ok = FALSE]
      [] v.state = "sawType" ->
            IF Contains(text, "=") THEN ParseNVP(v, text)
            ELSE [v EXCEPT !.name = text, !.state = "sawName"]
      [] v.state = "sawName" -> [v EXCEPT !.value = ValueOf(v.type, text), !.state = "end"]
      [] v.state = "end"     -> v

\* Var.Set for each argument in turn; the first error ends the occurrence.
ReadVar(args) ==
    LET read[i \in 0..Len(args)] ==
            IF i = 0 THEN NewVarState
            ELSE IF read[i - 1].ok THEN NextArg(read[i - 1], args[i]) ELSE read[i - 1]
    IN  read[Len(args)]
=============================================================================
