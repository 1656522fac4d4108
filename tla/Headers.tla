-------------------------------- MODULE Headers --------------------------------
(***************************************************************************)
(* The parsers of util.go for the lists in the headers of a handshake: one *)
(* action per turn of the loops of parseExtensions and                     *)
(* tokenListContainsValue.  A header is a sequence of lines, a line one of *)
(* characters.  A line is left at the first thing that is not in order;    *)
(* what was parsed of it stays.                                            *)
(***************************************************************************)
EXTENDS Naturals, SequencesExt

CONSTANTS Lists,   \* [lines, value]: a header as its sender means it, and the
                   \* value sought in it, or None: an extensions header
          None

Token  == {"a", "b", "A"}  \* isTokenOctet
Space  == {" ", "\t"}
Quote  == "\""
Escape == "\\"
Stray  == {Quote, Escape, "@"}
Octets == Token \cup Space \cup Stray \cup {"=", ";", ","}
Starts(t, set) == t # <<>> /\ Head(t) \in set

(* What a sender can mean: blanks anywhere between the tokens; a value, if *)
(* any, that is a token or quoted, with a backslash where it wants one;    *)
(* and at the end of a line something that is not in order.  Behind an = a *)
(* value follows, and a quote is closed.                                   *)
Blanks == Seq(Space)
Tokens == Seq(Token) \ {<<>>}
Quoted == {<<c>> : c \in Octets \ {Quote, Escape}} \cup {<<Escape, c>> : c \in Octets}
Values == [as : {"none"}] \cup [as : {"token"}, pre : Blanks, token : Tokens]
                          \cup [as : {"quoted"}, pre : Blanks, chars : Seq(Quoted)]
Params == [pre : Blanks, key : Tokens, post : Blanks, value : Values, end : Blanks]
Items  == [pre : Blanks, name : Tokens, post : Blanks, params : Seq(Params)]
Ends   == {e \in [mark : {<<>>, <<",">>, <<";">>}, pre : Blanks, rest : Seq(Octets)] :
              IF e.mark # <<>> THEN ~ Starts(e.rest, Token \cup Space)
              ELSE e.rest = <<>> \/ Starts(e.rest, Stray) \/ (e.pre # <<>> /\ Starts(e.rest, Token))}
Lines  == {l \in [items : Seq(Items), end : Ends] : l.items = <<>> => l.end.mark = <<",">>}

ASSUME ListsAssumption ==
    \A h \in Lists :
        /\ h \in [lines : Seq(Lines), value : {None} \cup Seq(Token)]
        /\ h.value # None => \A j \in DOMAIN h.lines : \A i \in DOMAIN h.lines[j].items :
                                  h.lines[j].items[i].params = <<>>

(* How it is written: a comma before every item of a line but the first.   *)
ValueText(v) == CASE v.as = "none"   -> <<>>
                  [] v.as = "token"  -> <<"=">> \o v.pre \o v.token
                  [] v.as = "quoted" -> <<"=">> \o v.pre \o <<Quote>> \o FlattenSeq(v.chars) \o <<Quote>>
ParamText(p) == <<";">> \o p.pre \o p.key \o p.post \o ValueText(p.value) \o p.end
ItemText(e)  == e.pre \o e.name \o e.post \o FlattenSeq([k \in DOMAIN e.params |-> ParamText(e.params[k])])
LineText(l)  == Tail(FlattenSeq([i \in DOMAIN l.items |-> <<",">> \o ItemText(l.items[i])])
                         \o l.end.mark \o l.end.pre \o l.end.rest)

(* What is to be found in it.  Of a parameter given twice, the last counts;*)
(* the item that something out of order follows is lost.                   *)
ValueOf(v) == CASE v.as = "none"   -> <<>>
                [] v.as = "token"  -> v.token
                [] v.as = "quoted" -> [i \in DOMAIN v.chars |-> Last(v.chars[i])]
Means(e) ==
    [name |-> e.name,
     params |-> [k \in {e.params[i].key : i \in DOMAIN e.params} |->
                    ValueOf(e.params[Max({i \in DOMAIN e.params : e.params[i].key = k})].value)]]
Kept(l) == IF l.end.mark = <<";">> \/ (l.end.mark = <<>> /\ l.end.rest # <<>>) THEN Front(l.items) ELSE l.items
SameWord(t, u) == Len(t) = Len(u) /\ \A i \in DOMAIN t : t[i] = u[i] \/ {t[i], u[i]} = {"a", "A"}
Meant(h) ==
    IF h.value = None
    THEN FlattenSeq([j \in DOMAIN h.lines |-> [i \in DOMAIN Kept(h.lines[j]) |-> Means(Kept(h.lines[j])[i])]])
    ELSE \E j \in DOMAIN h.lines : \E i \in DOMAIN Kept(h.lines[j]) : SameWord(Kept(h.lines[j])[i].name, h.value)
-----------------------------------------------------------------------------
VARIABLES list,    \* which of them
          lines,   \* the lines that follow
          s,       \* the rest of this line
          at,      \* "line", "ext", "param", "token" or "done"
          ext,     \* the extension being parsed
          found   \* the extensions, or whether the value was found

lvars == <<list, lines, s, at, ext, found>>

Sub(t, i) == SubSeq(t, i, Len(t))

(* How many of the leading characters are in this set.                     *)
Leading(t, set) ==
    CHOOSE n \in 0..Len(t) : (\A i \in 1..n : t[i] \in set) /\ ~ Starts(Sub(t, n + 1), set)

skipSpace(t) == Sub(t, Leading(t, Space) + 1)
nextToken(t) == [value |-> SubSeq(t, 1, Leading(t, Token)), rest |-> Sub(t, Leading(t, Token) + 1)]

(* A quoted string behind its first quote, with its length.                *)
UnquoteStep(q, c) ==
    LET plain == q.mode = "escape" \/ c \notin {Escape, Quote}
    IN  IF q.mode = "closed" THEN q
        ELSE [value |-> IF plain THEN Append(q.value, c) ELSE q.value,
              mode  |-> IF plain THEN "in" ELSE IF c = Escape THEN "escape" ELSE "closed",
              n     |-> q.n + 1]
Unquote(t) == FoldLeft(UnquoteStep, [value |-> <<>>, mode |-> "in", n |-> 0], t)

(* Faulty: the rest is counted without the backslashes.                    *)
NextUnescaped(t) ==
    IF ~ Starts(t, {Quote}) THEN nextToken(t)
    ELSE LET q == Unquote(Tail(t))
         IN  [value |-> q.value, rest |-> Sub(t, Len(q.value) + 3)]

nextTokenOrQuoted(t) ==
    IF ~ Starts(t, {Quote}) THEN nextToken(t)
    ELSE LET q == Unquote(Tail(t))
         IN  IF q.mode = "closed" THEN [value |-> q.value, rest |-> Sub(t, q.n + 2)]
             ELSE [value |-> <<>>, rest |-> <<>>]

With(f, key, value) == [x \in DOMAIN f \cup {key} |-> IF x = key THEN value ELSE f[x]]

Lower(t) == [i \in DOMAIN t |-> IF t[i] = "A" THEN "a" ELSE t[i]]
equalASCIIFold(t, u) == Lower(t) = Lower(u)
-----------------------------------------------------------------------------
HeadersInit(inputs) ==
    /\ list \in inputs
    /\ lines = [j \in DOMAIN list.lines |-> LineText(list.lines[j])]
    /\ s = <<>> /\ at = "line" /\ ext = None
    /\ found = IF list.value = None THEN <<>> ELSE FALSE

NextLine ==
    /\ at = "line"
    /\ IF lines = <<>> THEN at' = "done" /\ UNCHANGED <<lines, s>>
       ELSE /\ s' = Head(lines) /\ lines' = Tail(lines)
            /\ at' = IF list.value = None THEN "ext" ELSE "token"
    /\ UNCHANGED <<list, ext, found>>

(* continue headers                                                        *)
Abandon == at' = "line" /\ UNCHANGED <<list, lines, s, ext, found>>

Name ==
    /\ at = "ext"
    /\ LET t == nextToken(skipSpace(s))
       IN  \/ t.value = <<>> /\ Abandon
           \/ /\ t.value # <<>>
              /\ ext' = [name |-> t.value, params |-> <<>>]
              /\ s' = skipSpace(t.rest) /\ at' = "param"
              /\ UNCHANGED <<list, lines, found>>

(* A parameter that is given twice counts as it was given last.            *)
Param ==
    /\ at = "param" /\ Starts(s, {";"})
    /\ LET k == nextToken(skipSpace(Tail(s)))
           u == skipSpace(k.rest)
           v == IF Starts(u, {"="}) THEN nextTokenOrQuoted(skipSpace(Tail(u)))
                ELSE [value |-> <<>>, rest |-> u]
           w == skipSpace(v.rest)
       IN  \/ (k.value = <<>> \/ (w # <<>> /\ ~ Starts(w, {",", ";"}))) /\ Abandon
           \/ /\ k.value # <<>> /\ (w = <<>> \/ Starts(w, {",", ";"}))
              /\ ext' = [ext EXCEPT !.params = With(@, k.value, v.value)]
              /\ s' = w
              /\ UNCHANGED <<list, lines, at, found>>

Extension ==
    /\ at = "param" /\ ~ Starts(s, {";"})
    /\ \/ s # <<>> /\ ~ Starts(s, {","}) /\ Abandon
       \/ /\ s = <<>> \/ Starts(s, {","})
          /\ found' = Append(found, ext)
          /\ at' = IF s = <<>> THEN "line" ELSE "ext"
          /\ s' = IF s = <<>> THEN s ELSE Tail(s)
          /\ ext' = None
          /\ UNCHANGED <<list, lines>>

(* tokenListContainsValue.                                                 *)
ContainsValue ==
    /\ at = "token"
    /\ LET t == nextToken(skipSpace(s))
           u == skipSpace(t.rest)
       IN  \/ (t.value = <<>> \/ (u # <<>> /\ ~ Starts(u, {","}))) /\ Abandon
           \/ /\ t.value # <<>> /\ (u = <<>> \/ Starts(u, {","}))
              /\ found' = equalASCIIFold(t.value, list.value)
              /\ at' = IF found' THEN "done" ELSE IF u = <<>> THEN "line" ELSE "token"
              /\ s' = IF u = <<>> THEN u ELSE Tail(u)
              /\ UNCHANGED <<list, lines, ext>>

HeadersStep == NextLine \/ Name \/ Param \/ Extension \/ ContainsValue
-----------------------------------------------------------------------------
(* Both parsers find what the sender of a list means, whatever white space,*)
(* quoting, case and division into lines it chose; something out of order  *)
(* takes its element and the rest of its line with it, and neither the     *)
(* elements before it nor the other lines (util.go:231-238).               *)
ParsesLists == at = "done" => found = Meant(list)
=============================================================================
