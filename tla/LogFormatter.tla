---------------------------- MODULE LogFormatter ----------------------------
(* LogFormatter (log.cpp): how a pattern such as "[%p] %d{%H:%M} %m%n" is cut
   into items. A pattern is a sequence of characters. *)
EXTENDS Naturals, Sequences, SequencesExt

CONSTANTS
    Letters,    \* the characters that isalpha takes
    ItemNames   \* the names in s_format_items, each a sequence of letters

Plain(text)     == [kind |-> "plain", text |-> text]
Item(name, fmt) == [kind |-> "item", name |-> name, fmt |-> fmt]
Broken          == [kind |-> "broken"]     \* the text "<<pattern_error>>"

InName(c) == c \in Letters \cup {"}"}
EndsName(s)   == {j \in DOMAIN s : ~InName(s[j])}
EndsFormat(s) == {j \in DOMAIN s : s[j] = "}"}

(* The first of these positions from i on, or the end of the pattern. *)
FirstFrom(ends, i, s) ==
    LET found == {j \in ends : j >= i} IN
    IF found = {} THEN Len(s) + 1 ELSE CHOOSE j \in found : \A k \in found : j <= k

(* The text collected so far becomes an item of its own. *)
Flush(vec, nstr) == IF nstr = <<>> THEN vec ELSE Append(vec, Plain(nstr))

(* Where the parser is: the position, the text collected, the items so far. *)
At(i, nstr, vec) == [i |-> i, nstr |-> nstr, vec |-> vec]

(* Text is collected; of "%%" the first '%' is text and the second one is looked
   at again. *)
Collect(at, text) == At(at.i + 1, Append(at.nstr, text), at.vec)

(* An item ends the text before it; the parser goes on at i. *)
Emit(at, i, name, fmt) == At(i, <<>>, Append(Flush(at.vec, at.nstr), Item(name, fmt)))

(* A mutant: the character after a format is skipped. *)
CutSkipping(s, at) ==
    LET e == FirstFrom(EndsName(s), at.i + 1, s)
        c == FirstFrom(EndsFormat(s), e + 1, s)
        name == SubSeq(s, at.i + 1, e - 1)
    IN  IF at.i > Len(s) THEN at
        ELSE IF s[at.i] # "%" THEN Collect(at, s[at.i])
        ELSE IF at.i < Len(s) /\ s[at.i + 1] = "%" THEN Collect(at, "%")
        ELSE IF e > Len(s) \/ s[e] # "{" THEN Emit(at, e, name, <<>>)
        ELSE IF c <= Len(s) THEN Emit(at, c + 2, name, SubSeq(s, e + 1, c - 1))
        ELSE At(at.i + 1, at.nstr, Append(at.vec, Broken))

(* A turn of the loop of LogFormatter::init. A format that is not closed leaves
   its characters to be read as text. *)
Cut(s, at) ==
    LET e == FirstFrom(EndsName(s), at.i + 1, s)
        c == FirstFrom(EndsFormat(s), e + 1, s)
        name == SubSeq(s, at.i + 1, e - 1)
    IN  IF at.i > Len(s) THEN at
        ELSE IF s[at.i] # "%" THEN Collect(at, s[at.i])
        ELSE IF at.i < Len(s) /\ s[at.i + 1] = "%" THEN Collect(at, "%")
        ELSE IF e > Len(s) \/ s[e] # "{" THEN Emit(at, e, name, <<>>)
        ELSE IF c <= Len(s) THEN Emit(at, c + 1, name, SubSeq(s, e + 1, c - 1))
        ELSE At(at.i + 1, at.nstr, Append(at.vec, Broken))

(* Every turn takes one character or more. *)
Parse(pattern) ==
    LET end == FoldLeft(LAMBDA at, c : Cut(pattern, at), At(1, <<>>, <<>>), pattern)
    IN  Flush(end.vec, end.nstr)

(* m_error: a format without an end, or a name that is not in the table. *)
IsError(pattern) ==
    \E x \in ToSet(Parse(pattern)) :
        x.kind = "broken" \/ (x.kind = "item" /\ x.name \notin ItemNames)

-----------------------------------------------------------------------------
(* What the syntax "%xxx %xxx{xxx} %%" (log.cpp:440) says that items stand for,
   independent of the parser: a percent sign in a text is written as two, and an
   empty format may be written out or not. *)
Escaped(text) == FoldLeft(LAMBDA out, c : out \o (IF c = "%" THEN <<c, c>> ELSE <<c>>), <<>>, text)

Spellings(x) ==
    CASE x.kind = "plain" -> {Escaped(x.text)}
      [] x.kind = "item" -> {<<"%">> \o x.name \o <<"{">> \o x.fmt \o <<"}">>}
                            \cup (IF x.fmt = <<>> THEN {<<"%">> \o x.name} ELSE {})

SpelledBy(items) ==
    FoldLeft(LAMBDA texts, x : {t \o u : t \in texts, u \in Spellings(x)}, {<<>>}, items)

HasEscape(pattern) == \E i \in 1..(Len(pattern) - 1) : pattern[i] = "%" /\ pattern[i + 1] = "%"
=============================================================================
