---------------------------- MODULE Environment ----------------------------
(* Env (env.cpp): the command line, and the paths that are derived from it. A
   path, or another word, is a sequence of names. *)
EXTENDS Naturals, Sequences, SequencesExt

CONSTANT None

Option(key) == [kind |-> "option", key |-> key]
Word(text)  == [kind |-> "word", text |-> text]
Dash        == [kind |-> "dash"]     \* "-" alone

-----------------------------------------------------------------------------
add(args, key, val) == [k \in DOMAIN args \cup {key} |-> IF k = key THEN val ELSE args[k]]

has(args, key) == key \in DOMAIN args

get(args, key, default) == IF has(args, key) THEN args[key] ELSE default

(* An option without a value, which the next option or the end has shown. *)
Ended(e) == IF e.key = None THEN e ELSE [e EXCEPT !.args = add(@, e.key, <<>>), !.key = None]

Read(e, token) ==
    CASE ~e.ok -> e
      [] e.ok /\ token.kind = "option" -> [Ended(e) EXCEPT !.key = token.key]
      [] e.ok /\ token.kind = "word" /\ e.key # None ->
            [e EXCEPT !.args = add(@, e.key, token.text), !.key = None]
      [] OTHER -> [e EXCEPT !.ok = FALSE]

(* What is refused leaves the arguments read until then. *)
init(argv) ==
    LET e == FoldLeft(Read, [ok |-> TRUE, args |-> <<>>, key |-> None], argv) IN
    IF e.ok THEN Ended(e) ELSE e

-----------------------------------------------------------------------------
Separator == "\\"
Cwd == <<"C:", "app">>

getAbsolutePath(path) ==
    IF path = <<>> THEN <<Separator>>
    ELSE IF Head(path) = Separator THEN path ELSE Cwd \o path

getConfigPath(args) == getAbsolutePath(get(args, "c", <<"conf">>))

-----------------------------------------------------------------------------
(* What a command line means, independent of how it is read: a word belongs to
   the option before it, and of several options with one key the last counts. *)
IsWord(argv, i) == i \in DOMAIN argv /\ argv[i].kind = "word"

Keys(argv) == {i \in DOMAIN argv : argv[i].kind = "option"}

Legal(argv) ==
    \A i \in DOMAIN argv : argv[i].kind # "dash" /\ (IsWord(argv, i) => i - 1 \in Keys(argv))

Meaning(argv) ==
    LET last(k) == CHOOSE i \in Keys(argv) : /\ argv[i].key = k
                                             /\ \A j \in Keys(argv) : argv[j].key = k => j <= i
    IN  [k \in {argv[i].key : i \in Keys(argv)} |->
            IF IsWord(argv, last(k) + 1) THEN argv[last(k) + 1].text ELSE <<>>]
=============================================================================
