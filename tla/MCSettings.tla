----------------------------- MODULE MCSettings -----------------------------
(* Settings for TLC. *)
EXTENDS Settings

CONSTANTS c1, c2, e1

TheItemNames == {<<"m">>, <<"p">>}
TheDefault == <<"%", "p", "%", "m">>

(* Every pattern of at most five characters: '-' is no letter, 'x' no name. *)
AllPatterns == UNION {[1..n -> {"%", "{", "}", "m", "x", "-"}] : n \in 1..5}

Good == <<"%", "m">>
Bad == <<"%", "m", "{">>
ThePatterns == [none |-> {}, few |-> {Good, Bad}, all |-> AllPatterns]

App(type, f, formatter) == [type |-> type, file |-> f, formatter |-> formatter, level |-> 4]
Entry(name, level, formatter, appenders) ==
    [name |-> name, level |-> level, formatter |-> formatter, appenders |-> appenders]

(* Texts of "logs". *)
Quiet1 == <<Entry("app", 4, Good, <<App("file", "x", <<>>), App("stdout", None, TheDefault)>>)>>
Loud == <<Entry("app", 2, Good, <<App("file", "y", Bad), App("file", None, <<>>)>>),
          Entry("root", 2, Bad, <<App("file", "x", <<>>), App("pipe", "x", <<>>)>>),
          Entry("app", 5, <<>>, <<>>)>>
Nameless == <<Entry("app", 1, <<>>, <<>>), Entry(None, 1, <<>>, <<>>)>>
Swapped == <<Entry("app", 4, Good, <<App("file", "z", <<>>)>>)>>
Bare == <<Entry("app", 2, <<>>, <<>>)>>
LogTexts == {Quiet1, Swapped, Loud, Bare, Nameless, <<>>}

Under(key, text) == [key |-> key, text |-> text]
Content(logs, timeout, ok) ==
    [ok |-> ok, root |-> <<Member("logs", logs), Under(<<"tcp">>, None), Member("timeout", timeout),
                           Under(<<"UPPER">>, None), Under(<<"UPPER", "logs">>, <<>>)>>]
TheFiles == {Content(Quiet1, 1, TRUE), Content(Loud, 2, TRUE), Content(<<>>, None, TRUE),
             Content(<<>>, 1, FALSE)}

Nothing == [k \in Keys |-> {}]
Logs(T) == [k \in Keys |-> IF k = "logs" THEN T ELSE {1, 2}]

Timeouts == [k \in Keys |-> IF k = "timeout" THEN {1, 3} ELSE {}]

Module(f, id, type, key) == [file |-> f, id |-> id, type |-> type, key |-> key]

(* Modules that differ, and two with one identity. *)
Two == {Module("x", "a", "MODULE", "timeout"), Module("y", "b", "ROCK", None)}
Upgrade == {Module("x", "a", "MODULE", "timeout"), Module("y", "a", "ROCK", None)}

Tokens == {Env!Option("c"), Env!Option("d"), Env!Word(<<"x">>), Env!Dash}
Daemon == <<Env!Option("d")>>

World(C, E, levels, files, w, T, n, known, M, P, argv) ==
    [callers |-> C, events |-> E, levels |-> levels, files |-> files, writes |-> w,
     texts |-> T, calls |-> n, known |-> known, modules |-> M, patterns |-> P, argv |-> argv]

(* A file is edited and loaded, with a variable that comes late, or one that is also
   set directly; loggers change while an event is written, with setFormatter and as
   a daemon; two threads change them; modules come and go; patterns; command
   lines. *)
TheWorlds ==
    {World({c1}, {}, {}, TheFiles, 3, Nothing, 3, {"logs"}, Two, "none", <<>>),
     World({c1}, {}, {}, TheFiles, 3, Nothing, 3, Keys, {}, "none", <<>>),
     World({c1}, {}, {}, TheFiles, 2, Timeouts, 3, Keys, {}, "none", <<>>),
     World({c1}, {e1}, {2, 4}, {}, 0, Logs(LogTexts), 3, Keys, {}, "none", <<>>),
     World({c1}, {}, {}, {}, 0, Logs(LogTexts), 4, Keys, {}, "few", Daemon),
     World({c1, c2}, {}, {}, {}, 0, Logs(LogTexts), 3, Keys, {}, "none", <<>>),
     World({c1}, {}, {}, {}, 0, Nothing, 5, {"logs"}, Upgrade, "none", <<>>),
     World({c1, c2}, {}, {}, {}, 0, Nothing, 4, {"logs"}, Two, "none", <<>>),
     World({}, {}, {}, {}, 0, Nothing, 1, Keys, {}, "all", <<>>)}
    \cup {World({}, {}, {}, {}, 0, Nothing, 0, Keys, {}, "none", argv) :
              argv \in UNION {[1..n -> Tokens] : n \in 0..5}}
=============================================================================
