-------------------------------- MODULE MCSh --------------------------------
(* Short lines of every kind, and longer ones that were chosen: see Sh.cfg. *)
EXTENDS Sh

Char == {"x", " ", "<", ">", "|", "&", ";", "(", ")"}

Texts(n) == UNION {[1 .. k -> Char] : k \in 0 .. n}
MCTails == Texts(3)

\* Each in a session of its own: all lines of at most one character, and those of
\* two that are, or begin, a command
Short == {<<s>> : s \in Texts(1) \cup {<<"x", "&">>, <<"x", ";">>, <<"x", "|">>, <<"|", "x">>,
                                      <<"(", "x">>, <<"x", "<">>, <<"x", ">">>}}

\* Pipelines, blocks and redirections
Long == {<< <<"x", "|", "x", "|", "x">> >>,
         << <<"(", "x", ";", "x", ")", "|", "x">> >>,
         << <<"x", "|", "(", "x", "&", ")">> >>,
         << <<"(", "x", "&", ")", "|", "x">> >>,
         << <<"x", "<", "x", ">", "x", "|", "x", ">", ">", "x">> >>,
         << <<"(", "x", "|", "x", ")", "<", "x", ">", "x", ">", ">", "x">> >>,
         << <<"x", "x", " ", "x", " ", "x">> >>}

\* More than one line: something still runs while the next one is typed
Several == {<< <<"x", "&">>, <<"x", "|", "x">> >>,
            << <<"x", "|", "x", "&">>, <<"cd">>, <<"x">> >>}

MCSessions == Short \cup Long \cup Several
=============================================================================
