----------------------------- MODULE MCSession -----------------------------
(***************************************************************************)
(* Command lines, configuration files and input for Session.               *)
(***************************************************************************)
EXTENDS Session

MCCmdLines == {{}, {"svcname"}, {"confpath"}, {"confpath", "svcname", "maxpool"}}
MCFiles    == {{}, {"svcname", "dbpath"}}

\* Lines of every kind: complete, without or with too many arguments, tabs
\* and continuations, a stray backslash before and after the command, one as
\* long as the buffer, one longer, and no newline at the end
MCLines ==
    {<<"i", " ", "x", "\n">>, <<"I", "\t", "x", "\\", "\n", "y", "\n">>, <<"i", "\n">>,
     <<"q", " ", "x", " ", "y", "\n">>, <<"d", " ", "x", "\\", "y", "i", " ", "z", "\n">>,
     <<"\\", "\\", "\n">>, <<"c", " ", "h", " ", "p", "\n">>, <<"c", " ", "h", " ", "o", "\n">>,
     <<"c", " ", "h", "\n">>, <<"i", " ", "x", "x", "x", "x", "\n">>,
     <<"i", " ", "x", "x", "x", "x", "x", "i", " ", "y", "\n">>, <<"x", " ", "\n">>, <<"i", " ", "x">>}
MCChars  == {"i", "I", "q", "d", "c", "x", "y", "z", "h", "p", "o", " ", "\t", "\\", "\n", "EOF"}
MCInputs == MCLines \cup {a \o <<"c", " ", "h", " ", "p", "\n">> : a \in MCLines}
MCTails  == {<<>>, <<" ">>}
=============================================================================
