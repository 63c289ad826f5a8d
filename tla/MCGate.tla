-------------------------------- MODULE MCGate --------------------------------
(***************************************************************************)
(* Small instance of Gate for TLC: a workspace with a file, a directory, a *)
(* blocked name, a pipe and links to each of them and out of it; texts     *)
(* with the secret or the injection at either end, cut out or alone.       *)
(***************************************************************************)
EXTENDS Gate

Work == <<"home", "w">>
In(names) == Work \o names

NodeKinds ==
    [p \in {<< >>, <<"home">>, Work, In(<<"d">>), <<"x">>} |-> "dir"]
    @@ [p \in {In(<<"f">>), In(<<"d", "f">>), In(<<"env">>), <<"x", "f">>}
            |-> "file"]
    @@ (In(<<"p">>) :> "other")

LinkTargets ==
    (In(<<"l">>) :> In(<<"f">>)) @@ (In(<<"le">>) :> In(<<"env">>))
    @@ (In(<<"lo">>) :> <<"x">>) @@ (In(<<"d", "up">>) :> Work)

WorkDir == In(<<"d">>)

OmittedNotice == <<"cut">>
MarkerNotice == <<"...">>
HeaderText == <<"untrusted">>
FooterText == <<"---">>

Relative(names) == [absolute |-> FALSE, names |-> names]
Absolute(names) == [absolute |-> TRUE, names |-> names]

Plain == Relative(<<"f">>)

Spellings ==
    {Relative(n) : n \in
        {<<"f">>, <<"d">>, <<"d", "f">>, <<"env">>, <<"p">>, <<"none">>,
         <<"l">>, <<"le">>, <<"lo", "f">>, <<"lo", "..", "home", "w", "f">>,
         <<"d", "..", "f">>, <<"d", "up", "f">>, <<"..", "..", "x", "f">>,
         <<"env", "..", "f">>, <<"f", "..", "f">>}}
    \cup {Absolute(In(<<"f">>)), Absolute(<<"x", "f">>),
          Absolute(In(<<"env">>)), Absolute(In(<<"lo", "..", "home", "w">>))}

Commands(cmds, actions, paths, jsons) ==
    [cmd : cmds, action : actions, pia : {"Warn", "Block"}, max : {2, 9},
     keep : BOOLEAN, json : jsons, path : paths]

RequestSet ==
    Commands({"cat", "grep"}, {"Block", "Allow"}, Spellings, {FALSE})
    \cup Commands({"cat"}, {"Redact"}, {Plain, Relative(<<"env">>)}, {FALSE})
    \cup Commands({"run"}, {"Block"},
                  {Plain, Relative(<<"env">>), Relative(<<"..", "le">>),
                   Absolute(In(<<"f">>))}, BOOLEAN)

QuestionSet ==
    [cmd : {"retrieve"}, pia : {"Warn", "Block"}, max : {1, 4, 6, 12},
     stream : 1..2]
    \cup [cmd : {"search"}, pia : {"Warn", "Block"}, max : {1, 4, 6, 12},
          stream : 1..2, literal : {"b", "inj"}]
    \cup [cmd : {"report", "store"}, pia : {"Block"}]

TextSet ==
    {<< >>, <<"a">>, <<"key", "a">>, <<"inj">>, <<"home", "crlf">>,
     <<"a", "inj", "a">>, <<"inj", "a", "a">>, <<"a", "a", "b", "key">>,
     <<"a", "a", "a", "a", "b", "a", "a", "a">>,
     <<"home", "a", "inj", "a", "a">>, <<"b", "home", "a", "a", "a", "inj">>}

ErrTextSet == {<< >>, <<"key">>, <<"inj">>, <<"a", "inj", "home">>}

NameSet == {<<"a">>, <<"key", "inj", "home">>}
===============================================================================
