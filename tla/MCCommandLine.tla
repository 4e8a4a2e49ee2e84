--------------------------- MODULE MCCommandLine ---------------------------
(***************************************************************************)
(* Values for TLC: all command lines of up to three arguments that contain *)
(* groups, repetitions, words on both sides of options and of "--".        *)
(***************************************************************************)
EXTENDS CommandLine

Arg(kind)      == [kind |-> kind, letters |-> <<>>]
Group(letters) == [kind |-> "options", letters |-> letters]

MC_Names == {Arg("word"), Arg("dash")}
MC_Args  == {Arg("word"), Arg("empty"), Arg("dash"), Arg("end"),
             Group(<<"f", "p">>), Group(<<"d">>), Group(<<"D", "h">>),
             Group(<<"c", "s">>), Group(<<"s", "V">>), Group(<<"p", "?">>),
             Group(<<"v">>)}

MC_CommandLines ==
  {<<name>> \o args : name \in MC_Names,
                      args \in UNION {[1 .. n -> MC_Args] : n \in 0 .. 3}}

\* Started the ordinary way, by its name.
MC_Ordinary == {<<Arg("word")>> \o args : args \in [1 .. 2 -> MC_Args]}
=============================================================================
