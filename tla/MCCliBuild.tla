----------------------------- MODULE MCCliBuild -----------------------------
(***************************************************************************)
(* Programs that define options, subcommands and the sizes of an option:   *)
(* what they start from and the calls they go on with.                     *)
(***************************************************************************)
EXTENDS CliBuild

MCLower(symbol) ==
  CASE symbol = "A" -> "a" [] symbol = "FOO" -> "foo" [] symbol = "DO" -> "do"
    [] OTHER -> symbol
MCPlain(symbol) == IF symbol = "fo_o" THEN "foo" ELSE IF symbol = "d_o" THEN "do" ELSE symbol

a == <<"-", "a">>
A == <<"-", "A">>
foo == <<"-", "-", "foo">>
FOO == <<"-", "-", "FOO">>
fo_o == <<"-", "-", "fo_o">>

MCOptionNames == { <<A>>, <<fo_o, <<"place">>>>, <<<<"-", "-", "=">>>> }
MCFlagNames == { <<foo \o <<"{", "7", "}">>, a>>, << <<"!">> \o FOO>>, <<<<"place">>>> }
MCCommandNames == { <<"DO">>, <<"d_o">>, <<"=">> }

(* App(): with a help flag.                                                *)
Main == set_flag([ apps |-> Root :> [DefaultApp EXCEPT !.name = <<"main">>],
                   options |-> <<>>, home |-> <<>> ], Root, "help", HelpNames).cli

WithOptions == add_subcommand(add_option(add_option(Main, Root, <<foo>>).cli, Root, <<a>>).cli,
                              Root, Empty).cli

WithCommands ==
  LET one == add_subcommand(Main, Root, <<"do">>).cli
      two == add_subcommand(one, Root, Empty).cli
  IN  add_subcommand(two, Last(two.apps[Root].subs), <<"go">>).cli

MCPrograms ==
  LET options == {"add_option", "add_flag", "remove_option", "retire_option", "move_option"}
      commands == {"add_subcommand", "add_group", "remove_subcommand", "name", "alias",
                   "app_ignores", "disabled", "move_subcommand"}
      others == {"app_link", "app_unlink", "trigger", "callback", "remove_subcommand",
                 "move_subcommand"}
  IN  { [start |-> WithOptions, calls |-> options \cup {"set_flag", "set_config"}],
        [start |-> WithOptions,
         calls |-> options \cup {"option_ignores", "defaults", "link", "unlink"}],
        [start |-> WithCommands, calls |-> commands],
        [start |-> WithCommands, calls |-> others],
        [start |-> add_option(Main, Root, <<foo>>).cli, calls |-> {"size"}] }

MCAppIds == {ToString(i) : i \in 1 .. 8}
MCOptionIds == {ToString(i) : i \in 1 .. 16}
MCRangeArguments == {<<0, 1>>, <<2, 1>>, <<1, -1>>, <<-2, 3>>}
=============================================================================
