---------------------------- MODULE MCCliParse -----------------------------
(***************************************************************************)
(* Command lines of CLI11 for TLC: that of mcarve, and small ones each     *)
(* with the features of the parser that depend on one another.             *)
(***************************************************************************)
EXTENDS CliParse

MCLower(symbol) == IF symbol = "V" THEN "v" ELSE symbol
MCPlain(symbol) == symbol

Named(short, long) == [DefaultOption EXCEPT !.snames = short, !.lnames = long]
HelpFlag == [Flag(Named(<< <<"h">> >>, << <<"help">> >>)) EXCEPT !.configurable = FALSE]
Sub(name, parent, opts) ==
  [DefaultApp EXCEPT !.name = name, !.parent = parent, !.options = opts]

(* The strings a user may type.                                            *)
HELP == <<"-", "h">>
DASHES == <<"-", "-">>
PLUS == <<"+", "+">>
IMAGE == <<"image">>
ABSENT == <<"absent">>
X == <<"x">>
Y == <<"y">>

(***************************************************************************)
(* mcarve: --file is required, and may be given by its place; the file     *)
(* must exist.                                                             *)
(***************************************************************************)
Existing == [index |-> -1, rejects |-> {ABSENT, X}, becomes |-> <<>>]

McarveCli ==
  [ root |-> "main",
    apps |-> "main" :> [Sub(<<"mcarve">>, NoApp, <<"help", "file", "start", "verbose">>)
                          EXCEPT !.help = "help"],
    options |-> "help" :> HelpFlag
      @@ "file" :> [Named(<< <<"f">> >>, << <<"file">> >>)
                      EXCEPT !.pname = <<"file">>, !.required = TRUE, !.validators = <<Existing>>]
      @@ "start" :> Named(<<>>, << <<"start">> >>)
      @@ "verbose" :> [Flag(Named(<< <<"v">> >>, << <<"verbose">> >>))
                         EXCEPT !.unconvertible = {X}] ]

McarveWords ==
  { HELP, DASHES, IMAGE, ABSENT, <<"-", "f">>, <<"-", "f", "image">>, <<"-", "-", "start">>,
    <<"-", "-", "start", "=", "x">>, <<"-", "-", "verbose", "=", "x">>, <<"-", "v", "f">> }

(***************************************************************************)
(* A level from the line, a configuration file or the environment; each    *)
(* value is turned into another one.  Two subcommands, one of them with a  *)
(* list of items, the other passing on what it does not know.              *)
(***************************************************************************)
Turning == [index |-> -1, rejects |-> {}, becomes |-> X :> Y @@ Y :> <<"z">>]

ConfigCli ==
  [ root |-> "main",
    apps |-> "main" :> [Sub(<<"main">>, NoApp, <<"help", "config", "level">>)
                          EXCEPT !.help = "help", !.config = "config", !.subs = <<"add", "rm">>,
                                 !.final = TRUE, !.allow_config_extras = "error", !.max_subs = 1]
      @@ "add" :> [Sub(<<"add">>, "main", <<"items", "num">>)
                     EXCEPT !.configurable = TRUE, !.final = TRUE, !.exclude_subs = {"rm"},
                            !.allow_config_extras = "capture"]
      @@ "rm" :> [Sub(<<"rm">>, "main", <<"what">>)
                    EXCEPT !.fallthrough = TRUE, !.final = TRUE, !.need_options = {"level"},
                           !.aliases = << <<"del">> >>],
    options |-> "help" :> HelpFlag
      @@ "config" :> [Named(<< <<"c">> >>, <<>>) EXCEPT !.configurable = FALSE,
                                                        !.default_str = <<"default">>]
      @@ "level" :> [Named(<< <<"l">> >>, << <<"level">> >>)
                       EXCEPT !.envname = <<"LEVEL">>, !.validators = <<Turning>>]
      @@ "items" :> [DefaultOption EXCEPT !.pname = <<"items">>, !.policy = "TakeAll",
                       !.exp_max = expected_max_vector_size, !.allow_extra_args = TRUE]
      @@ "num" :> [Named(<< <<"n">> >>, <<>>) EXCEPT !.unconvertible = {X}, !.policy = "TakeLast"]
      @@ "what" :> [DefaultOption EXCEPT !.pname = <<"what">>, !.required = TRUE] ]

ConfigWords ==
  {HELP, <<"-", "c">>, <<"file">>, <<"-", "-", "level", "=", "x">>, <<"add">>, <<"del">>,
   <<"-", "n">>, <<"1">>}

Item(parents, name, inputs) == [parents |-> parents, name |-> name, inputs |-> inputs]
ConfigFiles ==
  { <<>>,
    <<"default">> :> <<Item(<<>>, <<"level">>, << <<"file level">> >>)>>
      @@ <<"file">> :> << Item(<< <<"add">> >>, PLUS, <<>>),
                          Item(<< <<"add">> >>, <<"n">>, << <<"2">> >>),
                          Item(<< <<"add">> >>, <<"items">>, << X, Y >>),
                          Item(<< <<"add">> >>, DASHES, <<>>) >>,
    <<"file">> :> << Item(<< <<"rm">> >>, PLUS, <<>>),
                     Item(<< <<"add">> >>, <<"unknown">>, << Y >>),
                     Item(<< <<"add">> >>, <<"n">>, << X >>) >> }

(***************************************************************************)
(* Groups of options: of a and b one or the other; -d needs -a; the group  *)
(* extra keeps what is left over.                                          *)
(***************************************************************************)
GroupsCli ==
  [ root |-> "main",
    apps |-> "main" :> [Sub(<<"main">>, NoApp, <<"help", "d", "name">>)
                          EXCEPT !.help = "help", !.subs = <<"one", "off">>, !.final = TRUE]
      @@ "one" :> [Sub(Empty, "main", <<"a", "b", "p">>)
                     EXCEPT !.min_options = 1, !.max_options = 2, !.subs = <<"go">>,
                            !.disables = {"off"}, !.pre_parse = TRUE, !.final = TRUE,
                            !.parse_complete = FALSE]
      @@ "off" :> [Sub(Empty, "main", <<"e">>) EXCEPT !.startup = "enabled", !.required = TRUE]
      @@ "go" :> [Sub(<<"go">>, "one", <<>>) EXCEPT !.final = TRUE, !.fallthrough = TRUE],
    options |-> "help" :> HelpFlag
      @@ "d" :> [Flag(Named(<< <<"d">> >>, <<>>)) EXCEPT !.needs = {"a"}]
      @@ "a" :> [Flag(Named(<< <<"a">> >>, <<>>)) EXCEPT !.excludes = {"b"}, !.policy = "Sum"]
      @@ "b" :> [Named(<< <<"b">> >>, <<>>) EXCEPT !.excludes = {"a"}]
      @@ "e" :> Flag(Named(<< <<"e">> >>, <<>>))
      @@ "p" :> [DefaultOption EXCEPT !.pname = <<"p">>]
      @@ "name" :> [DefaultOption EXCEPT !.pname = <<"name">>] ]

GroupsWords == {HELP, <<"-", "d">>, <<"-", "a">>, <<"-", "b", "x">>, <<"-", "e">>, X, <<"go">>,
                <<"-", "-", "unknown">>}

(***************************************************************************)
(* A command that is carried out at once, and may be used again.           *)
(***************************************************************************)
ImmediateCli ==
  [ root |-> "main",
    apps |-> "main" :> [Sub(<<"main">>, NoApp, <<"help">>)
                          EXCEPT !.help = "help", !.subs = <<"do", "group">>, !.min_subs = 1]
      @@ "group" :> [Sub(Empty, "main", <<"g">>) EXCEPT !.parse_complete = TRUE, !.final = TRUE]
      @@ "do" :> [Sub(<<"do">>, "main", <<"q", "r", "env">>)
                    EXCEPT !.immediate_callback = TRUE, !.parse_complete = TRUE, !.pre_parse = TRUE,
                           !.allow_extras = TRUE, !.final = TRUE],
    options |-> "help" :> HelpFlag
      @@ "q" :> [Named(<< <<"q">> >>, <<>>) EXCEPT !.trigger_on_parse = TRUE,
                                                   !.validators = <<Turning>>]
      @@ "r" :> [DefaultOption EXCEPT !.pname = <<"r">>, !.required = TRUE,
                                      !.trigger_on_parse = TRUE]
      @@ "g" :> Flag(Named(<< <<"g">> >>, <<>>))
      @@ "env" :> [Named(<< <<"n">> >>, <<>>) EXCEPT !.envname = <<"LEVEL">>] ]

ImmediateWords == {<<"do">>, <<"-", "g">>, <<"-", "q">>, X, <<"-", "n", "x">>, PLUS, HELP, DASHES}

(***************************************************************************)
(* Values in pairs and lists, optional ones and ones by default; Windows   *)
(* style; positionals at the end and checked; the rest for another command.*)
(***************************************************************************)
ValuesCli ==
  [ root |-> "main",
    apps |-> "main" :> [Sub(<<"main">>, NoApp, <<"pair", "opt", "list", "any", "flag">>)
                          EXCEPT !.windows_style = TRUE, !.validate_optional_arguments = TRUE,
                                 !.allow_extras = TRUE],
    options |-> "pair" :> [Named(<< <<"p">> >>, <<>>)
                             EXCEPT !.type_min = 2, !.type_max = 2, !.policy = "TakeLast",
                                    !.validators = <<[Turning EXCEPT !.index = 1]>>]
      @@ "opt" :> [Named(<< <<"o">> >>, <<>>) EXCEPT !.exp_min = 0, !.default_str = <<"dflt">>]
      @@ "list" :> [Named(<< <<"l">> >>, << <<"list">> >>)
                      EXCEPT !.exp_max = expected_max_vector_size, !.allow_extra_args = TRUE,
                             !.inject_separator = TRUE, !.policy = "TakeAll", !.delimiter = ";",
                             !.validators = <<[Turning EXCEPT !.rejects = {<<"1">>}]>>]
      @@ "any" :> [Named(<< <<"y">> >>, <<>>)
                     EXCEPT !.type_min = 1, !.type_max = 2, !.policy = "Join", !.force_callback = TRUE,
                            !.default_str = <<"dflt">>]
      @@ "flag" :> [Flag(Named(<< <<"k">> >>, << <<"no">> >>))
                      EXCEPT !.policy = "Sum", !.fnames = << <<"no">> >>,
                             !.flag_values = << <<"false">> >>, !.disable_flag_override = TRUE] ]

ValuesWords ==
  {<<"-", "p">>, <<"-", "o">>, <<"-", "-", "list">>, <<"[", "x", ",", "y", "]">>, <<"x", ";", "y">>,
   <<"/", "y", ":", "x">>, X, <<"-", "1">>, <<"-", "k">>, <<"-", "-", "no">>,
   <<"-", "-", "no", "=", "true">>, DASHES}

EndCli ==
  [ root |-> "main",
    apps |-> "main" :> [Sub(<<"main">>, NoApp, <<"v", "first", "last">>)
                          EXCEPT !.positionals_at_end = TRUE, !.subs = <<"run">>, !.max_subs = 1,
                                 !.validate_positionals = TRUE]
      @@ "run" :> [Sub(<<"run">>, "main", <<>>) EXCEPT !.prefix_command = TRUE],
    options |-> "v" :> [Named(<< <<"v">> >>, <<>>) EXCEPT !.exp_max = expected_max_vector_size,
                                                         !.policy = "TakeAll"]
      @@ "first" :> [DefaultOption EXCEPT !.pname = <<"first">>, !.validators = <<Existing>>]
      @@ "last" :> [DefaultOption EXCEPT !.pname = <<"last">>, !.required = TRUE] ]

EndWords == {<<"-", "v">>, X, IMAGE, <<"run">>, <<"-", "-", "unknown">>, DASHES}
-----------------------------------------------------------------------------
MCInterfaces ==
  LET small == [groups |-> GroupsCli, immediate |-> ImmediateCli, end |-> EndCli]
  IN  small @@ [mcarve |-> McarveCli, config |-> ConfigCli, values |-> ValuesCli]

Input(line, files, env) == [line |-> line, files |-> files, env |-> env]
Lines(words, length) == UNION {[1 .. n -> words] : n \in 0 .. length}
Environments == {<<>>, <<"LEVEL">> :> <<"env level">>}

MCInputs(interface) ==
  CASE interface = "mcarve"    -> {Input(line, <<>>, <<>>) : line \in Lines(McarveWords, 3)}
    [] interface = "config"    -> {Input(line, files, env) : line \in Lines(ConfigWords, 3),
                                      files \in ConfigFiles, env \in Environments}
    [] interface = "groups"    -> {Input(line, <<>>, <<>>) : line \in Lines(GroupsWords, 3)}
    [] interface = "immediate" -> {Input(line, <<>>, env) : line \in Lines(ImmediateWords, 4),
                                      env \in Environments}
    [] interface = "values"    -> {Input(line, <<>>, <<>>) : line \in Lines(ValuesWords, 3)}
    [] interface = "end"       -> {Input(line, <<>>, <<>>) : line \in Lines(EndWords, 4)}

(***************************************************************************)
(* A group of options, and an argument that is an empty string.            *)
(***************************************************************************)
OptionGroupCli ==
  [ root |-> "main",
    apps |-> "main" :> [Sub(<<"main">>, NoApp, <<>>) EXCEPT !.subs = <<"group">>]
      @@ "group" :> Sub(Empty, "main", <<"a">>),
    options |-> "a" :> Flag(Named(<< <<"a">> >>, <<>>)) ]

MCOptionGroup == LET interface == OptionGroupCli IN [option_group |-> interface]
MCOptionGroupScripts(interface) ==
  {<<Input(line, <<>>, <<>>)>> : line \in Lines({Empty, <<"-", "a">>, <<"-", "-", "unknown">>}, 2)}

MCScripts(interface) == {<<in, in>> : in \in MCInputs(interface)}
=============================================================================
