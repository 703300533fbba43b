---------------------------- MODULE CliDefinition ---------------------------
(***************************************************************************)
(* CLI11: what a program has defined: its apps, each a command with its    *)
(* options and subcommands.  A subcommand without a name is a group of     *)
(* options of its parent.                                                  *)
(***************************************************************************)
EXTENDS CliOption

NoApp == "no app"
NoOption == "no option"

(* option_defaults: what an app makes of its new options.                  *)
OptionDefaults ==
  [ required |-> FALSE, ignore_case |-> FALSE, ignore_underscore |-> FALSE,
    configurable |-> TRUE, disable_flag_override |-> FALSE, delimiter |-> "",
    policy |-> "Throw" ]

DefaultApp ==
  [ name |-> Empty, aliases |-> <<>>, parent |-> NoApp, subs |-> <<>>, options |-> <<>>,
    help |-> NoOption, help_all |-> NoOption, version |-> NoOption, config |-> NoOption,
    defaults |-> OptionDefaults,
    allow_extras |-> FALSE, allow_config_extras |-> "ignore", prefix_command |-> FALSE,
    required |-> FALSE, disabled |-> FALSE, startup |-> "stable",
    enables |-> {}, disables |-> {}, immediate_callback |-> FALSE,
    pre_parse |-> FALSE, parse_complete |-> FALSE, final |-> FALSE,
    exclude_subs |-> {}, exclude_options |-> {}, need_subs |-> {}, need_options |-> {},
    ignore_case |-> FALSE, ignore_underscore |-> FALSE, fallthrough |-> FALSE,
    windows_style |-> FALSE, positionals_at_end |-> FALSE, configurable |-> FALSE,
    validate_positionals |-> FALSE, validate_optional_arguments |-> FALSE, silent |-> FALSE,
    min_subs |-> 0, max_subs |-> 0, min_options |-> 0, max_options |-> 0 ]

(* App::check_name.  An app that ignores both the case and underscores     *)
(* compares its own name with the underscores in.                          *)
answers_to(app, name) ==
  LET sought == Folded(name, app.ignore_case, app.ignore_underscore)
      own == Folded(app.name, app.ignore_case, app.ignore_underscore /\ ~app.ignore_case)
  IN  \/ own = sought
      \/ find_member(name, app.aliases, app.ignore_case, app.ignore_underscore) > 0

(* No app is below itself.                                                 *)
NoCycle(d) ==
  \A S \in SUBSET DOMAIN d.apps :
    S # {} => \E a \in S : Range(d.apps[a].subs) \cap S = {}

valid_first_char(symbol) == symbol \notin {"-", "!", " ", "\n"}
valid_later_char(symbol) == symbol \notin {"=", ":", "{", " ", "\n"}
valid_name_string(str) ==
  str # Empty /\ valid_first_char(str[1]) /\ \A i \in 2 .. Len(str) : valid_later_char(str[i])
=============================================================================
