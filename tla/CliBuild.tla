------------------------------ MODULE CliBuild ------------------------------
(***************************************************************************)
(* CLI11: how a program defines its apps and options.  Every call takes    *)
(* the definition so far and returns another one, or throws; a call may    *)
(* throw in the middle of what it does.  What has been removed keeps its   *)
(* identity, as a pointer to it does.                                      *)
(***************************************************************************)
EXTENDS CliDefinition, FiniteSetsExt

CONSTANTS
  AppIds, OptionIds,    \* the identities of apps and options
  Root,           \* the app that is no subcommand
  Programs,       \* what a program has defined, and the calls with which it goes on
  OptionNames, FlagNames, CommandNames,
  SizeArguments, RangeArguments,
  MaxCalls        \* bound: the number of calls

VARIABLES
  program,        \* the calls that it makes
  cli,            \* the definition: its apps, its options, and the app in
                  \* which each option was made (Option::parent_)
  call, thrown,   \* the last call, and what it threw
  calls           \* the number of calls so far

vars == <<program, cli, call, thrown, calls>>

ASSUME IdsAssumption ==
  /\ IsFiniteSet(AppIds) /\ Root \in AppIds /\ NoApp \notin AppIds
  /\ IsFiniteSet(OptionIds) /\ NoOption \notin OptionIds

Returns(d) == [cli |-> d, thrown |-> "none"]
Throws(d, e) == [cli |-> d, thrown |-> e]
Chain(out, Step(_)) == IF out.thrown = "none" THEN Step(out.cli) ELSE out

Unused(ids, things) == CHOOSE id \in ids : id \notin DOMAIN things
Extend(things, id, thing) == [x \in DOMAIN things \cup {id} |-> IF x = id THEN thing ELSE things[x]]

IsGroup(d, a) == d.apps[a].name = Empty
OwnOptions(d, a) == Range(d.apps[a].options)
Newest(d, a) == Last(d.apps[a].options)

Below(d, a) ==
  LET Under[b \in DOMAIN d.apps] == {b} \cup UNION {Under[sub] : sub \in Range(d.apps[b].subs)}
  IN  Under[a]
Apps(d) == Below(d, Root)
Options(d) == UNION {OwnOptions(d, a) : a \in Apps(d)}
-----------------------------------------------------------------------------
(***************************************************************************)
(* Names: of an option "-s", "--long" or, for its place, "name"; a flag    *)
(* may have a value of its own, "--long{value}", or be negative, "!--long". *)
(***************************************************************************)
IsShort(n) == Len(n) > 1 /\ n[1] = "-" /\ n[2] # "-"
IsLong(n) == Len(n) > 2 /\ n[1] = "-" /\ n[2] = "-"
OnlyDashes == {<<"-">>, <<"-", "-">>}
IsPlace(n) == n \notin OnlyDashes \cup {Empty} /\ ~IsShort(n) /\ ~IsLong(n)

BadNames(names) ==
  \/ \E i \in DOMAIN names :
       LET n == names[i] IN
       \/ n \in OnlyDashes
       \/ IsShort(n) /\ (Len(n) > 2 \/ ~valid_first_char(n[2]))
       \/ IsLong(n) /\ ~valid_name_string(SubSeq(n, 3, Len(n)))
  \/ Len(SelectSeq(names, IsPlace)) > 1

get_names(names) ==
  LET shorts == SelectSeq(names, IsShort)
      longs == SelectSeq(names, IsLong)
      places == SelectSeq(names, IsPlace)
  IN  [DefaultOption EXCEPT
         !.snames = [i \in DOMAIN shorts |-> Tail(shorts[i])],
         !.lnames = [i \in DOMAIN longs |-> SubSeq(longs[i], 3, Len(longs[i]))],
         !.pname  = IF places = <<>> THEN Empty ELSE Head(places)]

has_default_flag_values(n) == Contains(n, "{") \/ Contains(n, "!")
BeforeBrace(n) == IF Contains(n, "{") THEN SubSeq(n, 1, SelectInSeq(n, LAMBDA c : c = "{") - 1)
                                      ELSE n
remove_default_flag_values(n) == SelectSeq(BeforeBrace(n), LAMBDA c : c # "!")
FlagName(n) == SelectSeq(BeforeBrace(n), LAMBDA c : c \notin {"-", "!"})
OwnValue(n) == IF Contains(n, "{") THEN SubSeq(n, Len(BeforeBrace(n)) + 2, Len(n) - 1) ELSE False

(* What get_name(false, true) says: the names with which an option like    *)
(* this one could be made, but a positional that has other names.          *)
get_name(opt) ==
  LET Said(dashes, n) ==
        IF items_expected_min(opt) = 0
             /\ find_member(n, opt.fnames, opt.ignore_case, opt.ignore_underscore) > 0
          THEN dashes \o n \o <<"{">> \o get_flag_value(opt, n, Empty).value \o <<"}">>
          ELSE dashes \o n
  IN  IF nonpositional(opt)
        THEN [i \in DOMAIN opt.snames |-> Said(<<"-">>, opt.snames[i])]
             \o [i \in DOMAIN opt.lnames |-> Said(<<"-", "-">>, opt.lnames[i])]
        ELSE <<opt.pname>>

Knows(opt, other) ==
  \/ \E i \in 1 .. Len(other.snames) : check_sname(opt, other.snames[i])
  \/ \E i \in 1 .. Len(other.lnames) : check_lname(opt, other.lnames[i])

(* Mutant: an option that ignores something is not asked itself.           *)
matching_name_one_way(opt, other) == Knows(other, opt)

matching_name(opt, other) ==
  Knows(other, opt) \/ ((opt.ignore_case \/ opt.ignore_underscore) /\ Knows(opt, other))

AlreadyIn(d, a, opt, but) ==
  \E o \in OwnOptions(d, a) \ but : matching_name(d.options[o], opt)
-----------------------------------------------------------------------------
(***************************************************************************)
(* Options.  Whether an option may begin to ignore something is found out  *)
(* among the options of the app in which it was made.                      *)
(***************************************************************************)
Set(d, o, opt) == [d EXCEPT !.options[o] = opt]

option_ignores(d, o, what, value) ==
  LET changed == [d.options[o] EXCEPT ![what] = value] IN
  IF value /\ ~d.options[o][what] /\ AlreadyIn(d, d.home[o], changed, {o})
    THEN Throws(d, "OptionAlreadyAdded")
    ELSE Returns(Set(d, o, changed))

copy_to(d, defaults, o) ==
  LET Rest(opt) ==
        multi_option_policy(
          [opt EXCEPT !.configurable = defaults.configurable, !.delimiter = defaults.delimiter,
                      !.disable_flag_override = defaults.disable_flag_override],
          defaults.policy)
  IN  Chain(option_ignores([d EXCEPT !.options[o].required = defaults.required],
                           o, "ignore_case", defaults.ignore_case),
            LAMBDA e : Chain(option_ignores(e, o, "ignore_underscore", defaults.ignore_underscore),
            LAMBDA f : Returns(Set(f, o, Rest(f.options[o])))))

Added(d, a, opt, o) ==
  [ apps |-> [d.apps EXCEPT ![a].options = Append(@, o)],
    options |-> Extend(d.options, o, opt),
    home |-> Extend(d.home, o, a) ]

add_option(d, a, names) ==
  LET o == Unused(OptionIds, d.options) IN
  IF BadNames(names) THEN Throws(d, "BadNameString")
  ELSE IF AlreadyIn(d, a, get_names(names), {}) THEN Throws(d, "OptionAlreadyAdded")
  ELSE copy_to(Added(d, a, get_names(names), o), d.apps[a].defaults, o)

Unlinked(opt, o) == [opt EXCEPT !.needs = @ \ {o}, !.excludes = @ \ {o}]

(* Mutant: the options excluded by the one removed still exclude it.       *)
remove_option_but_exclusions(d, a, o) ==
  [d EXCEPT
     !.apps[a].options = RemoveFirst(@, o),
     !.apps[a].help = IF @ = o THEN NoOption ELSE @,
     !.apps[a].help_all = IF @ = o THEN NoOption ELSE @,
     !.options = [p \in DOMAIN @ |->
        IF p \in OwnOptions(d, a) THEN [@[p] EXCEPT !.needs = @ \ {o}] ELSE @[p]]]

(* Mutant: the pointers to help flags stay.                                *)
remove_option_but_help(d, a, o) ==
  [d EXCEPT
     !.apps[a].options = RemoveFirst(@, o),
     !.options = [p \in DOMAIN @ |->
                    IF p \in OwnOptions(d, a) THEN Unlinked(@[p], o) ELSE @[p]]]

remove_option(d, a, o) ==
  [d EXCEPT
     !.apps[a].options = RemoveFirst(@, o),
     !.apps[a].help = IF @ = o THEN NoOption ELSE @,
     !.apps[a].help_all = IF @ = o THEN NoOption ELSE @,
     !.options = [p \in DOMAIN @ |->
                    IF p \in OwnOptions(d, a) THEN Unlinked(@[p], o) ELSE @[p]]]

add_flag(d, a, names) ==
  LET with == SelectSeq(names, has_default_flag_values)
      plain == [i \in DOMAIN names |-> remove_default_flag_values(names[i])]
      Made(e, o) ==
        IF get_positional(e.options[o])
          THEN Throws(remove_option(e, a, o), "IncorrectConstruction")
          ELSE Returns(Set(e, o, [Flag(e.options[o]) EXCEPT
                 !.fnames = [i \in DOMAIN with |-> FlagName(with[i])],
                 !.flag_values = [i \in DOMAIN with |-> OwnValue(with[i])]]))
  IN  Chain(add_option(d, a, plain), LAMBDA e : Made(e, Newest(e, a)))

(* set_help_flag, set_help_all_flag, set_version_flag and set_config: what *)
(* the app has of the kind goes before the new one comes.                  *)
Without(d, a, kind) ==
  IF d.apps[a][kind] = NoOption THEN d
  ELSE [remove_option(d, a, d.apps[a][kind]) EXCEPT !.apps[a][kind] = NoOption]

As(d, a, kind, o) ==
  LET opt == [d.options[o] EXCEPT !.configurable = FALSE,
                !.throws = IF kind = "version" THEN "CallForVersion" ELSE @]
  IN  Returns(Set([d EXCEPT !.apps[a][kind] = o], o, opt))

set_flag(d, a, kind, names) ==
  IF names = <<>> THEN Returns(Without(d, a, kind))
  ELSE Chain(add_flag(Without(d, a, kind), a, names), LAMBDA e : As(e, a, kind, Newest(e, a)))

set_config(d, a, names) ==
  IF names = <<>> THEN Returns(Without(d, a, "config"))
  ELSE Chain(add_option(Without(d, a, "config"), a, names),
             LAMBDA e : As(e, a, "config", Newest(e, a)))

(* A retired option takes what the old one took.  Its name is tried out in *)
(* an app of its own, which has a help flag.                               *)
HelpNames == << <<"-", "h">>, <<"-", "-", "help">> >>

retire_option(d, a, o) ==
  LET old == d.options[o]
      names == get_name(old)
      Ignored == [index |-> 0, rejects |-> {}, becomes |-> <<>>]
      Retired(opt) ==
        [expected_range(type_sizes(opt, old.type_min, old.type_max), old.exp_min, old.exp_max)
           EXCEPT !.allow_extra_args = old.allow_extra_args, !.default_str = <<"RETIRED">>,
                  !.validators = Append(@, Ignored)]
  IN  IF BadNames(names) THEN Throws(d, "BadNameString")
      ELSE IF matching_name(get_names(HelpNames), get_names(names))
        THEN Throws(d, "OptionAlreadyAdded")
      ELSE Chain(add_option(remove_option(d, a, o), a, names),
                 LAMBDA e : Returns(Set(e, Newest(e, a), Retired(e.options[Newest(e, a)]))))

excludes(d, o, p) ==
  IF o = p THEN Throws(d, "IncorrectConstruction")
  ELSE Returns([d EXCEPT !.options[o].excludes = @ \cup {p}, !.options[p].excludes = @ \cup {o}])
-----------------------------------------------------------------------------
(***************************************************************************)
(* Apps.  The subcommands of an app and of its groups are in one scope:    *)
(* in it no enabled subcommand answers to the name of another one.         *)
(***************************************************************************)
fallthrough_parent(d, a) ==
  LET Parent[b \in DOMAIN d.apps] ==
        LET p == d.apps[b].parent
        IN  IF IsGroup(d, p) /\ d.apps[p].parent # NoApp THEN Parent[p] ELSE p
  IN  Parent[a]

OneAnswersToTheOther(app, other) ==
  \/ app.name # Empty /\ answers_to(other, app.name)
  \/ other.name # Empty /\ answers_to(app, other.name)
  \/ \E i \in DOMAIN app.aliases : answers_to(other, app.aliases[i])
  \/ \E i \in DOMAIN other.aliases : answers_to(app, other.aliases[i])

(* Mutant: groups are not looked into.                                     *)
compare_outside_groups(d, sub, base) ==
  /\ ~d.apps[sub].disabled
  /\ \E other \in Range(d.apps[base].subs) \ {sub} :
       ~d.apps[other].disabled /\ OneAnswersToTheOther(d.apps[sub], d.apps[other])

_compare_subcommand_names(d, sub, base) ==
  LET Conflict[b \in DOMAIN d.apps, in \in DOMAIN d.apps] ==
        /\ ~d.apps[b].disabled
        /\ \E other \in Range(d.apps[in].subs) \ {b} :
             /\ ~d.apps[other].disabled
             /\ \/ OneAnswersToTheOther(d.apps[b], d.apps[other])
                \/ IsGroup(d, other) /\ Conflict[b, other]
                \/ IsGroup(d, b) /\ Conflict[other, b]
  IN  Conflict[sub, base]

(* The app is changed first, and changed back if that makes a conflict.    *)
Unless(d, a, changed) ==
  LET e == [d EXCEPT !.apps[a] = changed]
      base == IF d.apps[a].parent = NoApp THEN a ELSE fallthrough_parent(e, a)
  IN  IF _compare_subcommand_names(e, a, base) THEN Throws(d, "OptionAlreadyAdded") ELSE Returns(e)

set_name(d, a, n) ==
  LET named == [d.apps[a] EXCEPT !.name = n] IN
  IF d.apps[a].parent = NoApp THEN Returns([d EXCEPT !.apps[a] = named]) ELSE Unless(d, a, named)

(* Mutant: the alias that makes a conflict stays.                          *)
alias_kept(d, a, n) ==
  LET e == [d EXCEPT !.apps[a].aliases = Append(@, n)] IN
  IF n = Empty THEN Throws(d, "IncorrectConstruction")
  ELSE IF d.apps[a].parent = NoApp THEN Returns(e)
  ELSE [Unless(d, a, e.apps[a]) EXCEPT !.cli = e]

alias(d, a, n) ==
  LET aliased == [d.apps[a] EXCEPT !.aliases = Append(@, n)] IN
  IF n = Empty THEN Throws(d, "IncorrectConstruction")
  ELSE IF d.apps[a].parent = NoApp THEN Returns([d EXCEPT !.apps[a] = aliased])
  ELSE Unless(d, a, aliased)

app_ignores(d, a, what, value) ==
  LET changed == [d.apps[a] EXCEPT ![what] = value] IN
  IF value /\ ~d.apps[a][what] THEN Unless(d, a, changed)
                               ELSE Returns([d EXCEPT !.apps[a] = changed])

(* App::App: a subcommand has its parent's help flags, made anew, and ways. *)
Inherits(app, p) ==
  [app EXCEPT
     !.defaults = p.defaults, !.allow_extras = p.allow_extras,
     !.allow_config_extras = p.allow_config_extras, !.prefix_command = p.prefix_command,
     !.immediate_callback = p.immediate_callback, !.ignore_case = p.ignore_case,
     !.ignore_underscore = p.ignore_underscore, !.fallthrough = p.fallthrough,
     !.validate_positionals = p.validate_positionals,
     !.validate_optional_arguments = p.validate_optional_arguments,
     !.configurable = p.configurable, !.windows_style = p.windows_style,
     !.max_subs = p.max_subs]

NewApp(d, sub, n, parent) ==
  LET p == d.apps[parent]
      Flagged(e, kind) == IF p[kind] = NoOption THEN Returns(e)
                          ELSE set_flag(e, sub, kind, get_name(d.options[p[kind]]))
      bare == [DefaultApp EXCEPT !.name = n, !.parent = parent]
  IN  Chain(Flagged([d EXCEPT !.apps = Extend(@, sub, bare)], "help"),
            LAMBDA e : Chain(Flagged(e, "help_all"),
            LAMBDA f : Returns([f EXCEPT !.apps[sub] = Inherits(@, p)])))

attach(d, a, sub) ==
  LET base == IF IsGroup(d, a) /\ d.apps[a].parent # NoApp THEN fallthrough_parent(d, a) ELSE a IN
  IF _compare_subcommand_names(d, sub, base) THEN Throws(d, "OptionAlreadyAdded")
  ELSE Returns([d EXCEPT !.apps[sub].parent = a, !.apps[a].subs = Append(@, sub)])

(* A group of options is one without a name.                               *)
add_subcommand(d, a, n) ==
  LET sub == Unused(AppIds, d.apps) IN
  IF n # Empty /\ ~valid_name_string(n) THEN Throws(d, "IncorrectConstruction")
  ELSE Chain(NewApp(d, sub, n, a), LAMBDA e : attach(e, a, sub))

app_excludes(d, a, b) ==
  IF a = b THEN Throws(d, "OptionNotFound")
  ELSE IF b \in d.apps[a].exclude_subs THEN Returns(d)
  ELSE Returns([d EXCEPT !.apps[a].exclude_subs = @ \cup {b}, !.apps[b].exclude_subs = @ \cup {a}])

(* Mutant: only the one side is removed.                                   *)
app_remove_excludes_one_way(d, a, b) == [d EXCEPT !.apps[a].exclude_subs = @ \ {b}]

app_remove_excludes(d, a, b) ==
  [d EXCEPT !.apps[a].exclude_subs = @ \ {b},
            !.apps[b].exclude_subs = IF b \in d.apps[a].exclude_subs THEN @ \ {a} ELSE @]

Left(app, subs, excluded, needed) ==
  [app EXCEPT !.subs = subs, !.exclude_subs = @ \ excluded, !.need_subs = @ \ needed]

(* The subcommands beside the one removed lose their links to it, and it   *)
(* its own to those that exclude it.                                       *)
remove_subcommand(d, a, sub) ==
  LET beside == Range(d.apps[a].subs)
      excluding == {b \in beside : sub \in d.apps[b].exclude_subs}
      Excluded(b) == (IF b \in beside THEN {sub} ELSE {}) \cup (IF b = sub THEN excluding ELSE {})
      Needed(b) == IF b \in beside THEN {sub} ELSE {}
      Rest(b) == IF b = a THEN RemoveFirst(d.apps[b].subs, sub) ELSE d.apps[b].subs
  IN  [d EXCEPT !.apps = [b \in DOMAIN @ |-> Left(@[b], Rest(b), Excluded(b), Needed(b))]]

(* Mutant: the app that has the option keeps it.                           *)
move_option_and_keep(d, g, o) ==
  IF AlreadyIn(d, g, d.options[o], {}) THEN Throws(d, "OptionAlreadyAdded")
  ELSE Returns([d EXCEPT !.apps[g].options = Append(@, o)])

(* Option_group::add_option: the option goes to the group, but help flags  *)
(* and the configuration file stay.                                        *)
move_option(d, g, o) ==
  LET a == d.apps[g].parent IN
  IF o \in {d.apps[a].help, d.apps[a].help_all, d.apps[a].config}
    THEN Throws(d, "OptionAlreadyAdded")
  ELSE IF o \notin OwnOptions(d, a) THEN Throws(d, "OptionNotFound")
  ELSE IF AlreadyIn(d, g, d.options[o], {}) THEN Throws(d, "OptionAlreadyAdded")
  ELSE Returns([d EXCEPT !.apps[g].options = Append(@, o),
                         !.apps[a].options = RemoveFirst(@, o)])

(* Option_group::add_subcommand: it leaves the one before it is known      *)
(* whether there is a place for it in the other.                           *)
move_subcommand(d, g, sub) == attach(remove_subcommand(d, d.apps[sub].parent, sub), g, sub)

(* TriggerOn and TriggerOff take the place of the pre-parse callback.      *)
trigger(d, a, b, startup) ==
  [d EXCEPT !.apps[b].startup = startup,
            !.apps[a].pre_parse = FALSE,
            !.apps[a].enables = IF startup = "disabled" THEN {b} ELSE {},
            !.apps[a].disables = IF startup = "disabled" THEN {} ELSE {b}]

callback(app) == IF app.immediate_callback THEN [app EXCEPT !.parse_complete = TRUE]
                                           ELSE [app EXCEPT !.final = TRUE]

immediate_callback(app, immediate) ==
  IF immediate
    THEN [app EXCEPT !.immediate_callback = TRUE, !.parse_complete = @ \/ app.final,
                     !.final = app.final /\ app.parse_complete]
    ELSE [app EXCEPT !.immediate_callback = FALSE, !.final = @ \/ app.parse_complete,
                     !.parse_complete = app.final /\ app.parse_complete]
-----------------------------------------------------------------------------
(***************************************************************************)
(* A definition with which a program may start.  Its apps form a tree, or  *)
(* several when subcommands were removed; an app or an option is in one    *)
(* place at most.  The least sizes of an option are modest: their product  *)
(* is not more than what counts as unlimited.                              *)
(***************************************************************************)
Modest(n) == n \in Nat /\ n * n <= expected_max_vector_size

Sized(opt) ==
  /\ Modest(opt.type_min) /\ opt.type_max \in Nat /\ opt.type_min <= opt.type_max
  /\ Modest(opt.exp_min) /\ opt.exp_max \in Nat /\ opt.exp_min <= opt.exp_max

IsOption(opt, ids) ==
  /\ DOMAIN opt = DOMAIN DefaultOption
  /\ Sized(opt)
  /\ opt.needs \cup opt.excludes \subseteq ids

Shaped(d) ==
  /\ DOMAIN d = {"apps", "options", "home"}
  /\ DOMAIN d.apps \subseteq AppIds /\ Root \in DOMAIN d.apps
  /\ DOMAIN d.options \subseteq OptionIds
  /\ d.home \in [DOMAIN d.options -> DOMAIN d.apps]
  /\ \A a \in DOMAIN d.apps :
       /\ DOMAIN d.apps[a] = DOMAIN DefaultApp
       /\ d.apps[a].subs \in Seq(DOMAIN d.apps) /\ d.apps[a].options \in Seq(DOMAIN d.options)
       /\ d.apps[a].exclude_subs \subseteq DOMAIN d.apps
  /\ \A o \in DOMAIN d.options : IsOption(d.options[o], DOMAIN d.options)

Placed(d) ==
  /\ \A a \in DOMAIN d.apps : /\ IsInjective(d.apps[a].subs) /\ IsInjective(d.apps[a].options)
                             /\ \A sub \in Range(d.apps[a].subs) : d.apps[sub].parent = a
  /\ \A a, b \in DOMAIN d.apps : a # b => OwnOptions(d, a) \cap OwnOptions(d, b) = {}
  /\ d.apps[Root].parent = NoApp

HelpOwned(d, a) ==
  /\ {d.apps[a].help, d.apps[a].help_all} \ {NoOption} \subseteq OwnOptions(d, a)
  /\ d.apps[a].help # NoOption => d.apps[a].help # d.apps[a].help_all

Symmetric(d) ==
  \A a, b \in DOMAIN d.apps : b \in d.apps[a].exclude_subs => a \in d.apps[b].exclude_subs

WellFormed(d) ==
  /\ Shaped(d) /\ Placed(d) /\ NoCycle(d) /\ Symmetric(d)
  /\ \A a \in DOMAIN d.apps : HelpOwned(d, a)

(* A call makes one app and two options at most.                           *)
EnoughIds(d, n) ==
  /\ Cardinality(DOMAIN d.apps) + n <= Cardinality(AppIds)
  /\ Cardinality(DOMAIN d.options) + 2 * n <= Cardinality(OptionIds)

ASSUME ProgramsAssumption ==
  /\ MaxCalls \in Nat
  /\ \A p \in Programs : WellFormed(p.start) /\ EnoughIds(p.start, MaxCalls)

(* Nobody asks for as many values as the square root of what counts as     *)
(* unlimited, but for an unlimited number.                                 *)
ASSUME SizesAssumption ==
  /\ \A n \in SizeArguments :
       n \in Int /\ (n = expected_max_vector_size \/ Modest(Magnitude(n)))
  /\ \A range \in RangeArguments :
       range[1] \in Int /\ range[2] \in Int /\ Modest(Magnitude(range[1]))
-----------------------------------------------------------------------------
(***************************************************************************)
(* A program makes the calls it makes, on what it has defined.             *)
(***************************************************************************)
Makes(op, out) ==
  /\ op \in program
  /\ cli' = out.cli /\ thrown' = out.thrown
  /\ call' = op /\ calls' = calls + 1
  /\ UNCHANGED program

SetOption(op, o, opt) == Makes(op, Returns(Set(cli, o, opt)))
SetApp(op, a, app) == Makes(op, Returns([cli EXCEPT !.apps[a] = app]))

Ignorable == {"ignore_case", "ignore_underscore"}

AddOption == \E a \in Apps(cli), names \in OptionNames : 
  Makes("add_option", add_option(cli, a, names))
AddFlag == \E a \in Apps(cli), names \in FlagNames : Makes("add_flag", add_flag(cli, a, names))
RemoveOption == \E a \in Apps(cli) : \E o \in OwnOptions(cli, a) :
  Makes("remove_option", Returns(remove_option(cli, a, o)))
RetireOption == \E a \in Apps(cli) : \E o \in OwnOptions(cli, a) :
  Makes("retire_option", retire_option(cli, a, o))
SetFlag == \E a \in Apps(cli), kind \in {"help", "help_all", "version"},
              names \in FlagNames \cup {<<>>} :
  Makes("set_flag", set_flag(cli, a, kind, names))
SetConfig == \E a \in Apps(cli), names \in OptionNames \cup {<<>>} :
  Makes("set_config", set_config(cli, a, names))
OptionIgnores == \E o \in Options(cli), what \in Ignorable, value \in BOOLEAN :
  Makes("option_ignores", option_ignores(cli, o, what, value))
IgnoreByDefault == \E a \in Apps(cli), what \in Ignorable :
  SetApp("defaults", a, [cli.apps[a] EXCEPT !.defaults[what] = TRUE])
RequireByDefault == \E a \in Apps(cli) :
  SetApp("defaults", a, [cli.apps[a] EXCEPT !.defaults.required = TRUE,
                                            !.defaults.policy = "TakeAll"])

TypeSize == \E o \in Options(cli), size \in SizeArguments :
  SetOption("size", o, type_size(cli.options[o], size))
TypeSizes == \E o \in Options(cli), range \in RangeArguments :
  SetOption("size", o, type_sizes(cli.options[o], range[1], range[2]))
Expected == \E o \in Options(cli), value \in SizeArguments :
  SetOption("size", o, expected(cli.options[o], value))
ExpectedRange == \E o \in Options(cli), range \in RangeArguments :
  SetOption("size", o, expected_range(cli.options[o], range[1], range[2]))
Policy == \E o \in Options(cli), policy \in {"Throw", "TakeAll"} :
  SetOption("size", o, multi_option_policy(cli.options[o], policy))

Needs == \E o, p \in Options(cli) : o # p /\
  SetOption("link", o, [cli.options[o] EXCEPT !.needs = @ \cup {p}])
Excludes == \E o, p \in Options(cli) : Makes("link", excludes(cli, o, p))
RemoveNeeds == \E o \in Options(cli) : \E p \in cli.options[o].needs :
  SetOption("unlink", o, [cli.options[o] EXCEPT !.needs = @ \ {p}])
RemoveExcludes == \E o \in Options(cli) : \E p \in cli.options[o].excludes :
  SetOption("unlink", o, [cli.options[o] EXCEPT !.excludes = @ \ {p}])

AddSubcommand == \E a \in Apps(cli), n \in CommandNames :
  Makes("add_subcommand", add_subcommand(cli, a, n))
AddOptionGroup == \E a \in Apps(cli) : Makes("add_group", add_subcommand(cli, a, Empty))
RemoveSubcommand == \E a \in Apps(cli) : \E sub \in Range(cli.apps[a].subs) :
  Makes("remove_subcommand", Returns(remove_subcommand(cli, a, sub)))
Name == \E a \in Apps(cli), n \in CommandNames : Makes("name", set_name(cli, a, n))
Alias == \E a \in Apps(cli), n \in CommandNames : Makes("alias", alias(cli, a, n))
AppIgnores == \E a \in Apps(cli), what \in Ignorable, value \in BOOLEAN :
  Makes("app_ignores", app_ignores(cli, a, what, value))
Disabled == \E a \in Apps(cli), value \in BOOLEAN :
  SetApp("disabled", a, [cli.apps[a] EXCEPT !.disabled = value])

Groups == {g \in Apps(cli) \ {Root} : IsGroup(cli, g)}
MoveOption == \E g \in Groups, o \in Options(cli) : Makes("move_option", move_option(cli, g, o))
MoveSubcommand == \E g \in Groups : \E sub \in Apps(cli) \ {Root} :
  g \notin Below(cli, sub) /\ Makes("move_subcommand", move_subcommand(cli, g, sub))

AppExcludes == \E a, b \in Apps(cli) : Makes("app_link", app_excludes(cli, a, b))
AppRemoveExcludes == \E a \in Apps(cli) : \E b \in cli.apps[a].exclude_subs \cap Apps(cli) :
  Makes("app_unlink", Returns(app_remove_excludes(cli, a, b)))
AppNeeds == \E a, b \in Apps(cli) : a # b /\
  SetApp("app_link", a, [cli.apps[a] EXCEPT !.need_subs = @ \cup {b}])
Trigger == \E a, b \in Apps(cli), startup \in {"enabled", "disabled"} :
  Makes("trigger", Returns(trigger(cli, a, b, startup)))
Callback == \E a \in Apps(cli) : SetApp("callback", a, callback(cli.apps[a]))
ImmediateCallback == \E a \in Apps(cli), value \in BOOLEAN :
  SetApp("callback", a, immediate_callback(cli.apps[a], value))

Init ==
  /\ \E p \in Programs : program = p.calls /\ cli = p.start
  /\ call = "none" /\ thrown = "none" /\ calls = 0

ChangeOptions == AddOption \/ AddFlag \/ RemoveOption \/ RetireOption \/ SetFlag \/ SetConfig
                 \/ MoveOption

ChangeOption == OptionIgnores \/ IgnoreByDefault \/ RequireByDefault \/ TypeSize \/ TypeSizes
                \/ Expected \/ ExpectedRange \/ Policy \/ Needs \/ Excludes \/ RemoveNeeds
                \/ RemoveExcludes

ChangeApps == AddSubcommand \/ AddOptionGroup \/ RemoveSubcommand \/ MoveSubcommand

ChangeApp == Name \/ Alias \/ AppIgnores \/ Disabled \/ AppExcludes \/ AppRemoveExcludes
             \/ AppNeeds \/ Trigger \/ Callback \/ ImmediateCallback

Next == calls < MaxCalls /\ (ChangeOptions \/ ChangeOption \/ ChangeApps \/ ChangeApp)

Spec == Init /\ [][Next]_vars
-----------------------------------------------------------------------------
(* Apps and options are in one place each.                                 *)
TypeOK ==
  /\ \A a \in Apps(cli) : /\ IsInjective(cli.apps[a].subs) /\ IsInjective(cli.apps[a].options)
                          /\ \A sub \in Range(cli.apps[a].subs) : cli.apps[sub].parent = a
  /\ \A a, b \in Apps(cli) : a # b => OwnOptions(cli, a) \cap OwnOptions(cli, b) = {}
  /\ cli.apps[Root].parent = NoApp
  /\ \A o \in Options(cli) : cli.home[o] \in DOMAIN cli.apps

(***************************************************************************)
(* A call that succeeds never makes two options of the app in which they   *)
(* were made answer to a name of one of them, whatever is ignored by which *)
(* and in whatever order that was said (matching_name).                    *)
(***************************************************************************)
Clash(d, a, o, p) ==
  /\ {o, p} \subseteq OwnOptions(d, a) /\ o # p /\ d.home[o] = a /\ d.home[p] = a
  /\ Knows(d.options[o], d.options[p]) \/ Knows(d.options[p], d.options[o])

NoNewClash ==
  [][thrown' = "none" =>
       \A a \in Apps(cli)' : \A o, p \in OwnOptions(cli, a)' :
         Clash(cli, a, o, p)' => a \in Apps(cli) /\ Clash(cli, a, o, p)]_vars

(***************************************************************************)
(* A call that succeeds never makes two enabled subcommands of one scope   *)
(* answer to a name of one of them, but one that enables a subcommand,     *)
(* which is not checked (_compare_subcommand_names).                       *)
(***************************************************************************)
Scope(d, a) ==
  LET In[b \in DOMAIN d.apps] ==
        LET subs == {sub \in Range(d.apps[b].subs) : ~d.apps[sub].disabled}
            groups == {sub \in subs : IsGroup(d, sub)}
        IN  (subs \ groups) \cup UNION {In[g] : g \in groups}
  IN  In[a]

CommandClash(d, a, b, c) ==
  {b, c} \subseteq Scope(d, a) /\ b # c /\ OneAnswersToTheOther(d.apps[b], d.apps[c])

NoNewCommandClash ==
  [][thrown' = "none" /\ call' # "disabled" =>
       \A a \in Apps(cli)' : \A b, c \in Scope(cli, a)' :
         (a = Root \/ ~IsGroup(cli, a)') /\ CommandClash(cli, a, b, c)' =>
           \E base \in Apps(cli) : CommandClash(cli, base, b, c)]_vars

(***************************************************************************)
(* A call that throws leaves the definition as it was, though it changes   *)
(* it before it finds the conflict ("we are throwing so need to be         *)
(* exception invariant").  Not so the calls that put one thing in the      *)
(* place of another, nor those by which an option is made that ignores     *)
(* something by default.                                                   *)
(***************************************************************************)
Shown(d) ==
  [ apps    |-> [a \in Apps(d) |-> [field \in DOMAIN DefaultApp |-> d.apps[a][field]]],
    options |-> [o \in Options(d) |-> [field \in DOMAIN DefaultOption |-> d.options[o][field]]] ]

Replacing == {"set_flag", "set_config", "move_subcommand", "retire_option"}
IgnoringByDefault == \E a \in Apps(cli), what \in Ignorable : cli.apps[a].defaults[what]

FailuresRollBack ==
  [][thrown' # "none" =>
       \/ Shown(cli)' = Shown(cli)
       \/ call' \in Replacing \/ (call' \in {"add_option", "add_flag"} /\ IgnoringByDefault)]_vars

(***************************************************************************)
(* The help flags that an app looks for at the end of a parse are options  *)
(* of its own, whatever was removed, replaced or moved to a group.         *)
(***************************************************************************)
HelpFlagsOwned == \A a \in Apps(cli) : HelpOwned(cli, a)

(***************************************************************************)
(* When an option is removed no option beside it still needs or excludes   *)
(* it ("Make sure no links exist").                                        *)
(***************************************************************************)
Links(o) == cli.options[o].needs \cup cli.options[o].excludes

LinksGoWithTheOption ==
  [][\A a \in Apps(cli) \cap Apps(cli)' : \A o, p \in OwnOptions(cli, a) :
       o \in OwnOptions(cli, a)' /\ p \notin Options(cli)' => p \notin Links(o)']_vars

(***************************************************************************)
(* Of two subcommands each excludes the other or none does ("subcommand    *)
(* exclusion should be symmetric"), though the links go, too, when one is  *)
(* removed from its parent or moved to a group.                            *)
(***************************************************************************)
ExclusionsSymmetric == Symmetric(cli)

(***************************************************************************)
(* However the sizes of an option were set, some number of strings is      *)
(* right for it: else every use of it were an error.                       *)
(***************************************************************************)
EveryOptionCanBeGiven ==
  \A o \in Options(cli) :
    RightNumber(cli.options[o], Larger(items_expected_min(cli.options[o]), 1))
=============================================================================
