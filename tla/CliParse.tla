------------------------------ MODULE CliParse -----------------------------
(***************************************************************************)
(* CLI11: App::parse.  The call stack of the parser is the list todo of    *)
(* what is left to do, the innermost first: a frame of _parse for every    *)
(* app that is parsing, and under it what its callers do after it.  An     *)
(* exception ends all of them.  A program may parse again.                 *)
(***************************************************************************)
EXTENDS CliApp

CONSTANTS
  Scripts(_)      \* what a program with a definition parses, one after another:
                  \* the arguments, the configuration files and the environment

(* What an input is made of: sequences.                                    *)
IsSequence(s) == s \in Seq(Range(s))

ASSUME ScriptsAssumption ==
  \A i \in DOMAIN Interfaces : \A s \in Scripts(i) :
    /\ IsSequence(s)
    /\ \A in \in Range(s) :
         /\ IsSequence(in.line)
         /\ \A file \in DOMAIN in.files :
              /\ IsSequence(in.files[file])
              /\ \A item \in Range(in.files[file]) : IsSequence(item.parents)

(* The exceptions that say that something is missing or too much.  What    *)
(* the callback of an option throws is the program's own.                  *)
Complaints == {"RequiredError", "RequiresError", "ExcludesError", "FileError"}

ASSUME ThrowsAssumption ==
  \A i \in DOMAIN Interfaces : \A o \in DOMAIN Interfaces[i].options :
    Interfaces[i].options[o].throws \notin Complaints

VARIABLES
  script,         \* what the program is going to parse
  given,          \* the input being parsed
  args,           \* the arguments left of its line, the next one first
  todo,           \* the call stack
  items,          \* the items left of the configuration file
  error,          \* the exception, or "none"
  taken,          \* what the callback of each option was handed
  called,         \* the callbacks of apps that were called, in order
  outcomes        \* what came of each parse

state == <<apps, options>>
input == <<cli, script, given>>
effects == <<taken, called>>
parsing == <<given, args, todo, items, error, taken, called>>
vars == <<cli, script, apps, options, parsing, outcomes>>

Task(do, a) == [do |-> do, of |-> a, arg |-> NoOption]
TaskWith(do, a, arg) == [do |-> do, of |-> a, arg |-> arg]
Doing(do) == todo # <<>> /\ Head(todo).do = do
Of == Head(todo).of

Return == Task("return", Root)
Throw(e) == error' = e /\ todo' = <<Return>>
Then(tasks) == todo' = tasks \o Tail(todo) /\ UNCHANGED error
Raise(e, tasks) == IF e = "none" THEN Then(tasks) ELSE Throw(e)
-----------------------------------------------------------------------------
(***************************************************************************)
(* clear, increment_parsed and _trigger_pre_parse, as functions of apps.   *)
(* An app with an immediate callback that is used again starts afresh, but *)
(* for what it is missing.                                                 *)
(***************************************************************************)
(* Mutant: what was left over is not cleared.                              *)
ClearedAppButMissing(app) ==
  [app EXCEPT !.parsed = 0, !.pre_parse_called = FALSE, !.parsed_subcommands = <<>>]

ClearedApp(app) ==
  [app EXCEPT !.parsed = 0, !.pre_parse_called = FALSE, !.missing = <<>>,
              !.parsed_subcommands = <<>>]

OptionsBelow(a) == UNION {Range(App(b).options) : b \in Below(a)}

Counted(a) ==
  LET Down[b \in Apps] == {b} \cup UNION {Down[g] : g \in Groups(b)}
  IN  Down[a]

Incremented(a, as) == [b \in DOMAIN as |-> IF b \in Counted(a) THEN [as[b] EXCEPT !.parsed = @ + 1]
                                                               ELSE as[b]]

FirstUse(a, as) == ~as[a].pre_parse_called
StartsAfresh(a, as) == ~FirstUse(a, as) /\ App(a).immediate_callback /\ ~Nameless(a)

Enabled(a, as) ==
  [b \in DOMAIN as |->
     [as[b] EXCEPT !.disabled = (@ \/ b \in App(a).disables) /\ b \notin App(a).enables,
                   !.pre_parse_called = @ \/ b = a]]

Triggered(a, as) ==
  IF FirstUse(a, as) THEN Enabled(a, as)
  ELSE IF StartsAfresh(a, as)
    THEN [b \in DOMAIN as |->
            IF b = a THEN [ClearedApp(as[b]) EXCEPT !.parsed = as[b].parsed, !.missing = as[b].missing,
                                                    !.pre_parse_called = TRUE]
            ELSE IF b \in Below(a) THEN ClearedApp(as[b]) ELSE as[b]]
  ELSE as

Trigger(a, as) ==
  /\ apps' = Triggered(a, as)
  /\ options' = [o \in DOMAIN options |->
       IF StartsAfresh(a, as) /\ o \in OptionsBelow(a) THEN Cleared(options[o]) ELSE options[o]]
  /\ called' = IF FirstUse(a, as) /\ App(a).pre_parse THEN Append(called, <<a, "pre_parse">>) ELSE called

Enter(a, as) == Trigger(a, Incremented(a, as))
-----------------------------------------------------------------------------
(***************************************************************************)
(* The beginning of a parse: what an earlier one left is cleared, the      *)
(* definition checked, and the groups are enabled or disabled.             *)
(***************************************************************************)
Unlimited(o) == items_expected_max(Opt(o)) >= expected_max_vector_size /\ ~nonpositional(Opt(o))

_validate(a) ==
  /\ Cardinality({o \in Range(App(a).options) : Unlimited(o) /\ ~Opt(o).required}) <= 1
  /\ App(a).min_options > 0 =>
       /\ App(a).max_options > 0 => App(a).min_options <= App(a).max_options
       /\ App(a).min_options <= Len(App(a).options) + Cardinality(Groups(a))

_configure(as) ==
  [a \in DOMAIN as |-> [as[a] EXCEPT !.disabled =
     CASE App(a).startup = "enabled" -> FALSE [] App(a).startup = "disabled" -> TRUE
       [] OTHER -> @]]

clear ==
  IF apps[Root].parsed > 0
    THEN [ apps |-> [a \in DOMAIN apps |-> ClearedApp(apps[a])],
           options |-> [o \in DOMAIN options |-> Cleared(options[o])] ]
    ELSE [apps |-> apps, options |-> options]

parse ==
  LET in == script[Len(outcomes) + 1]
      start == Triggered(Root, Incremented(Root, _configure(clear.apps))) IN
  /\ todo = <<>> /\ Len(outcomes) < Len(script)
  /\ given' = in /\ args' = in.line /\ items' = <<>>
  /\ taken' = [o \in DOMAIN options |-> <<>>]
  /\ options' = clear.options
  /\ IF \A a \in DOMAIN apps : _validate(a)
       THEN /\ apps' = start
            /\ called' = IF App(Root).pre_parse THEN <<<<Root, "pre_parse">>>> ELSE <<>>
            /\ error' = "none" /\ todo' = <<Task("parse", Root), Return>>
       ELSE /\ apps' = [clear.apps EXCEPT ![Root].parsed = 1]
            /\ called' = <<>>
            /\ Throw("InvalidError")
  /\ UNCHANGED <<cli, script, outcomes>>
-----------------------------------------------------------------------------
(***************************************************************************)
(* The loop of _parse and _parse_single.  The root goes on whatever comes  *)
(* of an argument; another app goes back to its caller when it has no use  *)
(* for it.                                                                 *)
(***************************************************************************)
InFrame == Doing("parse") \/ Doing("parse_positionals")

Classified(class) ==
  /\ InFrame /\ args # <<>>
  /\ class = IF Doing("parse_positionals") THEN "NONE" ELSE recognize(Of, Head(args), TRUE)

(* Mutant: the requirements come before the help flags.                    *)
EndingRequirementsFirst(a) ==
  IF IsRoot(a)
    THEN <<Task("config", a), Task("env", a), Task("callbacks", a), Task("requirements", a),
           Task("help", a), Task("extras", a), Task("run_final", a)>>
  ELSE <<>>

(* What _parse does after its loop.                                        *)
Ending(a) ==
  IF IsRoot(a)
    THEN <<Task("config", a), Task("env", a), Task("callbacks", a), Task("help", a),
           Task("requirements", a), Task("extras", a), Task("run_final", a)>>
  ELSE IF App(a).parse_complete
    THEN <<Task("env", a), Task("callbacks", a), Task("help", a), Task("requirements", a),
           Task("run", a)>>
  ELSE <<>>

Leave == Then(IF IsRoot(Of) THEN <<Head(todo)>> ELSE Ending(Of))

EndOfLine ==
  /\ InFrame /\ args = <<>>
  /\ Then(Ending(Of))
  /\ UNCHANGED <<state, input, args, items, effects, outcomes>>

PositionalMark ==
  /\ Classified("POSITIONAL_MARK")
  /\ args' = Tail(args)
  /\ IF ~has_remaining_positionals(Of) /\ ~IsRoot(Of)
       THEN Leave /\ UNCHANGED apps
       ELSE /\ apps' = [apps EXCEPT ![Keeper(Of)].missing =
                          Append(@, <<"POSITIONAL_MARK", Head(args)>>)]
            /\ Then(<<Task("parse_positionals", Of)>>)
  /\ UNCHANGED <<options, input, items, effects, outcomes>>

SubcommandTerminator ==
  /\ Classified("SUBCOMMAND_TERMINATOR")
  /\ args' = Tail(args)
  /\ Leave
  /\ UNCHANGED <<state, input, items, effects, outcomes>>
-----------------------------------------------------------------------------
(***************************************************************************)
(* An argument that an option takes.  reception is what the option is when *)
(* an app hands it new values: after a separator, or cleared.              *)
(***************************************************************************)
reception(o) ==
  LET s == inject_separator(Opt(o), options[o])
  IN  IF Opt(o).trigger_on_parse /\ s.state = "callback_run" THEN Cleared(s) ELSE s

acceptance(o, s) ==
  IF Opt(o).trigger_on_parse THEN run_callback(Opt(o), s) ELSE Outcome(s, "none", FALSE)

(* Mutant: the order is kept by the app that parses.                       *)
OrderedInFrame(a, o, n) == [apps EXCEPT ![Of].parse_order = @ \o [i \in 1 .. n |-> o]]

Ordered(a, o, n) == [apps EXCEPT ![a].parse_order = @ \o [i \in 1 .. n |-> o]]

Touch(through) == [i \in DOMAIN through |-> Task("touch", through[i])]

Hand(o, outcome) ==
  /\ options' = [options EXCEPT ![o] = outcome.option]
  /\ taken' = IF outcome.taken THEN [taken EXCEPT ![o] = Append(@, Sent(outcome.option))] ELSE taken

Accept(o, outcome, tasks) == Hand(o, outcome) /\ Raise(outcome.error, tasks)

(* What _parse_positional does with the next argument once it has a place. *)
positional(place, mode) ==
  LET o == place.option IN
  CASE place.kind = "option" ->
         /\ Accept(o, acceptance(o, add_result(Opt(o), reception(o), Head(args))),
                   Touch(place.through) \o <<mode>>)
         /\ apps' = Ordered(place.app, o, 1)
         /\ args' = Tail(args)
         /\ UNCHANGED called
    [] place.kind = "subcommand" ->
         /\ Enter(place.app, apps)
         /\ args' = Tail(args)
         /\ Then(<<Task("parse", place.app)>> \o Touch(place.through) \o <<mode>>)
         /\ UNCHANGED taken
    [] place.kind = "missing" ->
         LET eaten == IF PrefixCommand(place.app) THEN args ELSE <<Head(args)>> IN
         /\ apps' = [apps EXCEPT ![Keeper(place.app)].missing =
                       @ \o [i \in DOMAIN eaten |-> <<"NONE", eaten[i]>>]]
         /\ args' = SubSeq(args, Len(eaten) + 1, Len(args))
         /\ Then(Touch(place.through) \o <<mode>>)
         /\ UNCHANGED <<options, effects>>
    [] place.kind = "extras" ->
         /\ Throw("ExtrasError")
         /\ UNCHANGED <<state, args, effects>>

Here == PlaceOfPositional(Of, Head(args), Len(args), FALSE)

ParsePositional ==
  /\ Classified("NONE")
  /\ LET mode == IF App(Of).positionals_at_end THEN Task("parse_positionals", Of) ELSE Head(todo)
     IN  IF Here.kind = "leave" THEN Leave /\ UNCHANGED <<state, args, effects>>
                                ELSE positional(Here, mode)
  /\ UNCHANGED <<input, items, outcomes>>

(* Required positionals are before a subcommand, and then it does not      *)
(* matter whether one of them took the argument.                           *)
RequiredPositional ==
  /\ Classified("SUBCOMMAND")
  /\ count_remaining_positionals(Of, options) > 0
  /\ IF Here.kind = "leave" THEN UNCHANGED <<state, args, todo, error, effects>>
                            ELSE positional(Here, Head(todo))
  /\ UNCHANGED <<input, items, outcomes>>

GroupsOver(a, top) ==
  LET Over[b \in Below(top) \ {top}] ==
        LET parent == App(b).parent IN IF parent = top THEN <<>> ELSE <<parent>> \o Over[parent]
  IN  Over[a]

Subcommand ==
  LET com == find_subcommand(Of, Head(args), TRUE, TRUE)
      over == GroupsOver(com, Of) IN
  /\ Classified("SUBCOMMAND")
  /\ count_remaining_positionals(Of, options) = 0
  /\ IF com = NoApp
       THEN /\ IF IsRoot(Of) THEN Throw("HorribleError") ELSE Leave
            /\ UNCHANGED <<state, args, called>>
       ELSE /\ args' = Tail(args)
            /\ Enter(com, IF App(com).silent THEN apps
                          ELSE [apps EXCEPT ![Of].parsed_subcommands = Append(@, com)])
            /\ Then(<<Task("parse", com)>> \o [i \in DOMAIN over |-> TaskWith("passed", over[i], com)]
                    \o <<Head(todo)>>)
  /\ UNCHANGED <<input, items, taken, outcomes>>

(* The groups between a subcommand and the app that found it hear of it.   *)
Passed ==
  LET com == Head(todo).arg IN
  /\ Doing("passed")
  /\ Trigger(Of, IF App(com).silent THEN apps
                 ELSE [apps EXCEPT ![Of].parsed_subcommands = Append(@, com)])
  /\ Then(<<>>)
  /\ UNCHANGED <<input, args, items, taken, outcomes>>

(* A group through which an argument went has begun to parse.              *)
TouchGroup ==
  /\ Doing("touch")
  /\ IF FirstUse(Of, apps) THEN Trigger(Of, apps) ELSE UNCHANGED <<state, called>>
  /\ Then(<<>>)
  /\ UNCHANGED <<input, args, items, taken, outcomes>>
-----------------------------------------------------------------------------
(***************************************************************************)
(* An option on the command line, and the values it takes from there.      *)
(***************************************************************************)
min_num(opt) == Smaller(opt.type_min, items_expected_min(opt))

max_num(opt) ==
  IF items_expected_max(opt) >= expected_max_vector_size \div 16 /\ ~opt.allow_extra_args
    THEN IF Overflows(opt.type_max, opt.exp_min) THEN expected_max_vector_size
                                                 ELSE opt.type_max * opt.exp_min
    ELSE items_expected_max(opt)

LeastOf(S, default) == IF S = {} THEN default ELSE Min(S)

(* The values of option o, of app a, from the line rest: the least number  *)
(* it needs, then as many as it may have.  A value may be split into many. *)
Collected(opt, base, rest, n) ==
  base + FoldLeft(LAMBDA sum, str : sum + Len(Additions(opt, str)), 0, SubSeq(rest, 1, n))

Least(opt, base, rest) ==
  LeastOf({n \in 0 .. Len(rest) : Collected(opt, base, rest, n) >= min_num(opt)}, Len(rest))

May(opt, n) == max_num(opt) > n \/ opt.allow_extra_args

Stops(a, o, held, base, rest, n) ==
  \/ ~May(Opt(o), Collected(Opt(o), base, rest, n))
  \/ n = Len(rest)
  \/ recognize(a, rest[n + 1], FALSE) # "NONE"
  \/ count_remaining_positionals(a, held) >= Len(rest) - n
  \/ App(a).validate_optional_arguments /\ ~Validate(Opt(o), rest[n + 1], 0).ok

Most(a, o, held, base, rest, least) ==
  IF May(Opt(o), Collected(Opt(o), base, rest, least))
    THEN LeastOf({n \in least .. Len(rest) : Stops(a, o, held, base, rest, n)}, Len(rest))
    ELSE least

(* A mark that ended the optional values is dropped.                       *)
Ended(a, rest, least, most) ==
  most < Len(rest) /\ recognize(a, rest[most + 1], TRUE) = "POSITIONAL_MARK"

Gathered(a, opt, base, rest, least, most) ==
  LET optional == May(opt, Collected(opt, base, rest, least)) IN
  [ enough |-> Collected(opt, base, rest, least) >= min_num(opt),
    values |-> SubSeq(rest, 1, most),
    collected |-> Collected(opt, base, rest, most),
    optional |-> optional,
    left |-> SubSeq(rest, most + (IF optional /\ Ended(a, rest, least, most) THEN 2 ELSE 1),
                    Len(rest)) ]

GatherMore(a, o, s, base, rest, least) ==
  Gathered(a, Opt(o), base, rest, least,
           Most(a, o, [options EXCEPT ![o] = add_results(Opt(o), s, SubSeq(rest, 1, least))],
                base, rest, least))

Gather(a, o, s, base, rest) == GatherMore(a, o, s, base, rest, Least(Opt(o), base, rest))

(* What the option is after all, and what it throws.                       *)
Lone(opt, g) == g.optional /\ min_num(opt) = 0 /\ max_num(opt) > 0 /\ g.collected = 0

Filled(opt, s, g, name) ==
  LET partial == min_num(opt) > 0 /\ g.collected % opt.type_max # 0
      flag == get_flag_value(opt, name, Empty)
  IN  IF ~g.enough THEN Outcome(s, "ArgumentMismatch", FALSE)
      ELSE IF Lone(opt, g)
        THEN IF flag.throws THEN Outcome(s, "ArgumentMismatch", FALSE)
                            ELSE Outcome(add_result(opt, s, flag.value), "none", FALSE)
      ELSE IF partial
        THEN IF opt.type_max # opt.type_min THEN Outcome(add_result(opt, s, Empty), "none", FALSE)
                                            ELSE Outcome(s, "ArgumentMismatch", FALSE)
      ELSE Outcome(s, "none", FALSE)

(* The outcome of giving option o of app a the argument split into its     *)
(* parts: what is left of the line comes with it.                          *)
Given(o, g, filled, first, back) ==
  [ outcome |-> IF filled.error = "none" THEN acceptance(o, filled.option) ELSE filled,
    left |-> back \o g.left,
    values |-> Len(first) + Len(g.values) + IF g.enough /\ Lone(Opt(o), g) THEN 1 ELSE 0 ]

Refused(o, rest) ==
  [ outcome |-> Outcome(reception(o), "ArgumentMismatch", FALSE), left |-> rest, values |-> 0 ]

Supplied(o, s, g, split, first, back) ==
  Given(o, g, Filled(Opt(o), add_results(Opt(o), s, g.values), g, split.name), first, back)

Supply(a, o, s, base, split, rest, first, back) ==
  Supplied(o, s, Gather(a, o, s, base, rest), split, first, back)

(* What comes with a flag is its value; of short flags in one argument the *)
(* next ones are put back.                                                 *)
Flagged(a, o, split, rest, flag) ==
  IF flag.throws THEN Refused(o, rest)
  ELSE Supply(a, o, add_results(Opt(o), reception(o), <<flag.value>>), 0, split, rest,
              <<flag.value>>,
              IF split.rest = Empty THEN <<>> ELSE <<<<"-">> \o split.rest>>)

Valued(a, o, split, rest, first) ==
  Supply(a, o, add_results(Opt(o), reception(o), first),
         Collected(Opt(o), 0, first, Len(first)), split, rest, first, <<>>)

option_arg(a, o, split, rest) ==
  LET attached == IF split.value # Empty THEN split.value ELSE split.rest IN
  IF max_num(Opt(o)) = 0
    THEN Flagged(a, o, split, rest, get_flag_value(Opt(o), split.name, split.value))
    ELSE Valued(a, o, split, rest, IF attached = Empty THEN <<>> ELSE <<attached>>)

Take(place, given_to) ==
  /\ Accept(place.option, given_to.outcome, Touch(place.through) \o <<Head(todo)>>)
  /\ apps' = Ordered(place.app, place.option, given_to.values)
  /\ args' = given_to.left

Miss(place, class) ==
  /\ apps' = [apps EXCEPT ![Keeper(place.app)].missing = Append(@, <<class, Head(args)>>)]
  /\ args' = Tail(args)
  /\ Then(Touch(place.through) \o <<Head(todo)>>)
  /\ UNCHANGED <<options, taken>>

placed_arg(place, class, split) ==
  CASE place.kind = "option" ->
         Take(place, option_arg(place.app, place.option, split, Tail(args)))
    [] place.kind = "missing" -> Miss(place, class)
    [] place.kind = "leave" -> UNCHANGED <<state, args, todo, error, taken>>

ParseArg ==
  /\ \E class \in {"LONG", "SHORT", "WINDOWS_STYLE"} :
       LET split == SplitArg(Head(args), class) IN
       /\ Classified(class)
       /\ placed_arg(PlaceOfArg(Of, class, split.name), class, split)
  /\ UNCHANGED <<input, items, called, outcomes>>
-----------------------------------------------------------------------------
(***************************************************************************)
(* The configuration file.  Its items are those of an open section, of a   *)
(* closed one, and options.  That there is no file, or no name of one, is  *)
(* thrown only after the callbacks and the help flags.                     *)
(***************************************************************************)
Quiet == UNCHANGED <<input, args, outcomes>>

MissingFile ==
  /\ todo' = <<Task("callbacks", Root), Task("help", Root), Task("file_error", Root), Return>>
  /\ UNCHANGED error

ConfigNames(o) == results_as(Opt(o), options[o])

Configured(o, names) ==
  LET whose == IF options[o].results # <<>> THEN "asked_for" ELSE "default" IN
  IF names.error # "none" THEN Throw(names.error)
  ELSE IF names.values = <<>> \/ Head(names.values) = Empty
    THEN IF Opt(o).required THEN MissingFile ELSE Then(<<>>)
  ELSE Then(<<TaskWith(whose, Of, names.values)>>)

process_config_file ==
  LET o == App(Of).config IN
  /\ Doing("config")
  /\ IF o = NoOption THEN Then(<<>>) ELSE Configured(o, ConfigNames(o))
  /\ Quiet /\ UNCHANGED <<state, items, effects>>

(* The last file named is read first.                                      *)
ReadFile ==
  LET files == Head(todo).arg
      file == Last(files)
      found == file \in DOMAIN given.files
      others == IF Len(files) = 1 THEN <<>> ELSE <<TaskWith(Head(todo).do, Of, Front(files))>> IN
  /\ Doing("asked_for") \/ Doing("default")
  /\ items' = IF found THEN given.files[file] ELSE <<>>
  /\ IF found
       THEN Then(<<Task("items", Of)>>
                 \o (IF Doing("default") THEN <<TaskWith("read", Of, file)>> ELSE <<>>) \o others)
     ELSE IF Doing("asked_for") \/ Opt(App(Of).config).required THEN MissingFile
     ELSE Then(others)
  /\ Quiet /\ UNCHANGED <<state, effects>>

(* A default file that was read counts as given.                           *)
FileRead ==
  LET o == App(Of).config IN
  /\ Doing("read")
  /\ options' = [options EXCEPT ![o] = add_result(Opt(o), @, Head(todo).arg)]
  /\ Then(<<>>)
  /\ Quiet /\ UNCHANGED <<apps, items, effects>>

FileError ==
  /\ Doing("file_error")
  /\ Throw("FileError")
  /\ Quiet /\ UNCHANGED <<state, items, effects>>

Section(a, parents) ==
  LET In[n \in 0 .. Len(parents)] ==
        IF n = 0 THEN a
        ELSE IF In[n - 1] = NoApp THEN NoApp
        ELSE find_subcommand(In[n - 1], parents[n], FALSE, FALSE)
  IN  In[Len(parents)]

OptionOfItem(a, item) ==
  LET names == << <<"-", "-">> \o item.name >>
               \o (IF Len(item.name) = 1 THEN << <<"-">> \o item.name >> ELSE <<>>)
               \o << item.name >>
      found == [i \in DOMAIN names |-> get_option_no_throw(a, names[i])]
  IN  First(found, LAMBDA o : o # NoOption, NoOption)

NextItem == Doing("items") /\ items # <<>> /\ items' = Tail(items) /\ Quiet
TheItem == Head(items)
TheApp == Section(Of, TheItem.parents)
Unknown == IF App(Of).allow_config_extras = "error" THEN Throw("ConfigError")
                                                    ELSE UNCHANGED <<todo, error>>

ItemsDone ==
  /\ Doing("items") /\ items = <<>>
  /\ Then(<<>>)
  /\ Quiet /\ UNCHANGED <<state, items, effects>>

UnknownItem ==
  /\ NextItem
  /\ \/ TheApp = NoApp
     \/ TheItem.name \notin {<<"+", "+">>, <<"-", "-">>} /\ OptionOfItem(TheApp, TheItem) = NoOption
  /\ apps' = IF TheApp # NoApp /\ App(TheApp).allow_config_extras = "capture"
               THEN [apps EXCEPT ![TheApp].missing = Append(@, <<"NONE", TheItem.name>>)]
               ELSE apps
  /\ Unknown
  /\ UNCHANGED <<options, effects>>

OpenSection ==
  /\ NextItem /\ TheApp # NoApp /\ TheItem.name = <<"+", "+">>
  /\ IF App(TheApp).configurable
       THEN Enter(TheApp, IF IsRoot(TheApp) THEN apps
                          ELSE [apps EXCEPT ![App(TheApp).parent].parsed_subcommands =
                                  Append(@, TheApp)])
       ELSE UNCHANGED <<state, called>>
  /\ UNCHANGED <<todo, error, taken>>

CloseSection ==
  /\ NextItem /\ TheApp # NoApp /\ TheItem.name = <<"-", "-">>
  /\ todo' = IF App(TheApp).configurable /\ App(TheApp).parse_complete
               THEN <<Task("callbacks", TheApp), Task("requirements", TheApp),
                      Task("run_final", TheApp)>> \o todo
               ELSE todo
  /\ UNCHANGED <<state, error, effects>>

(* The value of a flag: true is what the flag stands for when its values   *)
(* may not be overridden.                                                  *)
FlagOfItem(opt, item) ==
  LET res == IF item.inputs = <<>> THEN EmptyContainer ELSE item.inputs[1]
  IN  IF opt.disable_flag_override /\ is_flag_value(res) /\ to_flag_value(res) = 1
        THEN get_flag_value(opt, item.name, EmptyContainer)
        ELSE get_flag_value(opt, item.name, res)

(* An item for an option that may be configured and has no value yet.      *)
FlagItem(o, flag) ==
  /\ options' = IF flag.throws THEN options
                ELSE [options EXCEPT ![o] = add_result(Opt(o), @, flag.value)]
  /\ IF flag.throws THEN Throw("ArgumentMismatch") ELSE UNCHANGED <<todo, error>>
  /\ UNCHANGED taken

ValueItem(o, outcome) ==
  /\ Hand(o, outcome)
  /\ IF outcome.error = "none" THEN UNCHANGED <<todo, error>> ELSE Throw(outcome.error)

Fill(o, inputs) ==
  LET opt == Opt(o) IN
  IF opt.exp_min = 0 /\ Len(inputs) <= 1 THEN FlagItem(o, FlagOfItem(opt, TheItem))
  ELSE IF opt.exp_min = 0 /\ Len(inputs) > items_expected_max(opt)
    THEN /\ Throw(IF items_expected_max(opt) > 1 THEN "ArgumentMismatch" ELSE "ConversionError")
         /\ UNCHANGED <<options, taken>>
  ELSE ValueItem(o, run_callback(opt, add_results(opt, options[o], inputs)))

ItemFor(o) ==
  /\ o # NoOption
  /\ IF ~Opt(o).configurable
       THEN /\ IF App(TheApp).allow_config_extras = "ignore_all" THEN Unknown
                                                               ELSE Throw("ConfigError")
            /\ UNCHANGED <<options, taken>>
     ELSE IF options[o].results # <<>> THEN UNCHANGED <<options, todo, error, taken>>
     ELSE Fill(o, TheItem.inputs)

OptionItem ==
  /\ NextItem /\ TheApp # NoApp /\ TheItem.name \notin {<<"+", "+">>, <<"-", "-">>}
  /\ ItemFor(OptionOfItem(TheApp, TheItem))
  /\ UNCHANGED <<apps, called>>
-----------------------------------------------------------------------------
(***************************************************************************)
(* After the arguments: the environment, the callbacks of the options, the *)
(* help flags, the requirements, what is left over, and the callbacks of   *)
(* the apps.                                                               *)
(***************************************************************************)
EnvApps(a) ==
  LET Down[b \in Apps] ==
        {b} \cup UNION {Down[sub] : sub \in
                         {c \in Range(App(b).subs) : Nameless(c) \/ ~App(c).parse_complete}}
  IN  Down[a]

FromEnv(o) ==
  /\ options[o].results = <<>>
  /\ Opt(o).envname # Empty /\ Opt(o).envname \in DOMAIN given.env
  /\ given.env[Opt(o).envname] # Empty

process_env ==
  /\ Doing("env")
  /\ options' = [o \in DOMAIN options |->
       IF (\E a \in EnvApps(Of) : o \in Range(App(a).options)) /\ FromEnv(o)
         THEN add_result(Opt(o), options[o], given.env[Opt(o).envname]) ELSE options[o]]
  /\ Then(<<>>)
  /\ Quiet /\ UNCHANGED <<apps, items, effects>>

(* Mutant: the groups and the subcommands are forgotten.                   *)
process_own_callbacks ==
  /\ Doing("callbacks")
  /\ Then([i \in DOMAIN App(Of).options |-> TaskWith("callback", Of, App(Of).options[i])])
  /\ Quiet /\ UNCHANGED <<state, items, effects>>

(* Groups with a callback of their own come first, and subcommands with    *)
(* one were processed when they had parsed.                                *)
process_callbacks ==
  LET own == App(Of).options
      ForSubs(do) == [i \in DOMAIN App(Of).subs |-> Task(do, App(Of).subs[i])] IN
  /\ Doing("callbacks")
  /\ Then(ForSubs("group") \o [i \in DOMAIN own |-> TaskWith("callback", Of, own[i])]
          \o ForSubs("subcommand"))
  /\ Quiet /\ UNCHANGED <<state, items, effects>>

ProcessGroup ==
  /\ Doing("group")
  /\ Then(IF Nameless(Of) /\ App(Of).parse_complete /\ count_all(Of) > 0
            THEN <<Task("callbacks", Of), Task("run_final", Of)>> ELSE <<>>)
  /\ Quiet /\ UNCHANGED <<state, items, effects>>

ProcessSubcommand ==
  /\ Doing("subcommand")
  /\ Then(IF App(Of).parse_complete THEN <<>> ELSE <<Task("callbacks", Of)>>)
  /\ Quiet /\ UNCHANGED <<state, items, effects>>

OptionCallback ==
  LET o == Head(todo).arg
      pending == /\ options[o].results # <<>> \/ Opt(o).force_callback
                 /\ options[o].state # "callback_run" IN
  /\ Doing("callback")
  /\ IF pending THEN Accept(o, run_callback(Opt(o), options[o]), <<>>)
                ELSE Then(<<>>) /\ UNCHANGED <<options, taken>>
  /\ Quiet /\ UNCHANGED <<apps, items, called>>

(* The last subcommands call for help if they or an app above them are     *)
(* asked to, and the first one that does ends it.                          *)
IsGiven(o) == o # NoOption /\ options[o].results # <<>>
FirstError(errors) == First(errors, LAMBDA e : e # "none", "none")

HelpFlags(a, help, help_all) ==
  LET Asks[at \in Apps \X BOOLEAN \X BOOLEAN] ==
        LET one == at[2] \/ IsGiven(App(at[1]).help)
            all == at[3] \/ IsGiven(App(at[1]).help_all)
            subs == apps[at[1]].parsed_subcommands
        IN  IF subs # <<>> THEN FirstError([i \in DOMAIN subs |-> Asks[<<subs[i], one, all>>]])
            ELSE IF all THEN "CallForAllHelp" ELSE IF one THEN "CallForHelp" ELSE "none"
  IN  Asks[<<a, help, help_all>>]

process_help_flags ==
  /\ Doing("help")
  /\ Raise(HelpFlags(Of, FALSE, FALSE), <<>>)
  /\ Quiet /\ UNCHANGED <<state, items, effects>>

(* Mutant: what an option excludes is not looked at.                       *)
OptionRequirementsOnly(o) ==
  IF Opt(o).required /\ count(options[o]) = 0 THEN "RequiredError"
  ELSE IF count(options[o]) > 0 /\ \E p \in Opt(o).needs : count(options[p]) = 0
    THEN "RequiresError"
  ELSE "none"

OptionRequirements(o) ==
  IF Opt(o).required /\ count(options[o]) = 0 THEN "RequiredError"
  ELSE IF count(options[o]) > 0 /\ \E p \in Opt(o).needs : count(options[p]) = 0
    THEN "RequiresError"
  ELSE IF count(options[o]) > 0 /\ \E p \in Opt(o).excludes : count(options[p]) # 0
    THEN "ExcludesError"
  ELSE "none"

UsedOptions(a) ==
  Cardinality({o \in Range(App(a).options) : count(options[o]) # 0})
  + Cardinality({g \in Groups(a) : ~apps[g].disabled /\ count_all(g) > 0})

(* A group of which nothing was used is let off if its parent has enough.  *)
LetOff(a, sub) ==
  /\ Nameless(sub) /\ ~App(sub).required /\ count_all(sub) = 0
  /\ \/ App(a).min_options > 0 /\ App(a).min_options <= UsedOptions(a)
     \/ App(a).max_options > 0 /\ UsedOptions(a) >= App(a).min_options

Excluded(a) == \/ \E o \in App(a).exclude_options : count(options[o]) > 0
               \/ \E sub \in App(a).exclude_subs : count_all(sub) > 0
Lacking(a) == \/ \E o \in App(a).need_options : count(options[o]) = 0
              \/ \E sub \in App(a).need_subs : count_all(sub) = 0

Numbers(a) ==
  IF \/ App(a).min_subs > Len(apps[a].parsed_subcommands)
     \/ App(a).min_options > UsedOptions(a)
     \/ App(a).max_options > 0 /\ App(a).max_options < UsedOptions(a)
    THEN "RequiredError" ELSE "none"

Requirements(a) ==
  LET Check[b \in Apps] ==
        LET own == App(b).options
            subs == App(b).subs
            Within(sub) ==
              IF apps[sub].disabled \/ LetOff(b, sub) THEN "none"
              ELSE IF (apps[sub].parsed > 0 \/ Nameless(sub)) /\ Check[sub] # "none" THEN Check[sub]
              ELSE IF App(sub).required /\ count_all(sub) = 0 THEN "RequiredError"
              ELSE "none"
        IN  IF Excluded(b) THEN IF count_all(b) > 0 THEN "ExcludesError" ELSE "none"
            ELSE IF Lacking(b) THEN IF count_all(b) > 0 THEN "RequiresError" ELSE "none"
            ELSE FirstError([i \in DOMAIN own |-> OptionRequirements(own[i])]
                            \o << Numbers(b) >> \o [i \in DOMAIN subs |-> Within(subs[i])])
  IN  Check[a]

process_requirements ==
  /\ Doing("requirements")
  /\ Raise(Requirements(Of), <<>>)
  /\ Quiet /\ UNCHANGED <<state, items, effects>>

Extras(a) ==
  LET Check[b \in Apps] ==
        LET subs == App(b).subs
            left == \E i \in DOMAIN apps[b].missing : apps[b].missing[i][1] # "POSITIONAL_MARK"
        IN  IF ~App(b).allow_extras /\ ~PrefixCommand(b) /\ left THEN "ExtrasError"
            ELSE FirstError([i \in DOMAIN subs |->
                               IF apps[subs[i]].parsed > 0 THEN Check[subs[i]] ELSE "none"])
  IN  Check[a]

process_extras ==
  /\ Doing("extras")
  /\ Raise(Extras(Of), <<>>)
  /\ Quiet /\ UNCHANGED <<state, items, effects>>

(* The callbacks that run_callback calls: parse_complete's, those of the   *)
(* subcommands in the order they were given, those of the groups that were *)
(* used, and at last its own.                                              *)
Callbacks(a, suppress) ==
  LET Final[b \in Apps] ==
        LET Each(seq, Test(_)) ==
              FlattenSeq([i \in DOMAIN seq |-> IF Test(seq[i]) THEN Final[seq[i]] ELSE <<>>])
        IN  Each(apps[b].parsed_subcommands, LAMBDA sub : App(sub).parent = b)
            \o Each(App(b).subs, LAMBDA g : Nameless(g) /\ count_all(g) > 0)
            \o (IF /\ App(b).final /\ apps[b].parsed > 0 /\ ~suppress
                   /\ ~Nameless(b) \/ count_all(b) > 0 \/ IsRoot(b)
                  THEN << <<b, "final">> >> ELSE <<>>)
  IN  (IF App(a).parse_complete THEN << <<a, "parse_complete">> >> ELSE <<>>) \o Final[a]

(* Mutant: the final callbacks are not held back.                          *)
RunAllCallbacks ==
  /\ Doing("run") \/ Doing("run_final")
  /\ called' = called \o Callbacks(Of, FALSE)
  /\ Then(<<>>)
  /\ Quiet /\ UNCHANGED <<state, items, taken>>

RunCallbacks ==
  /\ Doing("run") \/ Doing("run_final")
  /\ called' = called \o Callbacks(Of, Doing("run"))
  /\ Then(<<>>)
  /\ Quiet /\ UNCHANGED <<state, items, taken>>
-----------------------------------------------------------------------------
(***************************************************************************)
(* The parse has returned, or thrown.                                      *)
(***************************************************************************)
Result ==
  [ given |-> given, error |-> error, taken |-> taken, called |-> called,
    results |-> [o \in DOMAIN options |-> options[o].results],
    used |-> [a \in DOMAIN apps |-> apps[a].parsed_subcommands],
    missing |-> [a \in DOMAIN apps |-> apps[a].missing] ]

Returned ==
  /\ Doing("return")
  /\ todo' = <<>>
  /\ outcomes' = Append(outcomes, Result)
  /\ UNCHANGED <<state, input, args, items, error, effects>>

Init ==
  /\ cli \in DOMAIN Interfaces
  /\ script \in Scripts(cli)
  /\ apps = [a \in DOMAIN Interfaces[cli].apps |-> FreshApp(App(a))]
  /\ options = [o \in DOMAIN Interfaces[cli].options |-> Fresh]
  /\ given = [line |-> <<>>, files |-> <<>>, env |-> <<>>]
  /\ args = <<>> /\ todo = <<>> /\ items = <<>>
  /\ error = "none" /\ taken = [o \in DOMAIN options |-> <<>>]
  /\ called = <<>> /\ outcomes = <<>>

ParseSingle == \/ PositionalMark \/ SubcommandTerminator \/ ParsePositional
               \/ RequiredPositional \/ Subcommand \/ ParseArg

Configure == \/ process_config_file \/ ReadFile \/ FileRead \/ FileError \/ ItemsDone
             \/ UnknownItem \/ OpenSection \/ CloseSection \/ OptionItem

Process == \/ process_env \/ process_callbacks \/ ProcessGroup \/ ProcessSubcommand \/ OptionCallback
           \/ process_help_flags \/ process_requirements \/ process_extras \/ RunCallbacks

Step == \/ ParseSingle \/ EndOfLine \/ Passed \/ TouchGroup \/ Configure \/ Process \/ Returned

Next == parse \/ Step

Spec == Init /\ [][Next]_vars
-----------------------------------------------------------------------------
Done == Doing("return")
Success == Done /\ error = "none"

TypeOK ==
  /\ DOMAIN apps = DOMAIN Interfaces[cli].apps
  /\ DOMAIN options = DOMAIN Interfaces[cli].options
  /\ \A a \in DOMAIN apps :
       /\ apps[a].parsed \in Nat /\ {apps[a].pre_parse_called, apps[a].disabled} \subseteq BOOLEAN
       /\ Range(apps[a].parsed_subcommands) \subseteq DOMAIN apps
       /\ Range(apps[a].parse_order) \subseteq Range(App(a).options)
  /\ \A o \in DOMAIN options : options[o].state \in {"parsing", "validated", "callback_run"}
  /\ Len(outcomes) <= Len(script)

(***************************************************************************)
(* A program that parses twice: what an earlier parse left behind must not *)
(* show (clear), so that the same input has the same outcome again.        *)
(***************************************************************************)
OutcomeOfInput ==
  \A i, j \in DOMAIN outcomes :
    outcomes[i].given = outcomes[j].given => outcomes[i] = outcomes[j]

(***************************************************************************)
(* Whatever the way a value came in, by the line, a file or the            *)
(* environment: when a parse succeeds each app and group in use has what   *)
(* it requires, as many options and subcommands as it must have, and       *)
(* nothing that excludes something else, and each command has used every   *)
(* argument (_process_requirements, _process_extras).  Two are let off: a  *)
(* root of which nothing was used and that excludes or needs something,    *)
(* and what is below a group of a command that starts afresh, for the      *)
(* group loses its count.                                                  *)
(***************************************************************************)
Answers(a) ==
  LET Up[b \in Apps] ==
        \/ IsRoot(b) /\ (count_all(b) > 0 \/ (~Excluded(b) /\ ~Lacking(b)))
        \/ /\ ~IsRoot(b) /\ ~apps[b].disabled /\ count_all(b) > 0
           /\ (Nameless(b) \/ apps[b].parsed > 0) /\ Up[App(b).parent]
  IN  Up[a]

LosesCounts(a) == App(a).immediate_callback /\ ~Nameless(a)
Overlooked(a) == \E b \in Apps : LosesCounts(b) /\ \E g \in Groups(b) : a \in Below(g)

HasWhatItNeeds(o) ==
  /\ Opt(o).required => count(options[o]) # 0
  /\ count(options[o]) > 0 => /\ \A p \in Opt(o).needs : count(options[p]) # 0
                             /\ \A p \in Opt(o).excludes : count(options[p]) = 0

RequirementsMet ==
  Success => \A a \in {b \in DOMAIN apps : Answers(b)} :
    /\ ~Excluded(a) /\ ~Lacking(a)
    /\ \A o \in Range(App(a).options) : HasWhatItNeeds(o)
    /\ Len(apps[a].parsed_subcommands) >= App(a).min_subs
    /\ UsedOptions(a) >= App(a).min_options
    /\ App(a).max_options > 0 => UsedOptions(a) <= App(a).max_options
    /\ \A sub \in Range(App(a).subs) :
         App(sub).required /\ ~apps[sub].disabled => count_all(sub) # 0
    /\ Overlooked(a) \/ App(a).allow_extras \/ PrefixCommand(a)
       \/ \A i \in DOMAIN apps[a].missing : apps[a].missing[i][1] = "POSITIONAL_MARK"

(***************************************************************************)
(* The variable bound to an option has the value the option shows: when a  *)
(* parse succeeds the callback of every option given was last handed what  *)
(* the option holds, be it called while parsing, from a file, or at the    *)
(* end, after the option grew or was cleared.                              *)
(***************************************************************************)
InUse(a) == IsRoot(a) \/ (~apps[a].disabled /\ ~Nameless(a) /\ apps[a].parsed > 0)

Served(a) ==
  LET Up[b \in Apps] == InUse(b) \/ (Nameless(b) /\ Up[App(b).parent])
  IN  Up[a]

StoredIsShown ==
  Success => \A o \in DOMAIN options :
    IsGiven(o) /\ (\E a \in DOMAIN apps : Served(a) /\ o \in Range(App(a).options)) =>
      taken[o] # <<>> /\ Last(taken[o]) = Sent(options[o])

(***************************************************************************)
(* Who asks for help gets it, and not the complaint that something is      *)
(* missing or too much, a configuration file among it (_process calls      *)
(* _process_help_flags before the requirements and holds a FileError       *)
(* back).  An app with an immediate callback complains at once.            *)
(***************************************************************************)
HelpBeforeComplaints ==
  Done /\ IsGiven(App(Root).help) /\ (\A a \in DOMAIN apps : ~App(a).parse_complete) =>
    error \notin Complaints \cup {"none"}

(***************************************************************************)
(* The final callbacks of the apps that were used are called when nothing  *)
(* can be complained of any more, so never before an exception             *)
(* (run_callback at the end of _process).  Not so those of a group with a  *)
(* parse-complete callback, of a section with one, and of what is below    *)
(* them: they are called at once, when the group or section is processed.  *)
(***************************************************************************)
FinalCall(i) == called[i][2] = "final"
RunsAtOnce(a) ==
  App(a).parse_complete /\ ((Nameless(a) /\ a # Root) \/ App(a).configurable)
CalledAtOnce(b) == \E a \in Apps : RunsAtOnce(a) /\ b \in Below(a)

FinalCallbacksLast ==
  \A i \in DOMAIN called : FinalCall(i) /\ ~CalledAtOnce(called[i][1]) =>
    /\ error = "none" /\ apps[called[i][1]].parsed > 0
    /\ Requirements(Root) = "none" /\ Extras(Root) = "none"

(***************************************************************************)
(* The final callback of an app is called no more often than the app was   *)
(* used, on the line or in a configuration file, unless an app above it    *)
(* was used more than once (run_callback): a section pushes its command    *)
(* onto the used ones though the line may have, too.                       *)
(***************************************************************************)
FinalCallbacksAsOftenAsUsed ==
  \A i \in DOMAIN called :
    LET a == called[i][1]
        above == {b \in Apps \ {a} : a \in Below(b)}
    IN  FinalCall(i) /\ ~CalledAtOnce(a) /\ (\A b \in above : apps[b].parsed <= 1) =>
          Cardinality({j \in DOMAIN called : called[j] = called[i]}) <= apps[a].parsed

(***************************************************************************)
(* The parser does not look at the same argument forever: the next one is  *)
(* taken by an option, a subcommand or the list of those left over, or its *)
(* app leaves it to its caller (_parse_arg and _parse_subcommand say by    *)
(* their result which it is).                                              *)
(***************************************************************************)
LookedAtForever ==
  \/ \E class \in {"LONG", "SHORT", "WINDOWS_STYLE"} :
       /\ Classified(class)
       /\ PlaceOfArg(Of, class, SplitArg(Head(args), class).name).kind = "leave"
  \/ /\ Classified("SUBCOMMAND") /\ count_remaining_positionals(Of, options) > 0
     /\ Here.kind = "leave"
  \/ Classified("NONE") /\ IsRoot(Of) /\ Here.kind = "leave"

EveryArgumentMoves == ~LookedAtForever
=============================================================================
