------------------------------ MODULE CliApp -------------------------------
(***************************************************************************)
(* CLI11: the class App, a command with its options and its subcommands.   *)
(* Here is what apps and options are found in while they parse, and the    *)
(* questions the parser asks.                                              *)
(***************************************************************************)
EXTENDS CliDefinition, FiniteSetsExt

CONSTANT Interfaces     \* definitions by name: the apps, the options and the root app

(***************************************************************************)
(* What the calls that define it leave: every app but the root is listed   *)
(* by its parent, and no app is below itself.                              *)
(***************************************************************************)
IsTree(d) ==
  /\ IsFiniteSet(DOMAIN d.apps) /\ NoApp \notin DOMAIN d.apps /\ NoOption \notin DOMAIN d.options
  /\ d.root \in DOMAIN d.apps /\ d.apps[d.root].parent = NoApp
  /\ \A a \in DOMAIN d.apps :
       /\ d.apps[a].subs \in Seq(DOMAIN d.apps) /\ d.apps[a].options \in Seq(DOMAIN d.options)
       /\ {d.apps[a].help, d.apps[a].config} \subseteq DOMAIN d.options \cup {NoOption}
       /\ {d.apps[a].disabled, d.apps[a].parse_complete} \subseteq BOOLEAN
       /\ {d.apps[a].min_subs, d.apps[a].min_options, d.apps[a].max_options} \subseteq Nat
       /\ \A sub \in Range(d.apps[a].subs) : d.apps[sub].parent = a
       /\ a # d.root => \E b \in DOMAIN d.apps : a \in Range(d.apps[b].subs)
  /\ NoCycle(d)

ASSUME InterfacesAssumption == \A i \in DOMAIN Interfaces : IsTree(Interfaces[i])

VARIABLES
  cli,      \* the name of the definition
  apps,     \* what each app is found in
  options   \* what each option has collected

FreshApp(definition) ==
  [ parsed |-> 0, pre_parse_called |-> FALSE, missing |-> <<>>, parse_order |-> <<>>,
    parsed_subcommands |-> <<>>, disabled |-> definition.disabled ]

Apps == DOMAIN Interfaces[cli].apps
App(a) == Interfaces[cli].apps[a]
Opt(o) == Interfaces[cli].options[o]
Root == Interfaces[cli].root
IsRoot(a) == App(a).parent = NoApp
Nameless(a) == App(a).name = Empty
Groups(a) == {g \in Range(App(a).subs) : Nameless(g)}
Open(g) == Nameless(g) /\ ~apps[g].disabled

Below(a) ==
  LET Down[b \in Apps] == {b} \cup UNION {Down[sub] : sub \in Range(App(b).subs)}
  IN  Down[a]

(* _configure: a group leaves nothing to its parent and takes no command.  *)
IsSubgroup(a) == Nameless(a) /\ ~IsRoot(a)
Fallthrough(a) == App(a).fallthrough /\ ~IsSubgroup(a)
PrefixCommand(a) == App(a).prefix_command /\ ~IsSubgroup(a)

(* The first element that passes a test.                                   *)
At(seq, places, none) == IF places = {} THEN none ELSE seq[Min(places)]
First(seq, Test(_), none) == At(seq, {i \in DOMAIN seq : Test(seq[i])}, none)
-----------------------------------------------------------------------------
(***************************************************************************)
(* Counting.                                                               *)
(***************************************************************************)
count_all(a) ==
  MapThenSumSet(LAMBDA b : (IF Nameless(b) THEN 0 ELSE apps[b].parsed)
                           + MapThenSumSet(LAMBDA o : count(options[o]), Range(App(b).options)),
                Below(a))

Shortage(o, opts) ==
  IF get_positional(Opt(o)) /\ count(opts[o]) < items_expected_min(Opt(o))
    THEN items_expected_min(Opt(o)) - count(opts[o]) ELSE 0

(* What the required positionals still lack.                               *)
count_remaining_positionals(a, opts) ==
  MapThenSumSet(LAMBDA o : IF Opt(o).required THEN Shortage(o, opts) ELSE 0,
                Range(App(a).options))

has_remaining_positionals(a) == \E o \in Range(App(a).options) : Shortage(o, options) > 0
-----------------------------------------------------------------------------
(***************************************************************************)
(* Finding.                                                                *)
(***************************************************************************)
app_check_name(a, name) == answers_to(App(a), name)

(* The first subcommand of that name, the contents of a group before it.   *)
find_subcommand(a, name, ignore_disabled, ignore_used) ==
  LET Find[b \in Apps] ==
        LET Inside(sub) == IF Nameless(sub) THEN Find[sub] ELSE NoApp
            Itself(sub) == app_check_name(sub, name) /\ (apps[sub].parsed = 0 \/ ~ignore_used)
            Holds(sub) == /\ ~(apps[sub].disabled /\ ignore_disabled)
                          /\ Inside(sub) # NoApp \/ Itself(sub)
            first == First(App(b).subs, Holds, NoApp)
        IN  IF first # NoApp /\ Inside(first) # NoApp THEN Inside(first) ELSE first
  IN  Find[a]

get_option_no_throw(a, name) ==
  LET Get[b \in Apps] ==
        LET own == First(App(b).options, LAMBDA o : check_name(Opt(o), name), NoOption)
            group == First(App(b).subs, LAMBDA g : Nameless(g) /\ Get[g] # NoOption, NoApp)
        IN  IF own # NoOption THEN own
            ELSE IF group # NoApp THEN Get[group]
            ELSE NoOption
  IN  Get[a]

get_fallthrough_parent(a) ==
  LET Parent[b \in Apps \ {Root}] ==
        LET parent == App(b).parent
        IN  IF Nameless(parent) /\ ~IsRoot(parent) THEN Parent[parent] ELSE parent
  IN  Parent[a]

(* Is there room for one more subcommand?                                  *)
Room(a) == App(a).max_subs = 0 \/ Len(apps[a].parsed_subcommands) < App(a).max_subs

valid_subcommand(a, name, ignore_used) ==
  LET Valid[b \in Apps] == \/ Room(b) /\ find_subcommand(b, name, TRUE, ignore_used) # NoApp
                           \/ ~IsRoot(b) /\ Valid[App(b).parent]
  IN  Valid[a]
-----------------------------------------------------------------------------
(***************************************************************************)
(* Recognizing an argument.                                                *)
(***************************************************************************)
LooksLong(str) == Len(str) > 2 /\ SubSeq(str, 1, 2) = <<"-", "-">> /\ valid_first_char(str[3])
LooksShort(str) == Len(str) > 1 /\ str[1] = "-" /\ valid_first_char(str[2])
LooksWindows(str) == Len(str) > 1 /\ str[1] = "/" /\ valid_first_char(str[2])

(* The parts of str before and after the first mark, from a place on.      *)
SplitAt(str, from, mark) ==
  LET at == SelectInSeq(str, LAMBDA symbol : symbol = mark)
  IN  [ name  |-> SubSeq(str, from, IF at = 0 THEN Len(str) ELSE at - 1),
        value |-> IF at = 0 THEN Empty ELSE SubSeq(str, at + 1, Len(str)),
        rest  |-> Empty ]

split_short(str) ==
  [name |-> <<str[2]>>, value |-> Empty, rest |-> SubSeq(str, 3, Len(str))]

SplitArg(str, class) ==
  CASE class = "LONG"          -> SplitAt(str, 3, "=")
    [] class = "SHORT"         -> split_short(str)
    [] class = "WINDOWS_STYLE" -> SplitAt(str, 2, ":")

(* A negative number is no option unless the digit is one.                 *)
Negative(a, str) ==
  /\ str[2] \in {"0"} \cup Range(Digits)
  /\ get_option_no_throw(a, <<"-", str[2]>>) = NoOption

recognize(a, str, ignore_used) ==
  IF str = <<"-", "-">> THEN "POSITIONAL_MARK"
  ELSE IF valid_subcommand(a, str, ignore_used) THEN "SUBCOMMAND"
  ELSE IF LooksLong(str) THEN "LONG"
  ELSE IF LooksShort(str) THEN IF Negative(a, str) THEN "NONE" ELSE "SHORT"
  ELSE IF App(a).windows_style /\ LooksWindows(str) THEN "WINDOWS_STYLE"
  ELSE IF str = <<"+", "+">> /\ ~Nameless(a) /\ ~IsRoot(a) THEN "SUBCOMMAND_TERMINATOR"
  ELSE "NONE"
-----------------------------------------------------------------------------
(***************************************************************************)
(* Where an argument goes: to an option of some app, through groups that   *)
(* have then been touched; to a subcommand; to what an app is missing; or  *)
(* nowhere, and the app leaves it to its parent.                           *)
(***************************************************************************)
Place(kind, a, o) == [kind |-> kind, app |-> a, option |-> o, through |-> <<>>]
Nowhere == Place("leave", NoApp, NoOption)
Through(g, place) == [place EXCEPT !.through = Append(@, g)]

Matches(o, class, name) ==
  \/ class # "SHORT" /\ check_lname(Opt(o), name)
  \/ class # "LONG" /\ check_sname(Opt(o), name)

(* _parse_arg up to where the option is found.                             *)
PlaceOfArg(a, class, name) ==
  LET Where[b \in Apps] ==
        LET own == First(App(b).options, LAMBDA o : Matches(o, class, name), NoOption)
            group == First(App(b).subs, LAMBDA g : Open(g) /\ Where[g].kind # "leave", NoApp)
        IN  IF own # NoOption THEN Place("option", b, own)
            ELSE IF group # NoApp THEN Through(group, Where[group])
            ELSE IF ~IsRoot(b) /\ Nameless(b) THEN Nowhere
            ELSE IF ~IsRoot(b) /\ Fallthrough(b) THEN Where[get_fallthrough_parent(b)]
            ELSE Place("missing", b, NoOption)
  IN  Where[a]

Approved(a, o, str) == App(a).validate_positionals => Validate(Opt(o), str, 0).ok

(* The last arguments are for the required positionals.                    *)
Urgent(a, o, str, left) ==
  /\ App(a).positionals_at_end
  /\ left <= count_remaining_positionals(a, options)
  /\ Opt(o).required /\ Shortage(o, options) > 0
  /\ Approved(a, o, str)

Hungry(a, o, str) ==
  /\ get_positional(Opt(o))
  /\ Shortage(o, options) > 0 \/ Opt(o).allow_extra_args
  /\ Approved(a, o, str)

(* Mutant: a subcommand for which there is no room any more is left to the *)
(* parent.                                                                 *)
PlaceWithoutRoom(a, str, left, halt) ==
  LET Where[b \in Apps] ==
        LET hungry == First(App(b).options, LAMBDA o : Hungry(b, o, str), NoOption)
            own == find_subcommand(b, str, TRUE, FALSE)
        IN  IF hungry # NoOption THEN Place("option", b, hungry)
            ELSE IF ~IsRoot(b) /\ Fallthrough(b) THEN Where[App(b).parent]
            ELSE IF own # NoApp /\ Room(b) THEN Place("subcommand", own, NoOption)
            ELSE IF own # NoApp THEN Nowhere
            ELSE IF ~IsRoot(b) /\ Nameless(b) THEN Nowhere
            ELSE Place("missing", b, NoOption)
  IN  Where[a]

(* _parse_positional up to where it is known who takes it.                 *)
PlaceOfPositional(a, str, left, halt) ==
  LET Where[at \in Apps \X BOOLEAN] ==
        LET b == at[1]
            halted == at[2]
            urgent == First(App(b).options, LAMBDA o : Urgent(b, o, str, left), NoOption)
            hungry == First(App(b).options, LAMBDA o : Hungry(b, o, str), NoOption)
            group == First(App(b).subs,
                           LAMBDA g : Open(g) /\ Where[<<g, FALSE>>].kind # "leave", NoApp)
            own == find_subcommand(b, str, TRUE, FALSE)
            top == IF IsRoot(b) THEN b ELSE get_fallthrough_parent(b)
            wide == find_subcommand(top, str, TRUE, FALSE)
        IN  IF urgent # NoOption THEN Place("option", b, urgent)
            ELSE IF hungry # NoOption THEN Place("option", b, hungry)
            ELSE IF group # NoApp THEN Through(group, Where[<<group, FALSE>>])
            ELSE IF ~IsRoot(b) /\ Fallthrough(b)
              THEN Where[<<get_fallthrough_parent(b), App(b).parse_complete>>]
            ELSE IF own # NoApp /\ Room(b)
              THEN IF halted THEN Nowhere ELSE Place("subcommand", own, NoOption)
            ELSE IF wide # NoApp /\ Room(App(wide).parent) THEN Nowhere
            ELSE IF App(b).positionals_at_end THEN Place("extras", b, NoOption)
            ELSE IF ~IsRoot(b) /\ Nameless(b) THEN Nowhere
            ELSE Place("missing", b, NoOption)
  IN  Where[<<a, halt>>]

(* _move_to_missing: the app that keeps what app a has no use for.         *)
Keeper(a) ==
  IF App(a).allow_extras THEN a
  ELSE First(App(a).subs, LAMBDA g : Nameless(g) /\ App(g).allow_extras, a)
=============================================================================
