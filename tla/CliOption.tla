----------------------------- MODULE CliOption -----------------------------
(***************************************************************************)
(* CLI11: the class Option.  An option collects the strings given for it,  *)
(* validates them, reduces them by its policy to the ones that count and   *)
(* hands those to its callback, in this order, once for every change of    *)
(* what it collected.                                                      *)
(*                                                                         *)
(* A string is a sequence of symbols.  A symbol is one of the characters   *)
(* the parser looks for, or stands for a run of characters into which it   *)
(* never looks.                                                            *)
(***************************************************************************)
EXTENDS CliSizes, SequencesExt

CONSTANTS
  to_lower(_),                \* of a symbol
  remove_underscore(_)

Policies == {"Throw", "TakeLast", "TakeFirst", "Join", "TakeAll", "Sum"}
Empty == <<>>
EmptyContainer == <<"{}">>
Separator == <<"%%">>
is_separator(str) == str = Empty \/ str = Separator

(***************************************************************************)
(* How an option is defined, by default: one value, or an error.  A        *)
(* validator applies to the values at its index, or to all (-1); it turns  *)
(* some values down and some into others.  The callback refuses the values *)
(* it cannot convert.                                                      *)
(***************************************************************************)
DefaultOption ==
  [ snames |-> <<>>, lnames |-> <<>>, pname |-> Empty, envname |-> Empty,
    fnames |-> <<>>, flag_values |-> <<>>, default_str |-> Empty,
    required |-> FALSE, ignore_case |-> FALSE, ignore_underscore |-> FALSE,
    configurable |-> TRUE, disable_flag_override |-> FALSE, delimiter |-> "",
    policy |-> "Throw", type_min |-> 1, type_max |-> 1, exp_min |-> 1, exp_max |-> 1,
    validators |-> <<>>, needs |-> {}, excludes |-> {}, unconvertible |-> {},
    throws |-> "none",
    allow_extra_args |-> FALSE, flag_like |-> FALSE, inject_separator |-> FALSE,
    trigger_on_parse |-> FALSE, force_callback |-> FALSE ]

(* _add_flag_internal: a flag takes no value and the last one counts.      *)
Flag(opt) ==
  [opt EXCEPT !.policy = "TakeLast", !.exp_min = 0, !.exp_max = 0,
              !.flag_like = TRUE, !.required = FALSE]

(***************************************************************************)
(* What an option has collected.                                           *)
(***************************************************************************)
Fresh == [results |-> <<>>, proc_results |-> <<>>, state |-> "parsing"]

(* clear() leaves proc_results_ alone.                                     *)
Cleared(s) == [s EXCEPT !.results = <<>>, !.state = "parsing"]
count(s) == Len(s.results)
-----------------------------------------------------------------------------
(***************************************************************************)
(* Names.  find_member is the place of the first of names that is the      *)
(* name, 0 if there is none.                                               *)
(***************************************************************************)
Folded(name, ignore_case, ignore_underscore) ==
  [i \in DOMAIN name |->
     LET plain == IF ignore_underscore THEN remove_underscore(name[i]) ELSE name[i]
     IN  IF ignore_case THEN to_lower(plain) ELSE plain]

find_member(name, names, ignore_case, ignore_underscore) ==
  SelectInSeq(names, LAMBDA n :
    Folded(n, ignore_case, ignore_underscore) = Folded(name, ignore_case, ignore_underscore))

check_sname(opt, name) == find_member(name, opt.snames, opt.ignore_case, FALSE) > 0
check_lname(opt, name) ==
  find_member(name, opt.lnames, opt.ignore_case, opt.ignore_underscore) > 0
check_pname(opt, name) ==
  /\ opt.pname # Empty
  /\ find_member(name, <<opt.pname>>, opt.ignore_case, opt.ignore_underscore) > 0

get_positional(opt) == opt.pname # Empty
nonpositional(opt) == opt.snames # <<>> \/ opt.lnames # <<>>

(* Of two dashes and nothing else only the first counts as one.            *)
check_name(opt, name) ==
  IF Len(name) > 2 /\ SubSeq(name, 1, 2) = <<"-", "-">>
    THEN check_lname(opt, SubSeq(name, 3, Len(name)))
  ELSE IF Len(name) > 1 /\ name[1] = "-"
    THEN check_sname(opt, Tail(name))
  ELSE check_pname(opt, name) \/ (opt.envname # Empty /\ name = opt.envname)
-----------------------------------------------------------------------------
(***************************************************************************)
(* Adding a result.  A string in brackets is a list if more arguments are  *)
(* allowed, and each of its parts is added in its turn; a delimiter makes  *)
(* a list of any string.  Of split parts the empty ones are dropped, and   *)
(* so is a last empty one by getline.                                      *)
(***************************************************************************)
Split(str, delim) ==
  LET Step(parts, c) == IF c = delim THEN Append(parts, <<>>)
                        ELSE Append(Front(parts), Append(Last(parts), c))
  IN  FoldLeft(Step, <<Empty>>, str)

Parts(str, delim) == SelectSeq(Split(str, delim), LAMBDA part : part # Empty)

Bracketed(opt, str) ==
  /\ opt.allow_extra_args
  /\ Len(str) > 1 /\ str[1] = "[" /\ Last(str) = "]"

Delimited(opt, str) ==
  IF opt.delimiter # "" /\ Contains(str, opt.delimiter) THEN Parts(str, opt.delimiter)
                                                        ELSE <<str>>

Additions(opt, str) ==
  LET Of[s \in Seq(Range(str))] ==
        IF Bracketed(opt, s)
          THEN LET parts == Parts(SubSeq(s, 2, Len(s) - 1), ",")
               IN  FlattenSeq([i \in DOMAIN parts |-> Of[parts[i]]])
          ELSE Delimited(opt, s)
  IN  Of[str]

add_result(opt, s, str) ==
  [s EXCEPT !.results = @ \o Additions(opt, str), !.state = "parsing"]

add_results(opt, s, strs) ==
  [s EXCEPT !.results = @ \o FlattenSeq([i \in DOMAIN strs |-> Additions(opt, strs[i])]),
            !.state = "parsing"]

(* An empty string between the values of two uses of the option.           *)
inject_separator(opt, s) ==
  IF opt.inject_separator /\ s.results # <<>> /\ Last(s.results) # Empty
    THEN add_result(opt, s, Empty) ELSE s
-----------------------------------------------------------------------------
(***************************************************************************)
(* Flag values.  A numeral is read as a number before it is taken for a    *)
(* flag when flags are summed up, so "0" is -1 for a flag and 0 in a sum.  *)
(***************************************************************************)
True == <<"true">>
False == <<"false">>

Yes == {"true", "on", "yes", "enable", "t", "y", "+"}
No == {"false", "off", "no", "disable", "0", "f", "n", "-"}
Digits == <<"1", "2", "3", "4", "5", "6", "7", "8", "9">>

is_flag_value(str) == Len(str) = 1 /\ str[1] \in Yes \cup No \cup Range(Digits)

to_flag_value(str) ==
  IF str[1] \in Yes THEN 1 ELSE IF str[1] \in No THEN -1 ELSE SelectInSeq(Digits, LAMBDA d : d = str[1])

FlagMismatch == [throws |-> TRUE, value |-> Empty]
FlagValue(str) == [throws |-> FALSE, value |-> str]

Overridden(opt, name, input) ==
  LET own == find_member(name, opt.fnames, opt.ignore_case, opt.ignore_underscore)
  IN  /\ opt.disable_flag_override
      /\ input \notin {Empty, EmptyContainer}
      /\ input # IF own > 0 THEN opt.flag_values[own] ELSE True

(* A flag whose own value is false turns what it is given into its         *)
(* opposite.                                                               *)
Opposite(str) ==
  IF ~is_flag_value(str) THEN str
  ELSE CASE to_flag_value(str) = 1  -> False
         [] to_flag_value(str) = -1 -> True
         [] OTHER                   -> <<"-", str[1]>>

get_flag_value(opt, name, input) ==
  LET own == find_member(name, opt.fnames, opt.ignore_case, opt.ignore_underscore) IN
  IF Overridden(opt, name, input) THEN FlagMismatch
  ELSE IF input \in {Empty, EmptyContainer}
    THEN FlagValue(IF own > 0 THEN opt.flag_values[own]
                   ELSE IF opt.flag_like THEN True ELSE opt.default_str)
  ELSE IF own > 0 /\ opt.flag_values[own] = False THEN FlagValue(Opposite(input))
  ELSE FlagValue(input)

Summand(str) == IF str = <<"0">> THEN 0 ELSE to_flag_value(str)

sum_string_vector(strs) ==
  IF \A i \in DOMAIN strs : is_flag_value(strs[i])
    THEN <<ToString(FoldLeft(LAMBDA sum, str : sum + Summand(str), 0, strs))>>
    ELSE FlattenSeq(strs)
-----------------------------------------------------------------------------
(***************************************************************************)
(* Validation.  The first validator that objects is the last to be asked;  *)
(* what earlier ones made of the value stays.                              *)
(***************************************************************************)
Validate(opt, str, index) ==
  LET Ask(v, vali) ==
        IF ~v.ok \/ vali.index \notin {-1, index} THEN v
        ELSE IF v.value \in vali.rejects THEN [v EXCEPT !.ok = FALSE]
        ELSE IF v.value \in DOMAIN vali.becomes THEN [v EXCEPT !.value = vali.becomes[@]]
        ELSE v
  IN  IF str = Empty /\ opt.exp_min = 0
        THEN [ok |-> TRUE, value |-> str]
        ELSE FoldLeft(Ask, [ok |-> TRUE, value |-> str], opt.validators)

(* With TakeLast the values that will be cut off have negative indices.    *)
FirstIndex(opt, size) ==
  LET limit == IF opt.type_max > 1 THEN items_expected_max(opt) ELSE opt.exp_max
  IN  IF limit < size /\ opt.policy = "TakeLast" THEN limit - size ELSE 0

_validate_results(opt, results) ==
  LET Resets(str, index) ==
        opt.type_max > 1 /\ opt.type_max # opt.type_min /\ index >= 0 /\ is_separator(str)
      Index(index) == IF opt.type_max > 1 /\ index >= 0 THEN index % opt.type_max ELSE index
      Step(acc, str) ==
        IF ~acc.ok THEN [acc EXCEPT !.values = Append(@, str)]
        ELSE IF Resets(str, acc.index)
          THEN [acc EXCEPT !.values = Append(@, str), !.index = 0]
        ELSE LET v == Validate(opt, str, Index(acc.index))
             IN  [ok |-> v.ok, values |-> Append(acc.values, v.value), index |-> acc.index + 1]
  IN  IF opt.validators = <<>>
        THEN [ok |-> TRUE, values |-> results, index |-> 0]
        ELSE FoldLeft(Step, [ok |-> TRUE, values |-> <<>>,
                             index |-> FirstIndex(opt, Len(results))], results)

(***************************************************************************)
(* Reduction.  An empty outcome means that all that was collected counts.  *)
(***************************************************************************)
TrimSize(opt, results) == Smaller(Larger(items_expected_max(opt), 1), Len(results))

JoinSymbol(opt) == IF opt.delimiter = "" THEN "\n" ELSE opt.delimiter

Joined(opt, results) ==
  FoldLeft(LAMBDA str, r : str \o <<JoinSymbol(opt)>> \o r, Head(results), Tail(results))

Chosen(opt, results) ==
  LET size == Len(results)
      trim == TrimSize(opt, results)
  IN  CASE opt.policy = "TakeLast"  /\ size # trim -> SubSeq(results, size - trim + 1, size)
        [] opt.policy = "TakeFirst" /\ size # trim -> SubSeq(results, 1, trim)
        [] opt.policy = "Join" /\ size > 1         -> <<Joined(opt, results)>>
        [] opt.policy = "Sum"                      -> <<sum_string_vector(results)>>
        [] OTHER                                   -> <<>>

WrongNumber(opt, results) == opt.policy = "Throw" /\ ~RightNumber(opt, Len(results))

_reduce_results(opt, results) ==
  LET out == Chosen(opt, results)
      whole == IF out = <<>> THEN results ELSE out
  IN  IF whole = <<EmptyContainer>> /\ items_expected_min(opt) > 0
        THEN <<EmptyContainer, Separator>>
        ELSE out

Sent(s) == IF s.proc_results = <<>> THEN s.results ELSE s.proc_results
-----------------------------------------------------------------------------
(***************************************************************************)
(* run_callback: what the option is after it, the exception it ends in, or *)
(* "none", and whether the callback took the values.                       *)
(***************************************************************************)
Outcome(s, error, taken) == [option |-> s, error |-> error, taken |-> taken]

Forced(opt, s) ==
  IF opt.force_callback /\ s.results = <<>> THEN add_result(opt, s, opt.default_str) ELSE s

Call(opt, s) ==
  LET called == [s EXCEPT !.state = "callback_run"] IN
  IF \E i \in DOMAIN Sent(s) : Sent(s)[i] \in opt.unconvertible
    THEN Outcome(called, "ConversionError", FALSE)
    ELSE Outcome(called, opt.throws, opt.throws = "none")

Reduce(opt, s) ==
  IF WrongNumber(opt, s.results)
    THEN Outcome([s EXCEPT !.proc_results = <<>>], "ArgumentMismatch", FALSE)
    ELSE Call(opt, [s EXCEPT !.proc_results = _reduce_results(opt, s.results)])

Validated(opt, s, v) ==
  IF v.ok THEN Reduce(opt, [s EXCEPT !.results = v.values, !.state = "validated"])
          ELSE Outcome([s EXCEPT !.results = v.values], "ValidationError", FALSE)

Run(opt, s) ==
  CASE s.state = "parsing" -> Validated(opt, s, _validate_results(opt, s.results))
    [] s.state = "validated" -> Reduce(opt, s)
    [] OTHER -> Call(opt, s)

run_callback(opt, s) == Run(opt, Forced(opt, s))

(* What the program reads of an option: the values, reduced if they were   *)
(* not yet, or an exception.                                               *)
Reading(error, values) == [error |-> error, values |-> values]

Read(opt, values, out) ==
  IF values = <<>> THEN Reading("none", <<>>)
  ELSE IF WrongNumber(opt, values) THEN Reading("ArgumentMismatch", <<>>)
  ELSE Reading("none", IF out = <<>> THEN values ELSE out)

ReadValidated(opt, v) ==
  IF v.ok THEN Read(opt, v.values, _reduce_results(opt, v.values))
          ELSE Reading("ValidationError", <<>>)

reduced_results(opt, s) ==
  CASE s.state = "callback_run" -> Reading("none", Sent(s))
    [] s.state = "validated"    -> Read(opt, Sent(s), _reduce_results(opt, Sent(s)))
    [] s.state = "parsing"      -> ReadValidated(opt, _validate_results(opt, s.results))

(* as(): by default what the default is read as.  A lone value without     *)
(* validators is read as if it had been reduced.                           *)
results_as(opt, s) ==
  IF s.state = "callback_run" \/ (count(s) = 1 /\ opt.validators = <<>>)
    THEN Reading("none", Sent(s))
  ELSE IF s.results # <<>> THEN reduced_results(opt, s)
  ELSE IF opt.default_str = Empty THEN Reading("none", <<Empty>>)
  ELSE ReadValidated(opt, _validate_results(opt, Additions(opt, opt.default_str)))
=============================================================================
