------------------------------ MODULE CliSizes ------------------------------
(***************************************************************************)
(* CLI11: how many strings an option takes.  A value is made of type_min   *)
(* to type_max strings, and the option expects exp_min to exp_max values.  *)
(***************************************************************************)
EXTENDS Integers

CONSTANTS
  INT_MAX,
  expected_max_vector_size    \* 2^29: as many as you like

ASSUME VectorSizeAssumption ==
  /\ INT_MAX \in Nat
  /\ expected_max_vector_size \in 16 .. INT_MAX

Larger(a, b) == IF a > b THEN a ELSE b
Smaller(a, b) == IF a < b THEN a ELSE b
Magnitude(n) == IF n < 0 THEN -n ELSE n

(* checked_multiply says no when the product overflows.                    *)
Overflows(a, b) == a > 1 /\ b > 1 /\ INT_MAX \div a < b

items_expected_min(opt) == opt.type_min * opt.exp_min

items_expected_max(opt) ==
  IF Overflows(opt.type_max, opt.exp_max) THEN expected_max_vector_size
                                          ELSE opt.type_max * opt.exp_max

(* With the policy Throw any other number of strings is an error.          *)
RightNumber(opt, n) ==
  /\ n >= Larger(items_expected_min(opt), 1)
  /\ n <= Larger(items_expected_max(opt), 1)
-----------------------------------------------------------------------------
(***************************************************************************)
(* The setters.  A negative size is an older way to say that there may be  *)
(* any number of values.                                                   *)
(***************************************************************************)
type_size(opt, size) ==
  IF size < 0
    THEN [opt EXCEPT !.type_min = -size, !.type_max = -size,
                     !.exp_max = expected_max_vector_size]
    ELSE [opt EXCEPT !.type_max = size,
                     !.type_min = IF size < expected_max_vector_size THEN size ELSE @,
                     !.inject_separator = @ \/ size >= expected_max_vector_size,
                     !.required = @ /\ size # 0]

(* Mutant: the sizes are taken in the order in which they come.            *)
type_sizes_as_given(opt, min, max) ==
  [opt EXCEPT !.type_min = Magnitude(min), !.type_max = Magnitude(max)]

type_sizes(opt, min, max) ==
  LET most == Larger(Magnitude(min), Magnitude(max)) IN
  [opt EXCEPT !.type_min = Smaller(Magnitude(min), Magnitude(max)),
              !.type_max = most,
              !.exp_max = IF min < 0 \/ max < 0 THEN expected_max_vector_size ELSE @,
              !.inject_separator = @ \/ most >= expected_max_vector_size,
              !.required = @ /\ most # 0]

expected(opt, value) ==
  IF value < 0
    THEN [opt EXCEPT !.exp_min = -value, !.exp_max = Larger(@, -value),
                     !.allow_extra_args = TRUE, !.flag_like = FALSE]
  ELSE IF value = expected_max_vector_size
    THEN [opt EXCEPT !.exp_min = 1, !.exp_max = value,
                     !.allow_extra_args = TRUE, !.flag_like = FALSE]
  ELSE [opt EXCEPT !.exp_min = value, !.exp_max = value, !.flag_like = (value = 0)]

expected_range(opt, min, max) ==
  LET most == IF max < 0 THEN expected_max_vector_size ELSE max IN
  [opt EXCEPT !.exp_min = Smaller(Magnitude(min), most),
              !.exp_max = Larger(Magnitude(min), most)]

(* An unlimited number with a minimum was the way to say exactly that many. *)
multi_option_policy(opt, value) ==
  IF value # opt.policy /\ opt.policy = "Throw" /\ opt.exp_min > 1
     /\ opt.exp_max = expected_max_vector_size
    THEN [opt EXCEPT !.exp_max = opt.exp_min, !.policy = value]
    ELSE [opt EXCEPT !.policy = value]
=============================================================================
