----------------------------- MODULE FixedPoint ------------------------------
(***************************************************************************)
(* FixedPt of src/click-2.0.1/include/click/fixedpt_cpp.h as a record      *)
(* [val, valid]: val is the raw fixedpt, and arithmetic on it is the       *)
(* integer arithmetic of fixedpt_add and fixedpt_sub while no operand      *)
(* nears the width of fixedpt.  fixedpt_mul and fixedpt_div (fixedptc.h,   *)
(* which the repository does not include) widen, shift by the fraction    *)
(* bits fb and divide as C does: >> rounds down, / truncates toward 0.     *)
(***************************************************************************)
EXTENDS Integers

\* FixedPt::fromInt and FixedPt::fromC: a valid value.
FixedPt(x) == [val |-> x, valid |-> TRUE]

\* FixedPt result; result.set_valid(false).
InvalidFixedPt == [val |-> 0, valid |-> FALSE]

\* C's integer division, truncating toward zero.
CDiv(a, b) ==
    LET q == (IF a < 0 THEN -a ELSE a) \div (IF b < 0 THEN -b ELSE b)
    IN  IF (a < 0) = (b < 0) THEN q ELSE -q

\* FixedPt::operator*: fixedpt_mul, (a * b) >> fb.
FxMul(a, b, fb) == (a * b) \div 2^fb

\* FixedPt::operator/: fixedpt_div, (a << fb) / b.
FxDiv(a, b, fb) == CDiv(a * 2^fb, b)

\* fpt_abs
FxAbs(a) == IF a < 0 THEN -a ELSE a

=============================================================================
