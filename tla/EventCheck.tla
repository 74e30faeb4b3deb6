----------------------------- MODULE EventCheck -----------------------------
(***************************************************************************)
(* event.c: when a polled value is worth publishing.  A value is a number  *)
(* (a boolean is 0 or 1, and order and equality are all that is used of a  *)
(* float); the flags of an event are a set.                                *)
(***************************************************************************)
EXTENDS Integers

Flags == {"CHANGE", "LOWER", "UPPER", "TIMEOUT"}

ValueTypes == {"INT", "FLOAT", "BOOL", "RAW", "INT64", "UINT", "UINT64"}

\* The types compare_knot_value has a comparison for; compare_raw is a stub.
Comparable == {"INT", "FLOAT", "BOOL"}

\* Mutant: the two values are swapped.
CompareSwapped(val1, val2, value_type) ==
    CASE value_type \notin Comparable -> 1
      [] OTHER -> IF val1 > val2 THEN -1 ELSE IF val1 < val2 THEN 1 ELSE 0

\* compare_int, compare_float and compare_bool; every other type compares as 1.
compare_knot_value(val1, val2, value_type) ==
    CASE value_type \notin Comparable -> 1
      [] OTHER -> IF val1 < val2 THEN -1 ELSE IF val1 > val2 THEN 1 ELSE 0

is_value_equal(val1, val2, value_type) ==
    compare_knot_value(val1, val2, value_type) = 0

is_lower_than_threshold(value, threshold, value_type) ==
    compare_knot_value(value, threshold, value_type) < 0

is_higher_than_threshold(value, threshold, value_type) ==
    compare_knot_value(value, threshold, value_type) > 0

\* -ENOMSG while the events are stopped, -EINVAL for a type that is none.
event_check_value(active, event, current_val, sent_val, value_type) ==
    CASE ~active -> -1
      [] active /\ value_type \notin ValueTypes -> -2
      [] OTHER ->
           IF \/ /\ "CHANGE" \in event.flags
                 /\ ~is_value_equal(current_val, sent_val, value_type)
              \/ /\ "LOWER" \in event.flags
                 /\ is_lower_than_threshold(current_val, event.lower, value_type)
              \/ /\ "UPPER" \in event.flags
                 /\ is_higher_than_threshold(current_val, event.upper, value_type)
           THEN 1 ELSE 0
-----------------------------------------------------------------------------
\* What device.conf says of the event parameters: a publication when the value
\* has changed, or is inferior or superior to the lower or upper threshold.
EventMet(event, current_val, sent_val) ==
    \/ "CHANGE" \in event.flags /\ current_val # sent_val
    \/ "LOWER" \in event.flags /\ current_val < event.lower
    \/ "UPPER" \in event.flags /\ current_val > event.upper
=============================================================================
