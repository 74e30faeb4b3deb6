---------------------------- MODULE MCTelemetry ----------------------------
(***************************************************************************)
(* Telemetry for TLC.                                                      *)
(***************************************************************************)
EXTENDS Telemetry, TLC

Event(flags, lower, upper) == [flags |-> flags, lower |-> lower, upper |-> upper]

\* Every item reports changes, some periodically as well.
ChangeConfigs == {Event({"CHANGE"}, 0, 0), Event({"CHANGE", "TIMEOUT"}, 0, 0)}

\* Periodic reports, and thresholds on one side or on both sides of a value in the
\* middle.
AlarmConfigs == {Event({"TIMEOUT", "CHANGE"}, 0, 0), Event({"LOWER"}, 1, 0),
                 Event({"LOWER", "UPPER"}, 1, 1)}

\* A lower threshold only.
OnlyLower == {Event({"LOWER"}, 1, 0)}

\* Changes only: nothing else makes up for one that is missed.
OnlyChange == {Event({"CHANGE"}, 0, 0)}

ItemSymmetry == Permutations(Items)
=============================================================================
