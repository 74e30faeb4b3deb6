--------------------------- MODULE MCConfigStore ---------------------------
(***************************************************************************)
(* ConfigStore for TLC.                                                    *)
(***************************************************************************)
EXTENDS ConfigStore, TLC

CONSTANTS int, bool   \* two schemas; the value type of bool needs another offset

NoEventKeys == <<>>
Timed     == [k \in {"TimeSec"} |-> 5]
OnChange  == [k \in {"Change"} |-> 1]
Below(n)  == [k \in {"LowerThreshold"} |-> n]
Above(n)  == [k \in {"UpperThreshold"} |-> n]

\* Nothing, several parameters, and a threshold.
SomeEvents == {NoEventKeys, Timed @@ OnChange, Above(1)}

Full(schema, event) == Uniform(schema) @@ event @@ [k \in SourceKeys |-> 0]

\* A file with all the keys that the start asks for.
FullFiles == {[thing |-> TRUE, items |-> [i \in Items |-> Full(int, Timed @@ Below(2))]]}
=============================================================================
