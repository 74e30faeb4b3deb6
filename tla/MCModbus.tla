------------------------------ MODULE MCModbus ------------------------------
(***************************************************************************)
(* ModbusInterface for TLC.                                                *)
(***************************************************************************)
EXTENDS ModbusInterface

Url(prefix, wellFormed, file) == [prefix |-> prefix, wellFormed |-> wellFormed, file |-> file]

\* The urls of the example device file, one whose device is missing, and others.
AllUrls == {Url("tcp://", TRUE, ""), Url("tcp://", FALSE, ""), Url("other", TRUE, ""),
            Url("serial://", TRUE, "ttyUSB0"), Url("serial://", TRUE, "ttyUSB1"),
            Url("serial://", FALSE, "ttyUSB0")}

\* The example's two urls.
ExampleUrls == {Url("tcp://", TRUE, ""), Url("serial://", TRUE, "ttyUSB0")}

\* A serial port, and a second name for it that has the line settings in it.
LinkedPort == {[file |-> "ttyUSB0", settings |-> s] : s \in BOOLEAN}

\* A serial port as the system names it.
PlainPort == {[file |-> "ttyUSB0", settings |-> FALSE]}

AllSources == [bits : {1, 8, 16, 32, 64}, type : EndiannessTypes]

OneSource == {[bits |-> 16, type |-> "BIG"]}

\* No two bytes of a value are the same.
TwoValues == {[p \in 0 .. 7 |-> (26 + 37 * p) % 256], [p \in 0 .. 7 |-> 165 - p]}

OneValue == {[p \in 0 .. 7 |-> 165 - p]}
=============================================================================
