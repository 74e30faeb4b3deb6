------------------------------ MODULE MCDaemon ------------------------------
(***************************************************************************)
(* Daemon for TLC.                                                         *)
(***************************************************************************)
EXTENDS Daemon, TLC

\* A slave that is reached over TCP.
TcpUrl == {[prefix |-> "tcp://", wellFormed |-> TRUE, file |-> ""]}

\* Reports every change, and periodically or not.
ReportConfigs == {[flags |-> {"CHANGE"}, lower |-> 0, upper |-> 0],
                  [flags |-> {"CHANGE", "TIMEOUT"}, lower |-> 0, upper |-> 0]}

\* Ids are interchangeable, and neither Telemetry nor ModbusLink knows of them.
IdSymmetry == Permutations(Ids)
=============================================================================
