-------------------------- MODULE ModbusInterface --------------------------
(***************************************************************************)
(* All of iface-modbus.c: the connection of ModbusLink, and the reads of a *)
(* data item over it.  The polling (module Telemetry) reads only while the *)
(* device takes the link for up.                                           *)
(*                                                                         *)
(* The slave keeps a value of eight bytes, of which the source of the item *)
(* has as many as its ModbusBitOffset says, laid out in its byte order.    *)
(***************************************************************************)
EXTENDS ModbusLink, ByteOrder, Sequences

CONSTANTS
    Sources,    \* modbus_source: ModbusBitOffset and ModbusTypeEndianness
    SlaveValues \* the values the slave can keep

Bytes8 == [0 .. 7 -> 0 .. 255]

ASSUME InterfaceAssumption ==
    /\ Sources \subseteq [bits : {1, 8, 16, 32, 64}, type : EndiannessTypes]
    /\ SlaveValues \subseteq Bytes8

VARIABLES
    source,  \* data_item->modbus_source
    held,    \* what the slave keeps (external)
    out,     \* data_item->current_val, all eight bytes of it
    seen     \* history: what the slave kept at the source at the last read that
             \*   succeeded

data_vars  == <<source, held, out, seen>>
iface_vars == <<vars, data_vars>>

IfaceTypeOK ==
    /\ TypeOK
    /\ source \in Sources
    /\ held \in SlaveValues
    /\ out \in Bytes8
    /\ seen \in Bytes8

Zero == [p \in 0 .. 7 |-> 0]
-----------------------------------------------------------------------------
\* modbus_read_input_bits (external): one byte for each bit.
modbus_read_input_bits(v) ==
    LET b == v[0]
    IN  <<b % 2, (b \div 2) % 2, (b \div 4) % 2, (b \div 8) % 2, (b \div 16) % 2,
          (b \div 32) % 2, (b \div 64) % 2, (b \div 128) % 2>>

\* The loop that puts the eight bits of a byte together.
val_byte_of(bits) ==
    bits[1] + 2 * bits[2] + 4 * bits[3] + 8 * bits[4] + 16 * bits[5] + 32 * bits[6]
        + 64 * bits[7] + 128 * bits[8]

\* Mutant: tmp is not cleared and only the bytes that were read are copied.
OnlyBytesRead(bytes, n) == [p \in 0 .. n - 1 |-> bytes[p]]

\* tmp: cleared first, then the bytes that were read.
tmp(bytes, n) == [p \in 0 .. 7 |-> IF p < n THEN bytes[p] ELSE 0]

\* The registers of the source.
Registers(n) == modbus_read_registers(SlaveRegisters(held, n, source.type), n)

\* A read that succeeds, by the width of the source.  The order is corrected only
\* where a value takes several registers.
iface_modbus_read_data ==
    CASE source.bits = 1  -> tmp([p \in {0} |-> modbus_read_input_bits(held)[1]], 1)
      [] source.bits = 8  -> tmp([p \in {0} |-> val_byte_of(modbus_read_input_bits(held))], 1)
      [] source.bits = 16 -> tmp(Registers(2), 2)
      [] source.bits = 32 ->
            tmp(iface_modbus_config_endianness_type_recv_32_bits(Registers(4), source.type), 4)
      [] source.bits = 64 ->
            tmp(iface_modbus_config_endianness_type_recv_64_bits(Registers(8), source.type), 8)

\* The value the slave keeps at the source.
Held == [p \in 0 .. 7 |-> CASE source.bits = 1 -> IF p = 0 THEN held[0] % 2 ELSE 0
                            [] OTHER           -> IF 8 * p < source.bits THEN held[p] ELSE 0]

\* A poll; when the slave does not answer, current_val is left as it was.
Read(ok) ==
    /\ proc = "running"
    /\ up
    /\ ok => peer = "alive"
    /\ out' = IF ok THEN iface_modbus_read_data ELSE out
    /\ seen' = IF ok THEN Held ELSE seen
    /\ UNCHANGED <<vars, source, held>>

\* The slave's value changes (external).
SlaveChanges ==
    /\ held' \in SlaveValues \ {held}
    /\ UNCHANGED <<vars, source, out, seen>>

\* Data items are new, and cleared, in a process that starts.
Link ==
    /\ Next
    /\ IF proc # "running" /\ proc' = "running" THEN out' = Zero /\ seen' = Zero
                                              ELSE UNCHANGED <<out, seen>>
    /\ UNCHANGED <<source, held>>

IfaceInit ==
    /\ Init
    /\ source \in Sources
    /\ held \in SlaveValues
    /\ out = Zero
    /\ seen = Zero

IfaceNext ==
    \/ Link
    \/ \E ok \in BOOLEAN : Read(ok)
    \/ SlaveChanges

IfaceSpec == IfaceInit /\ [][IfaceNext]_iface_vars
-----------------------------------------------------------------------------
\* The bytes of a register in the other order.
Exchanged(v) == [v EXCEPT ![0] = v[1], ![1] = v[0]]

\* A source of one register whose bytes the slave has in the other order.
OneRegisterExchanged == source.bits = 16 /\ source.type \in {"MID_BIG", "LITTLE"}

\* An item has the value that the slave kept when it was last read, in all of its
\* eight bytes: a read that succeeds decodes it, for every width and every byte
\* order, with nothing left of an earlier value; a read that fails, a link that goes
\* down or comes back and a new value of the slave leave it alone.  The exception
\* is a single register in an order that exchanges its bytes, which
\* iface_modbus_read_data does not correct.
ReadsWhatSlaveKeeps == ~OneRegisterExchanged => out = seen
-----------------------------------------------------------------------------
(***************************************************************************)
(* Progress.  The main loop runs the timer and the disconnect handler; a   *)
(* slave that is tried again and again accepts at last.                    *)
(***************************************************************************)

IfaceLiveSpec ==
    /\ IfaceSpec
    /\ WF_iface_vars(Link /\ attempt_connect(TRUE))
    /\ WF_iface_vars(Link /\ on_disconnected)

\* A running daemon that lost the slave, or could not reach it yet, gets
\* connected: no failure of an attempt, and no disconnection, is the last.
Reconnects ==
    (proc = "running" /\ modbus_ctx = "made" /\ peer = "gone")
        ~> ((peer = "alive" /\ up) \/ proc # "running")
=============================================================================
