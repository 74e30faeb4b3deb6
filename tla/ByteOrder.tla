----------------------------- MODULE ByteOrder -----------------------------
(***************************************************************************)
(* iface-modbus.c: how a value that spans several Modbus registers is put  *)
(* together.  A value of n bytes is a function from the significance of a  *)
(* byte, 0 the least, to the byte; registers are numbered from 0 in the    *)
(* order in which they are read, each with a high and a low byte.          *)
(***************************************************************************)
EXTENDS Integers

\* enum modbus_endianness_type.
EndiannessTypes == {"BIG", "MID_BIG", "LITTLE", "MID_LITTLE"}

\* modbus_read_registers (external) stores register k in host order at the k-th
\* half word of the destination; the host is little-endian.
modbus_read_registers(regs, n) ==
    [p \in 0 .. n - 1 |-> IF p % 2 = 0 THEN regs[p \div 2].lo ELSE regs[p \div 2].hi]

\* Within a register, the other byte.
Neighbour(p) == IF p % 2 = 0 THEN p + 1 ELSE p - 1

\* Mutant: the bytes of the registers are not exchanged for MID_BIG.
OnlyWordsExchanged(src, type) ==
    CASE type \in {"BIG", "MID_BIG"} -> [p \in 0 .. 3 |-> src[(p + 2) % 4]]
      [] type = "LITTLE"  -> [p \in 0 .. 3 |-> src[Neighbour(p)]]
      [] OTHER            -> src

\* Each masked and shifted term of the code moves one byte or one half word.
iface_modbus_config_endianness_type_recv_32_bits(src, type) ==
    CASE type = "BIG"     -> [p \in 0 .. 3 |-> src[(p + 2) % 4]]
      [] type = "MID_BIG" -> [p \in 0 .. 3 |-> src[3 - p]]
      [] type = "LITTLE"  -> [p \in 0 .. 3 |-> src[Neighbour(p)]]
      [] OTHER            -> src

\* The bytes of each register are exchanged first, then the registers.
iface_modbus_config_endianness_type_recv_64_bits(src, type) ==
    LET swapped == IF type \in {"MID_BIG", "LITTLE"}
                   THEN [p \in 0 .. 7 |-> src[Neighbour(p)]] ELSE src
    IN  IF type \in {"MID_BIG", "BIG"}
        THEN [p \in 0 .. 7 |-> swapped[2 * (3 - (p \div 2)) + (p % 2)]] ELSE swapped
-----------------------------------------------------------------------------
\* The registers of a slave that keeps the value v of n bytes (external).  BIG has
\* the most significant byte first and LITTLE the least; in MID_BIG and MID_LITTLE
\* the two bytes of every register are exchanged with respect to these.
SlaveRegisters(v, n, type) ==
    [k \in 0 .. (n \div 2) - 1 |->
        CASE type = "BIG"        -> [hi |-> v[n - 1 - 2 * k], lo |-> v[n - 2 - 2 * k]]
          [] type = "MID_BIG"    -> [hi |-> v[n - 2 - 2 * k], lo |-> v[n - 1 - 2 * k]]
          [] type = "LITTLE"     -> [hi |-> v[2 * k], lo |-> v[2 * k + 1]]
          [] type = "MID_LITTLE" -> [hi |-> v[2 * k + 1], lo |-> v[2 * k]]]
=============================================================================
