---------------------------- MODULE ModbusProofs ----------------------------
(***************************************************************************)
(* Proofs about ModbusInterface, for every set of urls, device files and   *)
(* sources, and for every value a slave can keep.                          *)
(***************************************************************************)
EXTENDS ModbusInterface, LinkProofs

(***************************************************************************)
(* The link, whose invariant LinkProofs shows, as a part of the interface. *)
(***************************************************************************)

\* A step of the interface is a step of the link, or leaves it alone.
LEMMA IfaceStepsLink ==
    ASSUME [IfaceNext]_iface_vars
    PROVE  [Next]_vars
  BY DEF IfaceNext, Link, Read, SlaveChanges, iface_vars

\* The link keeps its invariant in the whole interface.
LEMMA LinkInvAlways == IfaceSpec => []LinkInv
<1>1. IfaceInit => LinkInv
  BY LinkInvInit DEF IfaceInit
<1>2. LinkInv /\ [IfaceNext]_iface_vars => LinkInv'
  BY LinkInvInductive, IfaceStepsLink
<1> QED
  BY <1>1, <1>2, PTL DEF IfaceSpec

\* A daemon that runs is connected or has its reconnect timer running, never
\* neither and never both (attempt_connect, on_disconnected, iface_modbus_start).
THEOREM LinkOrTimerAlways == IfaceSpec => []LinkOrTimer
<1>1. LinkInv => LinkOrTimer
  BY DEF LinkInv
<1> QED
  BY <1>1, LinkInvAlways, PTL

\* No socket is left open, whatever fails (attempt_connect, iface_modbus_stop).
THEOREM SocketsNeverLeaked == IfaceSpec => []SocketsNotLeaked
<1>1. LinkInv => SocketsNotLeaked
  BY DEF LinkInv
<1> QED
  BY <1>1, LinkInvAlways, PTL
-----------------------------------------------------------------------------
(***************************************************************************)
(* The reads.                                                              *)
(***************************************************************************)

\* Correcting the order of a 32 bit value gives what the slave keeps, for each of
\* the four orders (iface_modbus_config_endianness_type_recv_32_bits).
LEMMA Corrects32 ==
    ASSUME NEW v, NEW type \in EndiannessTypes, NEW p \in 0 .. 3
    PROVE  iface_modbus_config_endianness_type_recv_32_bits(
               modbus_read_registers(SlaveRegisters(v, 4, type), 4), type)[p] = v[p]
<1> DEFINE src == modbus_read_registers(SlaveRegisters(v, 4, type), 4)
<1>0. p = 0 \/ p = 1 \/ p = 2 \/ p = 3
  OBVIOUS
<1>1. CASE type = "BIG"
  <2>1. src[0] = v[2] /\ src[1] = v[3] /\ src[2] = v[0] /\ src[3] = v[1]
    BY <1>1 DEF modbus_read_registers, SlaveRegisters
  <2> HIDE DEF src
  <2>2. iface_modbus_config_endianness_type_recv_32_bits(src, type)[p] = v[p]
    BY <1>0, <1>1, <2>1 DEF iface_modbus_config_endianness_type_recv_32_bits
  <2> QED
    BY <2>2 DEF src
<1>2. CASE type = "MID_BIG"
  <2>1. src[0] = v[3] /\ src[1] = v[2] /\ src[2] = v[1] /\ src[3] = v[0]
    BY <1>2 DEF modbus_read_registers, SlaveRegisters
  <2> HIDE DEF src
  <2>2. iface_modbus_config_endianness_type_recv_32_bits(src, type)[p] = v[p]
    BY <1>0, <1>2, <2>1 DEF iface_modbus_config_endianness_type_recv_32_bits
  <2> QED
    BY <2>2 DEF src
<1>3. CASE type = "LITTLE"
  <2>1. src[0] = v[1] /\ src[1] = v[0] /\ src[2] = v[3] /\ src[3] = v[2]
    BY <1>3 DEF modbus_read_registers, SlaveRegisters
  <2> HIDE DEF src
  <2>2. iface_modbus_config_endianness_type_recv_32_bits(src, type)[p] = v[p]
    BY <1>0, <1>3, <2>1 DEF iface_modbus_config_endianness_type_recv_32_bits, Neighbour
  <2> QED
    BY <2>2 DEF src
<1>4. CASE type = "MID_LITTLE"
  <2>1. src[0] = v[0] /\ src[1] = v[1] /\ src[2] = v[2] /\ src[3] = v[3]
    BY <1>4 DEF modbus_read_registers, SlaveRegisters
  <2> HIDE DEF src
  <2>2. iface_modbus_config_endianness_type_recv_32_bits(src, type)[p] = v[p]
    BY <1>0, <1>4, <2>1 DEF iface_modbus_config_endianness_type_recv_32_bits
  <2> QED
    BY <2>2 DEF src
<1> QED
  BY <1>1, <1>2, <1>3, <1>4 DEF EndiannessTypes

\* So does the correction of a 64 bit value
\* (iface_modbus_config_endianness_type_recv_64_bits).
LEMMA Corrects64 ==
    ASSUME NEW v, NEW type \in EndiannessTypes, NEW p \in 0 .. 7
    PROVE  iface_modbus_config_endianness_type_recv_64_bits(
               modbus_read_registers(SlaveRegisters(v, 8, type), 8), type)[p] = v[p]
<1> DEFINE src == modbus_read_registers(SlaveRegisters(v, 8, type), 8)
           swapped == [q \in 0 .. 7 |-> src[Neighbour(q)]]
           turned(w) == [q \in 0 .. 7 |-> w[2 * (3 - (q \div 2)) + (q % 2)]]
<1>0. /\ \A q \in 0 .. 7 : swapped[q] = src[Neighbour(q)]
      /\ \A w : turned(w)[0] = w[6] /\ turned(w)[1] = w[7] /\ turned(w)[2] = w[4]
               /\ turned(w)[3] = w[5] /\ turned(w)[4] = w[2] /\ turned(w)[5] = w[3]
               /\ turned(w)[6] = w[0] /\ turned(w)[7] = w[1]
  OBVIOUS
<1>0a. iface_modbus_config_endianness_type_recv_64_bits(src, type) =
          LET s == IF type \in {"MID_BIG", "LITTLE"} THEN swapped ELSE src
          IN  IF type \in {"MID_BIG", "BIG"} THEN turned(s) ELSE s
  BY DEF iface_modbus_config_endianness_type_recv_64_bits
<1>0b. /\ Neighbour(0) = 1 /\ Neighbour(1) = 0 /\ Neighbour(2) = 3 /\ Neighbour(3) = 2
       /\ Neighbour(4) = 5 /\ Neighbour(5) = 4 /\ Neighbour(6) = 7 /\ Neighbour(7) = 6
  BY DEF Neighbour
<1>0c. p = 0 \/ p = 1 \/ p = 2 \/ p = 3 \/ p = 4 \/ p = 5 \/ p = 6 \/ p = 7
  OBVIOUS
<1> HIDE DEF turned, swapped
<1>1. CASE type = "BIG"
  <2>1. /\ src[0] = v[6] /\ src[1] = v[7] /\ src[2] = v[4] /\ src[3] = v[5]
        /\ src[4] = v[2] /\ src[5] = v[3] /\ src[6] = v[0] /\ src[7] = v[1]
    BY <1>1 DEF modbus_read_registers, SlaveRegisters
  <2> HIDE DEF src
  <2>2. iface_modbus_config_endianness_type_recv_64_bits(src, type) = turned(src)
    BY <1>0a, <1>1
  <2> QED
    BY <1>0, <1>0c, <2>1, <2>2 DEF src
<1>2. CASE type = "MID_BIG"
  <2>1. /\ src[0] = v[7] /\ src[1] = v[6] /\ src[2] = v[5] /\ src[3] = v[4]
        /\ src[4] = v[3] /\ src[5] = v[2] /\ src[6] = v[1] /\ src[7] = v[0]
    BY <1>2 DEF modbus_read_registers, SlaveRegisters
  <2> HIDE DEF src
  <2>2. iface_modbus_config_endianness_type_recv_64_bits(src, type) = turned(swapped)
    BY <1>0a, <1>2
  <2> QED
    BY <1>0, <1>0b, <1>0c, <2>1, <2>2 DEF src
<1>3. CASE type = "LITTLE"
  <2>1. /\ src[0] = v[1] /\ src[1] = v[0] /\ src[2] = v[3] /\ src[3] = v[2]
        /\ src[4] = v[5] /\ src[5] = v[4] /\ src[6] = v[7] /\ src[7] = v[6]
    BY <1>3 DEF modbus_read_registers, SlaveRegisters
  <2> HIDE DEF src
  <2>2. iface_modbus_config_endianness_type_recv_64_bits(src, type) = swapped
    BY <1>0a, <1>3
  <2> QED
    BY <1>0, <1>0b, <1>0c, <2>1, <2>2 DEF src
<1>4. CASE type = "MID_LITTLE"
  <2>1. /\ src[0] = v[0] /\ src[1] = v[1] /\ src[2] = v[2] /\ src[3] = v[3]
        /\ src[4] = v[4] /\ src[5] = v[5] /\ src[6] = v[6] /\ src[7] = v[7]
    BY <1>4 DEF modbus_read_registers, SlaveRegisters
  <2> HIDE DEF src
  <2>2. iface_modbus_config_endianness_type_recv_64_bits(src, type) = src
    BY <1>0a, <1>4
  <2> QED
    BY <1>0c, <2>1, <2>2 DEF src
<1> QED
  BY <1>1, <1>2, <1>3, <1>4 DEF EndiannessTypes

\* Putting the bits of a byte together gives the byte (TYPE_BYTE).
LEMMA BitsOfByte ==
    ASSUME NEW v \in Bytes8
    PROVE  /\ val_byte_of(modbus_read_input_bits(v)) = v[0]
           /\ modbus_read_input_bits(v)[1] = v[0] % 2
<1> DEFINE b == v[0]
<1>1. b \in 0 .. 255
  BY DEF Bytes8
<1> HIDE DEF b
<1>2. (b % 2) + 2 * ((b \div 2) % 2) + 4 * ((b \div 4) % 2) + 8 * ((b \div 8) % 2)
      + 16 * ((b \div 16) % 2) + 32 * ((b \div 32) % 2) + 64 * ((b \div 64) % 2)
      + 128 * ((b \div 128) % 2) = b
  BY <1>1
<1> QED
  BY <1>2 DEF val_byte_of, modbus_read_input_bits, b

\* A read that succeeds gives all eight bytes of current_val the value the slave
\* keeps, whatever the width and the order of the source, but for the bytes of a
\* single register (iface_modbus_read_data).
LEMMA ReadGivesHeld ==
    ASSUME source \in Sources, held \in SlaveValues
    PROVE  /\ iface_modbus_read_data = IF OneRegisterExchanged THEN Exchanged(Held) ELSE Held
           /\ Held \in Bytes8
           /\ Exchanged(Held) \in Bytes8
<1>0. /\ source.bits \in {1, 8, 16, 32, 64} /\ source.type \in EndiannessTypes
      /\ held \in Bytes8
  BY InterfaceAssumption
<1>0a. Held \in Bytes8 => Exchanged(Held) \in Bytes8
  BY DEF Exchanged, Bytes8
<1>0b. source.bits # 16 => ~OneRegisterExchanged
  BY DEF OneRegisterExchanged
<1>1. CASE source.bits = 1
  <2>1. Held = [p \in 0 .. 7 |-> IF p = 0 THEN held[0] % 2 ELSE 0]
    BY <1>1 DEF Held
  <2>2. held[0] % 2 \in 0 .. 255
    BY <1>0 DEF Bytes8
  <2>3. iface_modbus_read_data = tmp([p \in {0} |-> held[0] % 2], 1)
    BY <1>0, <1>1, BitsOfByte DEF iface_modbus_read_data
  <2> QED
    BY <1>0a, <1>0b, <1>1, <2>1, <2>2, <2>3 DEF tmp, Bytes8
<1>2. CASE source.bits # 1
  <2>0. Held = [p \in 0 .. 7 |-> IF 8 * p < source.bits THEN held[p] ELSE 0]
    BY <1>2 DEF Held
  <2>0b. Held \in Bytes8
    BY <1>0, <2>0 DEF Bytes8
  <2>0a. Held \in Bytes8 /\ Exchanged(Held) \in Bytes8
    BY <1>0a, <2>0b
  <2>1. CASE source.bits = 8
    <3>1. iface_modbus_read_data = tmp([p \in {0} |-> held[0]], 1)
      BY <1>0, <2>1, BitsOfByte DEF iface_modbus_read_data
    <3> QED
      BY <1>0b, <2>0, <2>0a, <2>1, <3>1 DEF tmp
  <2>2. CASE source.bits = 16
    <3> DEFINE bytes == Registers(2)
    <3>1. iface_modbus_read_data = tmp(bytes, 2)
      BY <2>2 DEF iface_modbus_read_data
    <3>2. CASE source.type \in {"BIG", "MID_LITTLE"}
      <4>1. bytes[0] = held[0] /\ bytes[1] = held[1]
        BY <3>2 DEF Registers, modbus_read_registers, SlaveRegisters
      <4>2. ~OneRegisterExchanged
        BY <3>2 DEF OneRegisterExchanged
      <4> HIDE DEF bytes
      <4> QED
        BY <2>0, <2>0a, <2>2, <3>1, <4>1, <4>2 DEF tmp
    <3>3. CASE source.type \in {"MID_BIG", "LITTLE"}
      <4>1. bytes[0] = held[1] /\ bytes[1] = held[0]
        BY <3>3 DEF Registers, modbus_read_registers, SlaveRegisters
      <4>2. OneRegisterExchanged
        BY <2>2, <3>3 DEF OneRegisterExchanged
      <4>3. Exchanged(Held) = [p \in 0 .. 7 |-> IF p = 0 THEN held[1]
                                              ELSE IF p = 1 THEN held[0] ELSE 0]
        BY <2>0, <2>2 DEF Exchanged
      <4> HIDE DEF bytes
      <4>4. tmp(bytes, 2) = [p \in 0 .. 7 |-> IF p = 0 THEN held[1]
                                            ELSE IF p = 1 THEN held[0] ELSE 0]
        BY <4>1 DEF tmp
      <4> QED
        BY <2>0a, <3>1, <4>2, <4>3, <4>4
    <3> QED
      BY <1>0, <3>2, <3>3 DEF EndiannessTypes
  <2>3. CASE source.bits = 32
    <3> DEFINE bytes == iface_modbus_config_endianness_type_recv_32_bits(
                            Registers(4), source.type)
    <3>1. iface_modbus_read_data = tmp(bytes, 4)
      BY <2>3 DEF iface_modbus_read_data
    <3>2. \A p \in 0 .. 3 : bytes[p] = held[p]
      BY <1>0, Corrects32 DEF Registers
    <3> HIDE DEF bytes
    <3> QED
      BY <1>0b, <2>0, <2>0a, <2>3, <3>1, <3>2 DEF tmp
  <2>4. CASE source.bits = 64
    <3> DEFINE bytes == iface_modbus_config_endianness_type_recv_64_bits(
                            Registers(8), source.type)
    <3>1. iface_modbus_read_data = tmp(bytes, 8)
      BY <2>4 DEF iface_modbus_read_data
    <3>2. \A p \in 0 .. 7 : bytes[p] = held[p]
      BY <1>0, Corrects64 DEF Registers
    <3> HIDE DEF bytes
    <3> QED
      BY <1>0b, <2>0, <2>0a, <2>4, <3>1, <3>2 DEF tmp
  <2> QED
    BY <1>0, <1>2, <2>1, <2>2, <2>3, <2>4
<1> QED
  BY <1>1, <1>2

DataTypeOK ==
    source \in Sources /\ held \in SlaveValues /\ out \in Bytes8 /\ seen \in Bytes8

\* The interface keeps its types: current_val has all of its eight bytes after every
\* read, and the number of sockets never gets below zero.
THEOREM InterfaceTypeCorrect == IfaceSpec => []IfaceTypeOK
<1>1. IfaceInit => DataTypeOK
  BY DEF IfaceInit, DataTypeOK, Zero, Bytes8
<1>2. DataTypeOK /\ [IfaceNext]_iface_vars => DataTypeOK'
  <2> SUFFICES ASSUME DataTypeOK, [IfaceNext]_iface_vars PROVE DataTypeOK'
    OBVIOUS
  <2>1. CASE Link
    BY <2>1 DEF Link, DataTypeOK, Zero, Bytes8
  <2>2. ASSUME NEW ok \in BOOLEAN, Read(ok) PROVE DataTypeOK'
    BY <2>2, ReadGivesHeld DEF Read, DataTypeOK
  <2>3. CASE SlaveChanges
    BY <2>3 DEF SlaveChanges, DataTypeOK
  <2>4. CASE UNCHANGED iface_vars
    BY <2>4 DEF iface_vars, data_vars, DataTypeOK
  <2> QED
    BY <2>1, <2>2, <2>3, <2>4 DEF IfaceNext
<1>3. LinkInv /\ DataTypeOK => IfaceTypeOK
  BY DEF LinkInv, DataTypeOK, IfaceTypeOK
<1> QED
  BY <1>1, <1>2, <1>3, LinkInvAlways, PTL DEF IfaceSpec

\* What a read leaves in the item, with the one case in which it is not the value.
Decoded == out = IF OneRegisterExchanged THEN Exchanged(seen) ELSE seen

\* Each read, and each start, sets the item and what is known of the slave together.
LEMMA DecodedAlways == IfaceSpec => []Decoded
<1>1. IfaceInit => Decoded
  <2>1. Exchanged(Zero) = Zero
    BY DEF Exchanged, Zero
  <2> QED
    BY <2>1 DEF IfaceInit, Decoded
<1>2. IfaceTypeOK /\ Decoded /\ [IfaceNext]_iface_vars => Decoded'
  <2> SUFFICES ASSUME IfaceTypeOK, Decoded, [IfaceNext]_iface_vars PROVE Decoded'
    OBVIOUS
  <2>0. source' = source
    BY DEF IfaceNext, Link, Read, SlaveChanges, iface_vars, data_vars
  <2>1. CASE UNCHANGED <<out, seen>>
    BY <2>0, <2>1 DEF Decoded, OneRegisterExchanged, Exchanged
  <2>2. CASE out' = Zero /\ seen' = Zero
    <3>1. Exchanged(Zero) = Zero
      BY DEF Exchanged, Zero
    <3> QED
      BY <2>2, <3>1 DEF Decoded, Exchanged
  <2>3. CASE out' = iface_modbus_read_data /\ seen' = Held
    <3>1. iface_modbus_read_data = IF OneRegisterExchanged THEN Exchanged(Held) ELSE Held
      BY ReadGivesHeld DEF IfaceTypeOK
    <3>2. OneRegisterExchanged' = OneRegisterExchanged
      BY <2>0 DEF OneRegisterExchanged
    <3> QED
      BY <2>3, <3>1, <3>2 DEF Decoded, Exchanged
  <2> QED
    BY <2>1, <2>2, <2>3 DEF IfaceNext, Link, Read, SlaveChanges, iface_vars, data_vars
<1> QED
  BY <1>1, <1>2, InterfaceTypeCorrect, PTL DEF IfaceSpec

\* An item has the value that the slave kept when it was last read, for every value,
\* every width and every order, but for a single register in an order that
\* exchanges its bytes (iface_modbus_read_data).
THEOREM ReadsAlwaysHeld == IfaceSpec => []ReadsWhatSlaveKeeps
<1>1. Decoded => ReadsWhatSlaveKeeps
  BY DEF Decoded, ReadsWhatSlaveKeeps
<1> QED
  BY <1>1, DecodedAlways, PTL

\* And what that exception means: an item of 16 bits whose ModbusTypeEndianness is
\* mid-big or little endian always has the two bytes of the slave's value exchanged,
\* since TYPE_U16 of iface_modbus_read_data does not look at endianness_type.
THEOREM OneRegisterNotCorrected ==
    IfaceSpec => [](OneRegisterExchanged => out = Exchanged(seen))
<1>1. Decoded => (OneRegisterExchanged => out = Exchanged(seen))
  BY DEF Decoded
<1> QED
  BY <1>1, DecodedAlways, PTL
=============================================================================
