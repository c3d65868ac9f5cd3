------------------------------ MODULE Checksum ------------------------------
(***************************************************************************)
(* The two CRC-16 of User/Bsp/CRC/CRC.c that compute without a table of    *)
(* 256: the one the frames carry, by half bytes, and the one by bits that  *)
(* says what is meant.                                                     *)
(***************************************************************************)
EXTENDS Naturals, Sequences, Bitwise, SequencesExt

polynom == 40961    \* 0xA001

Bit(crc) == IF crc % 2 = 1 THEN (crc \div 2) ^^ polynom ELSE crc \div 2

\* Not for an empty text, of which it takes the byte that happens to follow.
crc16bitbybit(ptr) ==
  FoldLeft(LAMBDA crc, byte : Bit(Bit(Bit(Bit(Bit(Bit(Bit(Bit(crc ^^ byte)))))))),
           65535, ptr)

\* Entry n is what four bits do to n.
crctalbeabs ==
  <<0, 52225, 55297, 5120, 61441, 15360, 10240, 58369,
    40961, 27648, 30720, 46081, 20480, 39937, 34817, 17408>>

HalfByte(crc, ch) == crctalbeabs[((ch ^^ crc) & 15) + 1] ^^ (crc \div 16)

crc16tablefast(ptr) ==
  FoldLeft(LAMBDA crc, ch : HalfByte(HalfByte(crc, ch), ch \div 16), 65535, ptr)
=============================================================================
