------------------------------- MODULE Codecs -------------------------------
(***************************************************************************)
(* What lies between a message and the frame that carries it: the padding  *)
(* and the block-wise cipher (User/Bsp/AES), the frame (assembleWebMsg in  *)
(* User/Bsp/web/newweb.c) and the Base64 text in which the server sends    *)
(* the key of a session (User/Bsp/BASE64).  All are functions of their     *)
(* input, and of what the buffer of the result held before.                *)
(*                                                                         *)
(* The cipher of one block is a parameter: of AES the rest needs only that *)
(* one undoes the other.  The mode is ECB (AES.h 25), so the blocks are    *)
(* independent.                                                            *)
(***************************************************************************)
EXTENDS Integers, Sequences

CONSTANTS BlockEncrypt(_), BlockDecrypt(_),  \* the cipher of one block
          Crc(_)                             \* crc16tablefast

Block  == 16
Byte   == 0..255
Bytes  == Seq(Byte)
Blocks == [1..Block -> Byte]

\* The bytes of d that make whole blocks.
Whole(d) == Len(d) - (Len(d) % Block)

\* Where the block of the n-th byte begins, counted from 0.
Start(n) == (n \div Block) * Block

\* Encryption goes through the blocks from the front, decryption from the
\* back: bytes that make no whole block stay as they are, at the end for the
\* one and at the beginning for the other.
AES_Encrypt(d) ==
  [k \in 1..Len(d) |->
     LET s == Start(k - 1)
     IN  IF k <= Whole(d) THEN BlockEncrypt(SubSeq(d, s + 1, s + Block))[k - s]
                          ELSE d[k]]

AES_Decrypt(d) ==
  [k \in 1..Len(d) |->
     LET rest == Len(d) % Block
         s == rest + Start(k - rest - 1)
     IN  IF k > rest THEN BlockDecrypt(SubSeq(d, s + 1, s + Block))[k - s]
                     ELSE d[k]]

\* a bytes, each of them a, up to the next multiple of 16, at least one.
dataFiling_pkcs5padding(d) ==
  LET a == Block - (Len(d) % Block) IN d \o [k \in 1..a |-> a]

\* The length that is left; below 0 when the last byte exceeds it.
dataRemove_pkcs5padding(d) == Len(d) - d[Len(d)]

\* The last block is padded and encrypted for itself; the blocks before it
\* are encrypted only if the message has more than 16 bytes.  res is what the
\* buffer of the result held.
myaes_encrypt(d, res) ==
  LET i == Whole(d)
  IN  (IF Len(d) > Block THEN AES_Encrypt(SubSeq(d, 1, i)) ELSE SubSeq(res, 1, i))
        \o AES_Encrypt(dataFiling_pkcs5padding(SubSeq(d, i + 1, Len(d))))

myaes_decrypt(d) ==
  LET p == AES_Decrypt(d) IN SubSeq(p, 1, dataRemove_pkcs5padding(p))

\* The frame: 0x02, the length in two bytes, the encrypted message, the CRC of
\* all that in two bytes.
assembleWebMsg(msg, res) ==
  LET c == myaes_encrypt(msg, SubSeq(res, 4, Len(res)))
      f == <<2, (Len(c) \div 256) % 256, Len(c) % 256>> \o c
  IN  f \o <<(Crc(f) \div 256) % 256, Crc(f) % 256>>

\* What newwebhandle_entry takes out of a frame; it looks at neither the length
\* nor the CRC.
Payload(frame) == SubSeq(frame, 4, Len(frame) - 2)

\* Characters of a Base64 text: their six bits, or Other for '=', a line break
\* and whatever else the table does not have.
Other == 64

Sextet(c) == c /= Other

\* The four characters of s behind the first g as one number; those that are
\* missing at the end count 0, which the shifts by 4 and by 2 leave out.
Temp(s, g) ==
  LET c(n) == IF g + n <= Len(s) THEN s[g + n] ELSE 0
  IN  262144 * c(1) + 4096 * c(2) + 64 * c(3) + c(4)

\* Four characters make three bytes, the two or three that are left at the end
\* one or two, and a single one none.
Decoded(s) ==
  [k \in 1 .. (6 * Len(s)) \div 8 |->
     (Temp(s, 4 * ((k - 1) \div 3)) \div <<65536, 256, 1>>[1 + ((k - 1) % 3)]) % 256]

\* Others are passed over.
Base64_DecodeToUChArr(t) == Decoded(SelectSeq(t, Sextet))

\* The key of a session out of the answer to the token (newweb.c 195-200).
SessionKey(commkey) == myaes_decrypt(Base64_DecodeToUChArr(commkey))

-----------------------------------------------------------------------------
(* The other side, by the standards it follows. *)

\* AES in ECB mode with PKCS padding.
Pkcs(d) == AES_Encrypt(dataFiling_pkcs5padding(d))

\* Base64 (RFC 4648): three bytes in four characters, missing ones marked.
Bits(d, g) ==
  LET byte(n) == IF g + n <= Len(d) THEN d[g + n] ELSE 0
  IN  65536 * byte(1) + 256 * byte(2) + byte(3)

Sextets(d) ==
  [k \in 1 .. (8 * Len(d) + 5) \div 6 |->
     (Bits(d, 3 * ((k - 1) \div 4)) \div <<262144, 4096, 64, 1>>[1 + ((k - 1) % 4)]) % 64]

Base64(d) == Sextets(d) \o [k \in 1 .. (3 - (Len(d) % 3)) % 3 |-> Other]
=============================================================================
