----------------------------- MODULE MCSession ------------------------------
(***************************************************************************)
(* The session, and under it the codecs of its frames for messages of      *)
(* every length up to three blocks and one byte.  Stand-ins take the place *)
(* of AES, for which any permutation of the blocks serves, and of the CRC  *)
(* of a frame, which nobody looks at; the CRC itself is checked below.     *)
(***************************************************************************)
EXTENDS WebSession

LOCAL INSTANCE Integers

K == INSTANCE Checksum

Turned(b)    == [k \in 1..16 |-> (b[17 - k] + 7 * k) % 256]
Returned(b)  == [k \in 1..16 |-> (b[17 - k] + 256 - 7 * (17 - k)) % 256]
Sum16(ptr)   == (257 * ptr[Len(ptr)] + Len(ptr)) % 65536

C == INSTANCE Codecs WITH BlockEncrypt <- Turned, BlockDecrypt <- Returned,
                          Crc <- Sum16

Message(n) == [k \in 1..n |-> (37 * k + n) % 256]
Held(n)    == [k \in 1..n |-> 255 - (k % 16)]

\* What the lock encrypts is what the standard says, but for the message of
\* exactly one block, whose block is what the buffer held before
\* (myaes.c 45: > 16 and not >= 16).
ASSUME EncryptIsPkcs ==
  \A n \in 1..49 :
    LET c == C!myaes_encrypt(Message(n), Held(64))
    IN  IF n = 16 THEN SubSeq(c, 1, 16) = SubSeq(Held(64), 1, 16)
                  ELSE c = C!Pkcs(Message(n))

\* What the server encrypts the lock reads back, whatever the length, and the
\* payload of a frame the lock assembles is its message.
ASSUME RoundTrip ==
  \A n \in 1..49 :
    /\ C!myaes_decrypt(C!Pkcs(Message(n))) = Message(n)
    /\ n /= 16 =>
         C!myaes_decrypt(C!Payload(C!assembleWebMsg(Message(n), Held(70)))) = Message(n)

\* A key comes through Base64, in one line or in lines of any length: what is
\* not passed over are its characters.
ASSUME KeyComesThrough ==
  /\ \A n \in 0..20 : C!Base64_DecodeToUChArr(C!Base64(Message(n))) = Message(n)
  /\ \A n \in 0..33 :
       LET c == C!Pkcs(Message(16))
           t == C!Base64(c)
           broken == SubSeq(t, 1, n) \o <<C!Other, C!Other>> \o SubSeq(t, n + 1, Len(t))
       IN  /\ SelectSeq(broken, C!Sextet) = C!Sextets(c)
           /\ C!SessionKey(broken) = Message(16)

\* The CRC by half bytes is the CRC by bits (CRC.c 94 and 7).
ASSUME SameCrc ==
  \A a \in C!Byte, b \in {0, 1, 85, 128, 255} :
    \A d \in {<<a>>, <<b, a>>, <<a, b, 170>>} :
      K!crc16tablefast(d) = K!crc16bitbybit(d)
=============================================================================
