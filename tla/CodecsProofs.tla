---------------------------- MODULE CodecsProofs ----------------------------
(***************************************************************************)
(* Messages of every length come through padding, cipher and frame, and    *)
(* keys through Base64, for every cipher of blocks whose decryption undoes *)
(* its encryption.                                                         *)
(***************************************************************************)
EXTENDS Codecs, SequenceTheorems, TLAPS

\* The cipher of one block is one.
Cipher == \A b \in Blocks : /\ BlockEncrypt(b) \in Blocks
                            /\ BlockDecrypt(BlockEncrypt(b)) = b

-----------------------------------------------------------------------------
(* Blocks of a sequence. *)

\* A block of a message, and what is in it.
LEMMA ABlock ==
  ASSUME NEW d \in Bytes, NEW s \in Nat, s + 16 <= Len(d)
  PROVE  /\ SubSeq(d, s + 1, s + 16) \in Blocks
         /\ \A j \in 1..16 : SubSeq(d, s + 1, s + 16)[j] = d[s + j]
<1> DEFINE b == SubSeq(d, s + 1, s + 16)
<1>1. Len(d) \in Nat /\ \A j \in 1..Len(d) : d[j] \in Byte
  BY DEF Bytes
<1>2. s + 1 \in Int /\ s + 16 \in Int /\ \A j \in s + 1 .. s + 16 : d[j] \in Byte
  BY <1>1
<1>3. /\ b \in Seq(Byte)
      /\ Len(b) = 16
      /\ \A j \in 1..16 : b[j] = d[s + j]
  <2>1. /\ b \in Seq(Byte)
        /\ Len(b) = IF s + 1 <= s + 16 THEN (s + 16) - (s + 1) + 1 ELSE 0
        /\ \A j \in 1 .. (s + 16) - (s + 1) + 1 : b[j] = d[(s + 1) + j - 1]
    <3> HIDE DEF b
    <3> QED  BY <1>2, SubSeqProperties DEF b
  <2> QED  BY <2>1
<1>4. b \in Blocks
  <2>1. b \in [1..Len(b) -> Byte]
    BY <1>3, LenProperties
  <2> QED  BY <2>1, <1>3 DEF Blocks, Block
<1> QED  BY <1>3, <1>4

\* Blocks are equal when their bytes are.
LEMMA SameBlock ==
  ASSUME NEW x \in Blocks, NEW y \in Blocks, \A j \in 1..16 : x[j] = y[j]
  PROVE  x = y
BY DEF Blocks, Block

BlockAt(d, s) == SubSeq(d, s + 1, s + 16)

\* The same 16 bytes at two places are the same block.
LEMMA AlikeBlocks ==
  ASSUME NEW p \in Bytes, NEW q \in Bytes, NEW s \in Nat, NEW t \in Nat,
         s + 16 <= Len(p), t + 16 <= Len(q),
         \A j \in 1..16 : p[s + j] = q[t + j]
  PROVE  BlockAt(p, s) = BlockAt(q, t)
<1> DEFINE x == SubSeq(p, s + 1, s + 16)
           y == SubSeq(q, t + 1, t + 16)
<1>1. x \in Blocks /\ y \in Blocks
  BY ABlock
<1>2. \A j \in 1..16 : x[j] = y[j]
  <2>1. \A j \in 1..16 : x[j] = p[s + j] /\ y[j] = q[t + j]
    BY ABlock
  <2> HIDE DEF x, y
  <2> QED  BY <2>1
<1>3. x = y
  <2> HIDE DEF x, y
  <2> QED  BY <1>1, <1>2, SameBlock
<1> QED  BY <1>3 DEF BlockAt

\* What a concatenation holds.
LEMMA TwoParts ==
  ASSUME NEW a \in Bytes, NEW b \in Bytes
  PROVE  /\ a \o b \in Bytes
         /\ Len(a \o b) = Len(a) + Len(b)
         /\ \A k \in 1..Len(a) : (a \o b)[k] = a[k]
         /\ \A k \in 1..Len(b) : (a \o b)[Len(a) + k] = b[k]
BY DEF Bytes

\* A byte of whole blocks lies in one that is whole.
LEMMA StartOf ==
  ASSUME NEW n \in Nat, n % 16 = 0, NEW k \in 1..n
  PROVE  /\ ((k - 1) \div 16) * 16 \in Nat
         /\ ((k - 1) \div 16) * 16 + 16 <= n
         /\ k - ((k - 1) \div 16) * 16 \in 1..16
  OBVIOUS

\* The bytes of a block have its start.
LEMMA SameStart ==
  ASSUME NEW s \in Nat, s % 16 = 0, NEW j \in 1..16
  PROVE  ((s + j - 1) \div 16) * 16 = s
  OBVIOUS

\* Whole blocks before it move a block, and no byte within it.
LEMMA LaterStart ==
  ASSUME NEW n \in Nat, n % 16 = 0, NEW k \in Nat \ {0}
  PROVE  /\ ((n + k - 1) \div 16) * 16 = n + ((k - 1) \div 16) * 16
         /\ (n + k) - ((n + k - 1) \div 16) * 16 = k - ((k - 1) \div 16) * 16
OBVIOUS

\* AES_Encrypt of whole blocks, byte by byte.
LEMMA Encrypted ==
  ASSUME Cipher, NEW d \in Bytes, Len(d) % 16 = 0
  PROVE  /\ AES_Encrypt(d) \in Bytes
         /\ Len(AES_Encrypt(d)) = Len(d)
         /\ \A k \in 1..Len(d) :
              AES_Encrypt(d)[k] =
                LET s == ((k - 1) \div 16) * 16
                IN  BlockEncrypt(SubSeq(d, s + 1, s + 16))[k - s]
<1> DEFINE At(k) == LET s == ((k - 1) \div 16) * 16
                    IN  BlockEncrypt(SubSeq(d, s + 1, s + 16))[k - s]
<1>1. Len(d) \in Nat
  BY DEF Bytes
<1>2. AES_Encrypt(d) = [k \in 1..Len(d) |-> At(k)]
  <2>1. Whole(d) = Len(d)
    BY <1>1 DEF Whole, Block
  <2>2. \A k \in 1..Len(d) : k <= Whole(d)
    BY <1>1, <2>1
  <2> QED  BY <2>2 DEF AES_Encrypt, Start, Block
<1>3. \A k \in 1..Len(d) : At(k) \in Byte
  <2> TAKE k \in 1..Len(d)
  <2> DEFINE s == ((k - 1) \div 16) * 16
  <2>1. s \in Nat /\ s + 16 <= Len(d) /\ k - s \in 1..16
    BY <1>1, StartOf
  <2> HIDE DEF s
  <2>2. SubSeq(d, s + 1, s + 16) \in Blocks
    BY <2>1, ABlock
  <2>3. BlockEncrypt(SubSeq(d, s + 1, s + 16)) \in [1..16 -> Byte]
    BY <2>2 DEF Cipher, Blocks, Block
  <2>4. BlockEncrypt(SubSeq(d, s + 1, s + 16))[k - s] \in Byte
    BY <2>1, <2>3
  <2> QED  BY <2>4 DEF s
<1> HIDE DEF At
<1>4. /\ AES_Encrypt(d) \in Seq(Byte)
      /\ Len(AES_Encrypt(d)) = Len(d)
      /\ \A k \in 1..Len(d) : AES_Encrypt(d)[k] = At(k)
  BY <1>1, <1>2, <1>3
<1> QED  BY <1>4 DEF Bytes, At

\* AES_Encrypt of whole blocks, block by block.
LEMMA EncryptedBlock ==
  ASSUME Cipher, NEW d \in Bytes, Len(d) % 16 = 0,
         NEW s \in Nat, s % 16 = 0, s + 16 <= Len(d)
  PROVE  SubSeq(AES_Encrypt(d), s + 1, s + 16)
           = BlockEncrypt(SubSeq(d, s + 1, s + 16))
<1> DEFINE c == AES_Encrypt(d)
           b == SubSeq(d, s + 1, s + 16)
<1>1. Len(d) \in Nat
  BY DEF Bytes
<1>2. /\ c \in Bytes
      /\ Len(c) = Len(d)
      /\ \A k \in 1..Len(d) : c[k] = LET t == ((k - 1) \div 16) * 16
                                     IN  BlockEncrypt(SubSeq(d, t + 1, t + 16))[k - t]
  BY Encrypted
<1>3. /\ SubSeq(c, s + 1, s + 16) \in Blocks
      /\ \A j \in 1..16 : SubSeq(c, s + 1, s + 16)[j] = c[s + j]
  <2> HIDE DEF c
  <2> QED  BY <1>2, ABlock
<1>4. BlockEncrypt(b) \in Blocks
  <2>1. b \in Blocks
    BY ABlock
  <2> QED  BY <2>1 DEF Cipher
<1>5. \A j \in 1..16 : c[s + j] = BlockEncrypt(b)[j]
  <2> TAKE j \in 1..16
  <2>1. ((s + j - 1) \div 16) * 16 = s
    BY SameStart
  <2>2. s + j \in 1..Len(d) /\ (s + j) - s = j
    BY <1>1
  <2> DEFINE t == ((s + j - 1) \div 16) * 16
  <2>3. t = s
    BY <2>1
  <2>4. c[s + j] = BlockEncrypt(SubSeq(d, t + 1, t + 16))[(s + j) - t]
    <3> HIDE DEF c
    <3> QED  BY <1>2, <2>2
  <2> HIDE DEF t, c
  <2>5. c[s + j] = BlockEncrypt(SubSeq(d, s + 1, s + 16))[(s + j) - s]
    BY <2>3, <2>4
  <2> QED  BY <2>2, <2>5
<1> DEFINE e == SubSeq(c, s + 1, s + 16)
<1>6. e = BlockEncrypt(b)
  <2>1. e \in Blocks
    BY <1>3
  <2>2. \A j \in 1..16 : e[j] = BlockEncrypt(b)[j]
    <3> HIDE DEF c, b
    <3> QED  BY <1>3, <1>5
  <2> HIDE DEF e, b
  <2> QED  BY <1>4, <2>1, <2>2, SameBlock
<1> QED  BY <1>6

\* Decryption undoes encryption of whole blocks.
LEMMA Undone ==
  ASSUME Cipher, NEW d \in Bytes, Len(d) % 16 = 0
  PROVE  AES_Decrypt(AES_Encrypt(d)) = d
<1> DEFINE c == AES_Encrypt(d)
<1>1. Len(d) \in Nat /\ c \in Bytes /\ Len(c) = Len(d)
  BY Encrypted DEF Bytes
<1> DEFINE At(k) == LET s == ((k - 1) \div 16) * 16
                    IN  BlockDecrypt(SubSeq(c, s + 1, s + 16))[k - s]
<1>2. AES_Decrypt(c) = [k \in 1..Len(c) |-> At(k)]
  <2> HIDE DEF c
  <2>1. Len(c) % Block = 0
    BY <1>1 DEF Block
  <2>2. \A k \in 1..Len(c) : k > 0 /\ k - 0 - 1 = k - 1
    BY <1>1
  <2>3. \A k \in 1..Len(c) : 0 + ((k - 1) \div 16) * 16 = ((k - 1) \div 16) * 16
    BY <1>1
  <2> QED  BY <2>1, <2>2, <2>3 DEF AES_Decrypt, Start, Block
<1>3. \A k \in 1..Len(d) : At(k) = d[k]
  <2> TAKE k \in 1..Len(d)
  <2> DEFINE s == ((k - 1) \div 16) * 16
  <2>1. s \in Nat /\ s + 16 <= Len(d) /\ k - s \in 1..16 /\ s % 16 = 0 /\ s + (k - s) = k
    <3>1. s % 16 = 0
      BY <1>1
    <3> QED  BY <1>1, <3>1, StartOf
  <2> HIDE DEF s
  <2>2. SubSeq(c, s + 1, s + 16) = BlockEncrypt(SubSeq(d, s + 1, s + 16))
    BY <2>1, EncryptedBlock
  <2>3. /\ SubSeq(d, s + 1, s + 16) \in Blocks
        /\ \A j \in 1..16 : SubSeq(d, s + 1, s + 16)[j] = d[s + j]
    BY <2>1, ABlock
  <2>4. BlockDecrypt(SubSeq(c, s + 1, s + 16)) = SubSeq(d, s + 1, s + 16)
    BY <2>2, <2>3 DEF Cipher
  <2>5. BlockDecrypt(SubSeq(c, s + 1, s + 16))[k - s] = d[k]
    BY <2>1, <2>3, <2>4
  <2> QED  BY <2>5 DEF s
<1> HIDE DEF At, c
<1>4. AES_Decrypt(c) = [k \in 1..Len(d) |-> d[k]]
  BY <1>1, <1>2, <1>3
<1>5. d = [k \in 1..Len(d) |-> d[k]]
  BY DEF Bytes
<1> QED  BY <1>4, <1>5 DEF c


-----------------------------------------------------------------------------
(* Two parts of which the first is whole blocks are encrypted one by one. *)

\* What is encrypted in one piece and in two.
LEMMA Joined ==
  ASSUME Cipher, NEW a \in Bytes, NEW b \in Bytes, Len(a) % 16 = 0, Len(b) % 16 = 0
  PROVE  AES_Encrypt(a \o b) = AES_Encrypt(a) \o AES_Encrypt(b)
<1> DEFINE ab == a \o b
           s(k) == ((k - 1) \div 16) * 16
           left == AES_Encrypt(ab)
           right == AES_Encrypt(a) \o AES_Encrypt(b)
<1>1. /\ Len(a) \in Nat /\ Len(b) \in Nat
      /\ ab \in Bytes
      /\ Len(ab) = Len(a) + Len(b)
      /\ \A k \in 1..Len(a) : ab[k] = a[k]
      /\ \A k \in 1..Len(b) : ab[Len(a) + k] = b[k]
  BY TwoParts DEF Bytes
<1>2. Len(ab) % 16 = 0
  BY <1>1
<1>3. /\ AES_Encrypt(a) \in Bytes /\ Len(AES_Encrypt(a)) = Len(a)
      /\ \A k \in 1..Len(a) :
           AES_Encrypt(a)[k] = BlockEncrypt(SubSeq(a, s(k) + 1, s(k) + 16))[k - s(k)]
  BY Encrypted
<1>4. /\ AES_Encrypt(b) \in Bytes /\ Len(AES_Encrypt(b)) = Len(b)
      /\ \A k \in 1..Len(b) :
           AES_Encrypt(b)[k] = BlockEncrypt(SubSeq(b, s(k) + 1, s(k) + 16))[k - s(k)]
  BY Encrypted
<1>5. /\ left \in Bytes /\ Len(left) = Len(ab)
      /\ \A k \in 1..Len(ab) :
           left[k] = BlockEncrypt(SubSeq(ab, s(k) + 1, s(k) + 16))[k - s(k)]
  <2> HIDE DEF ab
  <2> QED  BY <1>1, <1>2, Encrypted
<1>6. /\ right \in Bytes /\ Len(right) = Len(ab)
      /\ \A k \in 1..Len(a) : right[k] = AES_Encrypt(a)[k]
      /\ \A k \in 1..Len(b) : right[Len(a) + k] = AES_Encrypt(b)[k]
  <2> DEFINE x == AES_Encrypt(a)
             y == AES_Encrypt(b)
  <2>1. /\ x \in Bytes /\ y \in Bytes
        /\ Len(x) = Len(a) /\ Len(y) = Len(b)
    BY <1>3, <1>4
  <2>2. /\ x \o y \in Bytes
        /\ Len(x \o y) = Len(x) + Len(y)
        /\ \A k \in 1..Len(x) : (x \o y)[k] = x[k]
        /\ \A k \in 1..Len(y) : (x \o y)[Len(x) + k] = y[k]
    <3> HIDE DEF x, y
    <3> QED  BY <2>1, TwoParts
  <2> HIDE DEF ab, x, y
  <2>3. right = x \o y
    BY DEF x, y
  <2> HIDE DEF right
  <2>4. /\ right \in Bytes /\ Len(right) = Len(ab)
        /\ \A k \in 1..Len(a) : right[k] = x[k]
        /\ \A k \in 1..Len(b) : right[Len(a) + k] = y[k]
    BY <1>1, <2>1, <2>2, <2>3
  <2> QED  BY <2>4 DEF x, y
<1>7. \A t \in Nat : t + 16 <= Len(a) => SubSeq(ab, t + 1, t + 16) = SubSeq(a, t + 1, t + 16)
  <2> SUFFICES ASSUME NEW t \in Nat, t + 16 <= Len(a)
               PROVE  SubSeq(ab, t + 1, t + 16) = SubSeq(a, t + 1, t + 16)
    OBVIOUS
  <2> HIDE DEF ab
  <2>1. \A j \in 1..16 : t + j \in 1..Len(a)
    BY <1>1
  <2>2. t + 16 <= Len(ab)
    BY <1>1
  <2>3. ab \in Bytes /\ \A j \in 1..16 : ab[t + j] = a[t + j]
    BY <1>1, <2>1
  <2>4. BlockAt(ab, t) = BlockAt(a, t)
    BY <2>2, <2>3, AlikeBlocks
  <2> QED  BY <2>4 DEF BlockAt
<1>8. \A t \in Nat : t + 16 <= Len(b) =>
        SubSeq(ab, Len(a) + t + 1, Len(a) + t + 16) = SubSeq(b, t + 1, t + 16)
  <2> SUFFICES ASSUME NEW t \in Nat, t + 16 <= Len(b)
               PROVE  SubSeq(ab, Len(a) + t + 1, Len(a) + t + 16) = SubSeq(b, t + 1, t + 16)
    OBVIOUS
  <2> DEFINE u == Len(a) + t
  <2>1. \A j \in 1..16 : t + j \in 1..Len(b) /\ u + j = Len(a) + (t + j)
    BY <1>1
  <2>2. u \in Nat /\ u + 16 <= Len(ab)
    BY <1>1
  <2> HIDE DEF ab, u
  <2>3. \A j \in 1..16 : ab[u + j] = b[t + j]
    BY <1>1, <2>1
  <2>4. ab \in Bytes
    BY <1>1
  <2>5. SubSeq(ab, u + 1, u + 16) = SubSeq(b, t + 1, t + 16)
    <3>1. BlockAt(ab, u) = BlockAt(b, t)
      BY <2>2, <2>3, <2>4, AlikeBlocks
    <3> QED  BY <3>1 DEF BlockAt
  <2> QED  BY <2>5 DEF u
<1>9. \A k \in 1..Len(a) : left[k] = right[k]
  <2> TAKE k \in 1..Len(a)
  <2> HIDE DEF ab, left, right
  <2>1. s(k) \in Nat /\ s(k) + 16 <= Len(a) /\ k \in 1..Len(ab)
    <3>1. s(k) \in Nat /\ s(k) + 16 <= Len(a)
      BY <1>1, StartOf
    <3> QED  BY <1>1, <3>1
  <2> HIDE DEF s
  <2> QED  BY <1>3, <1>5, <1>6, <1>7, <2>1
<1>10. \A k \in 1..Len(b) : left[Len(a) + k] = right[Len(a) + k]
  <2> TAKE k \in 1..Len(b)
  <2> DEFINE n == Len(a) + k
  <2> HIDE DEF ab, left, right
  <2>1. s(k) \in Nat /\ s(k) + 16 <= Len(b) /\ n \in 1..Len(ab)
    <3>1. s(k) \in Nat /\ s(k) + 16 <= Len(b)
      BY <1>1, StartOf
    <3> QED  BY <1>1, <3>1
  <2>2. s(n) = Len(a) + s(k) /\ n - s(n) = k - s(k)
    <3>1. k \in Nat \ {0} /\ Len(a) \in Nat
      BY <1>1
    <3> QED  BY <3>1, LaterStart
  <2> HIDE DEF s, n
  <2>3. left[n] = BlockEncrypt(SubSeq(b, s(k) + 1, s(k) + 16))[k - s(k)]
    BY <1>5, <1>8, <2>1, <2>2
  <2> QED  BY <1>4, <1>6, <2>1, <2>3 DEF n
<1>11. \A k \in 1..Len(ab) : left[k] = right[k]
  <2> TAKE k \in 1..Len(ab)
  <2> HIDE DEF ab, left, right
  <2>1. CASE k <= Len(a)
    BY <1>1, <1>9, <2>1
  <2>2. CASE k > Len(a)
    <3>1. k - Len(a) \in 1..Len(b) /\ Len(a) + (k - Len(a)) = k
      BY <1>1, <2>2
    <3> QED  BY <1>10, <3>1
  <2> QED  BY <1>1, <2>1, <2>2
<1>12. left = right
  <2> HIDE DEF ab, left, right
  <2> QED  BY <1>5, <1>6, <1>11, SeqEqual DEF Bytes
<1> QED  BY <1>12

-----------------------------------------------------------------------------
(* The padding. *)

\* What is missing to the next whole block.
LEMMA Missing ==
  ASSUME NEW n \in Nat
  PROVE  16 - (n % 16) \in 1..16 /\ (n + (16 - (n % 16))) % 16 = 0
  OBVIOUS

\* What dataFiling_pkcs5padding makes of a message.
LEMMA Padded ==
  ASSUME NEW d \in Bytes
  PROVE  LET f == dataFiling_pkcs5padding(d)
         IN  /\ f \in Bytes
             /\ Len(f) % 16 = 0
             /\ Len(f) \in Len(d) + 1 .. Len(d) + 16
             /\ f[Len(f)] = Len(f) - Len(d)
             /\ SubSeq(f, 1, Len(d)) = d
<1> DEFINE a == 16 - (Len(d) % 16)
           fill == [k \in 1..a |-> a]
           f == d \o fill
<1>1. Len(d) \in Nat /\ a \in 1..16 /\ (Len(d) + a) % 16 = 0
  <2>1. Len(d) \in Nat
    BY DEF Bytes
  <2> QED  BY <2>1, Missing
<1>2. fill \in Bytes /\ Len(fill) = a /\ fill[a] = a
  <2> HIDE DEF a
  <2>1. a \in Byte
    BY <1>1 DEF Byte
  <2> QED  BY <1>1, <2>1 DEF Bytes
<1>3. f = dataFiling_pkcs5padding(d)
  BY DEF dataFiling_pkcs5padding, Block
<1> HIDE DEF a, fill
<1>4. /\ f \in Bytes /\ Len(f) = Len(d) + a
      /\ f[Len(d) + a] = a
      /\ \A k \in 1..Len(d) : f[k] = d[k]
  BY <1>1, <1>2 DEF Bytes
<1>5. SubSeq(f, 1, Len(d)) = d
  <2> DEFINE g == SubSeq(f, 1, Len(d))
  <2>1. g \in Seq(Byte) /\ Len(g) = Len(d) /\ \A k \in 1..Len(d) : g[k] = f[k]
    <3> HIDE DEF f
    <3> QED  BY <1>1, <1>4 DEF Bytes
  <2>2. \A k \in 1..Len(d) : g[k] = d[k]
    <3> HIDE DEF f, g
    <3> QED  BY <1>4, <2>1
  <2>3. g = d
    <3> HIDE DEF g
    <3> QED  BY <2>1, <2>2, SeqEqual DEF Bytes
  <2> QED  BY <2>3
<1> HIDE DEF f
<1>6. /\ f \in Bytes
      /\ Len(f) % 16 = 0
      /\ Len(f) \in Len(d) + 1 .. Len(d) + 16
      /\ f[Len(f)] = Len(f) - Len(d)
      /\ SubSeq(f, 1, Len(d)) = d
  BY <1>1, <1>4, <1>5
<1> QED  BY <1>3, <1>6
-----------------------------------------------------------------------------
(* The frame. *)

\* The two bytes of a length or a checksum.
LEMMA InTwoBytes ==
  ASSUME NEW n \in Nat
  PROVE  (n \div 256) % 256 \in Byte /\ n % 256 \in Byte
BY DEF Byte

\* The payload of a frame lies between its header and its checksum.
LEMMA Middle ==
  ASSUME NEW p \in Bytes, NEW c \in Bytes, NEW q \in Bytes, Len(p) = 3, Len(q) = 2
  PROVE  Payload((p \o c) \o q) = c
<1> DEFINE pc == p \o c
           whole == pc \o q
           mid == SubSeq(whole, 4, Len(whole) - 2)
<1>1. Len(c) \in Nat
  BY DEF Bytes
<1>2. pc \in Bytes /\ Len(pc) = 3 + Len(c) /\ \A k \in 1..Len(c) : pc[3 + k] = c[k]
  <2>1. /\ pc \in Bytes /\ Len(pc) = Len(p) + Len(c)
        /\ \A k \in 1..Len(c) : pc[Len(p) + k] = c[k]
    BY TwoParts
  <2> HIDE DEF pc
  <2> QED  BY <2>1
<1> HIDE DEF pc
<1>3. /\ whole \in Bytes /\ Len(whole) = 5 + Len(c)
      /\ \A k \in 1..Len(pc) : whole[k] = pc[k]
  <2>1. /\ whole \in Bytes /\ Len(whole) = Len(pc) + Len(q)
        /\ \A k \in 1..Len(pc) : whole[k] = pc[k]
    BY <1>2, TwoParts
  <2> HIDE DEF whole
  <2> QED  BY <1>1, <1>2, <2>1
<1> HIDE DEF whole
<1>4. \A k \in 1..Len(c) : whole[3 + k] = c[k]
  <2> TAKE k \in 1..Len(c)
  <2>1. 3 + k \in 1..Len(pc)
    BY <1>1, <1>2
  <2> QED  BY <1>2, <1>3, <2>1
<1>5. mid \in Bytes /\ Len(mid) = Len(c) /\ \A k \in 1..Len(c) : mid[k] = whole[3 + k]
  BY <1>1, <1>3 DEF Bytes
<1>6. mid = c
  <2> HIDE DEF mid
  <2> QED  BY <1>4, <1>5, SeqEqual DEF Bytes
<1> QED  BY <1>6 DEF Payload, whole, pc

-----------------------------------------------------------------------------
(* The theorems. *)

\* What the server encrypts by the standard the lock reads back, whatever its
\* length (myaes_decrypt, of commands and of the session's key).
THEOREM PkcsReadBack ==
  ASSUME Cipher, NEW d \in Bytes
  PROVE  myaes_decrypt(Pkcs(d)) = d
<1> DEFINE f == dataFiling_pkcs5padding(d)
<1>1. /\ f \in Bytes
      /\ Len(f) % 16 = 0
      /\ f[Len(f)] = Len(f) - Len(d)
      /\ SubSeq(f, 1, Len(d)) = d
      /\ Len(d) \in Nat /\ Len(f) \in Nat
  <2>1. /\ f \in Bytes
        /\ Len(f) % 16 = 0
        /\ f[Len(f)] = Len(f) - Len(d)
        /\ SubSeq(f, 1, Len(d)) = d
    BY Padded
  <2> HIDE DEF f
  <2> QED  BY <2>1 DEF Bytes
<1>2. Pkcs(d) = AES_Encrypt(f)
  BY DEF Pkcs
<1> HIDE DEF f
<1>3. AES_Decrypt(Pkcs(d)) = f
  BY <1>1, <1>2, Undone
<1>4. dataRemove_pkcs5padding(f) = Len(d)
  BY <1>1 DEF dataRemove_pkcs5padding
<1> QED  BY <1>1, <1>3, <1>4 DEF myaes_decrypt

\* What the lock encrypts is what the standard says, unless the message has
\* exactly one block (myaes_encrypt; its test is > 16).
THEOREM EncryptIsPkcs ==
  ASSUME Cipher, NEW d \in Bytes, NEW res \in Bytes, Len(d) /= 16
  PROVE  myaes_encrypt(d, res) = Pkcs(d)
<1> DEFINE i == Whole(d)
           head == SubSeq(d, 1, i)
           tail == SubSeq(d, i + 1, Len(d))
           fill == [k \in 1 .. 16 - (Len(d) % 16) |-> 16 - (Len(d) % 16)]
<1>0. Len(d) \in Nat
  BY DEF Bytes
<1>1. /\ Len(d) \in Nat /\ i \in 0..Len(d) /\ i % 16 = 0
      /\ Len(d) < 16 => i = 0
      /\ (Len(d) - i) % 16 = Len(d) % 16
  BY DEF Bytes, Whole, Block
<1> HIDE DEF i
<1>2. /\ head \in Bytes /\ Len(head) = i
      /\ tail \in Bytes /\ Len(tail) = Len(d) - i
      /\ d = head \o tail
  <2>1. head \in Bytes /\ Len(head) = i
    BY <1>1 DEF Bytes
  <2>2. tail \in Bytes /\ Len(tail) = Len(d) - i
    BY <1>1 DEF Bytes
  <2>3. \A k \in 1..i : head[k] = d[k]
    BY <1>1 DEF Bytes
  <2>4. \A k \in 1..Len(d) - i : tail[k] = d[i + k]
    BY <1>1 DEF Bytes
  <2> HIDE DEF head, tail
  <2> DEFINE ht == head \o tail
  <2>5. /\ ht \in Bytes
        /\ Len(ht) = Len(head) + Len(tail)
        /\ \A k \in 1..Len(head) : ht[k] = head[k]
        /\ \A k \in 1..Len(tail) : ht[Len(head) + k] = tail[k]
    BY <2>1, <2>2, TwoParts
  <2> HIDE DEF ht
  <2>6. \A k \in 1..Len(d) : ht[k] = d[k]
    <3> TAKE k \in 1..Len(d)
    <3>1. CASE k <= i
      BY <1>1, <2>1, <2>3, <2>5, <3>1
    <3>2. CASE k > i
      <4>1. k - i \in 1..Len(d) - i /\ i + (k - i) = k
        BY <1>1, <3>2
      <4> DEFINE j == k - i
      <4>2. j \in 1..Len(tail) /\ j \in 1..Len(d) - i /\ i + j = k /\ Len(head) = i
        BY <2>1, <2>2, <4>1
      <4> HIDE DEF j
      <4>3. ht[Len(head) + j] = tail[j] /\ tail[j] = d[i + j]
        BY <2>4, <2>5, <4>2
      <4> QED  BY <4>2, <4>3
    <3> QED  BY <1>1, <3>1, <3>2
  <2>7. Len(ht) = Len(d)
    BY <1>1, <2>1, <2>2, <2>5
  <2>8. ht = d
    BY <2>5, <2>6, <2>7, SeqEqual DEF Bytes
  <2> QED  BY <2>1, <2>2, <2>8 DEF ht
<1> HIDE DEF head, tail
<1>3. dataFiling_pkcs5padding(d) = head \o dataFiling_pkcs5padding(tail)
  <2>1. dataFiling_pkcs5padding(d) = d \o fill
    BY DEF dataFiling_pkcs5padding, Block
  <2>2. dataFiling_pkcs5padding(tail) = tail \o fill
    BY <1>1, <1>2 DEF dataFiling_pkcs5padding, Block
  <2>3. fill \in Seq(Byte)
    <3> DEFINE a == 16 - (Len(d) % 16)
    <3>1. a \in 1..16
      BY <1>0, Missing
    <3> HIDE DEF a
    <3>2. a \in Byte
      BY <3>1 DEF Byte
    <3>3. [k \in 1..a |-> a] \in Seq(Byte)
      BY <3>1, <3>2
    <3> QED  BY <3>3 DEF a
  <2> HIDE DEF fill
  <2>4. (head \o tail) \o fill = head \o (tail \o fill)
    <3>1. head \in Seq(Byte) /\ tail \in Seq(Byte)
      BY <1>2 DEF Bytes
    <3> HIDE DEF head, tail
    <3>2. \A x, y, z \in Seq(Byte) : (x \o y) \o z = x \o (y \o z)
      BY ConcatAssociative
    <3> QED  BY <2>3, <3>1, <3>2, Zenon
  <2> QED  BY <1>2, <2>1, <2>2, <2>4
<1>4. /\ dataFiling_pkcs5padding(tail) \in Bytes
      /\ Len(dataFiling_pkcs5padding(tail)) % 16 = 0
  BY <1>2, Padded
<1>5. Pkcs(d) = AES_Encrypt(head) \o AES_Encrypt(dataFiling_pkcs5padding(tail))
  BY <1>1, <1>2, <1>3, <1>4, Joined DEF Pkcs
<1>6. CASE Len(d) > 16
  BY <1>5, <1>6 DEF myaes_encrypt, Block, i, head, tail
<1>7. CASE Len(d) < 16
  <2>1. i = 0 /\ SubSeq(res, 1, i) = << >>
    BY <1>1, <1>7, SubSeqEmpty
  <2>2. head = << >> /\ AES_Encrypt(head) = << >>
    <3>1. head \in Bytes /\ Len(head) = 0 /\ AES_Encrypt(head) \in Bytes
          /\ Len(AES_Encrypt(head)) = 0
      BY <1>1, <1>2, <2>1, Encrypted
    <3> QED  BY <3>1, EmptySeq DEF Bytes
  <2>3. myaes_encrypt(d, res)
          = SubSeq(res, 1, i) \o AES_Encrypt(dataFiling_pkcs5padding(tail))
    <3>1. ~ (Len(d) > Block)
      BY <1>0, <1>7 DEF Block
    <3> QED  BY <3>1 DEF myaes_encrypt, i, tail
  <2> QED  BY <1>5, <2>1, <2>2, <2>3
<1>8. Len(d) > 16 \/ Len(d) < 16
  <2>1. \A n \in Nat : n /= 16 => n > 16 \/ n < 16
    OBVIOUS
  <2> QED  BY <1>0, <2>1
<1> QED  BY <1>6, <1>7, <1>8

\* Who opens a frame of the lock (assembleWebMsg) as the lock opens the
\* server's (newwebhandle_entry) finds the message, whatever the CRC is and
\* whatever the buffer held, unless the message has exactly one block.
THEOREM MessageComesThrough ==
  ASSUME Cipher, \A f \in Bytes : Crc(f) \in Nat,
         NEW msg \in Bytes, NEW res \in Bytes, Len(msg) /= 16
  PROVE  myaes_decrypt(Payload(assembleWebMsg(msg, res))) = msg
<1> DEFINE held == SubSeq(res, 4, Len(res))
           c == myaes_encrypt(msg, held)
           p == <<2, (Len(c) \div 256) % 256, Len(c) % 256>>
           f == p \o c
           q == <<(Crc(f) \div 256) % 256, Crc(f) % 256>>
<1>1. held \in Bytes
  BY DEF Bytes
<1> HIDE DEF held
<1>2. c = Pkcs(msg)
  BY <1>1, EncryptIsPkcs
<1>3. c \in Bytes
  <2> DEFINE d == dataFiling_pkcs5padding(msg)
  <2>1. d \in Bytes /\ Len(d) % 16 = 0
    BY Padded
  <2> HIDE DEF d
  <2>2. AES_Encrypt(d) \in Bytes
    BY <2>1, Encrypted
  <2> QED  BY <1>2, <2>2 DEF Pkcs, d
<1> HIDE DEF c
<1>4. p \in Bytes /\ Len(p) = 3
  <2>1. Len(c) \in Nat
    BY <1>3 DEF Bytes
  <2>2. (Len(c) \div 256) % 256 \in Byte /\ Len(c) % 256 \in Byte
    BY <2>1, InTwoBytes
  <2>3. 2 \in Byte
    BY DEF Byte
  <2> QED  BY <2>2, <2>3 DEF Bytes
<1> HIDE DEF p
<1>5. f \in Bytes
  BY <1>3, <1>4, TwoParts
<1> HIDE DEF f
<1>6. q \in Bytes /\ Len(q) = 2
  <2>1. Crc(f) \in Nat
    BY <1>5
  <2>2. (Crc(f) \div 256) % 256 \in Byte /\ Crc(f) % 256 \in Byte
    BY <2>1, InTwoBytes
  <2> QED  BY <2>2 DEF Bytes
<1> HIDE DEF q
<1>7. assembleWebMsg(msg, res) = (p \o c) \o q
  BY DEF assembleWebMsg, held, c, p, f, q
<1>8. Payload(assembleWebMsg(msg, res)) = c
  BY <1>3, <1>4, <1>6, <1>7, Middle
<1> QED  BY <1>2, <1>8, PkcsReadBack

-----------------------------------------------------------------------------
(* Base64. *)

\* Three bytes as one number, and the number as three bytes.
LEMMA ThreeBytes ==
  ASSUME NEW a \in Byte, NEW b \in Byte, NEW c \in Byte, NEW w, w = 65536 * a + 256 * b + c
  PROVE  /\ w \in Nat /\ w < 16777216
         /\ (w \div 65536) % 256 = a
         /\ (w \div 256) % 256 = b
         /\ (w \div 1) % 256 = c
BY SMTT(60) DEF Byte

\* The number as four characters, and the characters as the number.
LEMMA FourCharacters ==
  ASSUME NEW w \in Nat, w < 16777216
  PROVE  w = 262144 * ((w \div 262144) % 64) + 4096 * ((w \div 4096) % 64)
               + 64 * ((w \div 64) % 64) + ((w \div 1) % 64)
BY SMTT(60)

\* The characters that are left out are those of no bit.
LEMMA LeftOut ==
  ASSUME NEW a \in Byte, NEW b \in Byte
  PROVE  /\ ((65536 * a + 256 * 0 + 0) \div 64) % 64 = 0
         /\ ((65536 * a + 256 * b + 0) \div 1) % 64 = 0
BY SMTT(60) DEF Byte

\* The characters of d, one by one.
LEMMA InCharacters ==
  ASSUME NEW d \in Bytes
  PROVE  /\ Len(Sextets(d)) = (8 * Len(d) + 5) \div 6
         /\ \A k \in 1 .. (8 * Len(d) + 5) \div 6 :
              Sextets(d)[k] = (Bits(d, 3 * ((k - 1) \div 4))
                                 \div <<262144, 4096, 64, 1>>[1 + ((k - 1) % 4)]) % 64
<1>1. Len(d) \in Nat
  BY DEF Bytes
<1> DEFINE n == (8 * Len(d) + 5) \div 6
           At(k) == (Bits(d, 3 * ((k - 1) \div 4))
                       \div <<262144, 4096, 64, 1>>[1 + ((k - 1) % 4)]) % 64
<1>2. n \in Nat
  BY <1>1
<1>3. Sextets(d) = [k \in 1..n |-> At(k)]
  BY DEF Sextets
<1> HIDE DEF n, At
<1>4. Len(Sextets(d)) = n /\ \A k \in 1..n : Sextets(d)[k] = At(k)
  BY <1>2, <1>3
<1> QED BY <1>4 DEF n, At

\* The three bytes that begin behind g, and their characters put together.
LEMMA Group ==
  ASSUME NEW d \in Bytes, NEW q \in Nat, 3*q < Len(d)
  PROVE  LET byte(n) == IF 3*q + n <= Len(d) THEN d[3*q + n] ELSE 0
             w == Bits(d, 3*q)
         IN  /\ w \in Nat /\ w < 16777216
             /\ (w \div 65536) % 256 = byte(1)
             /\ (w \div 256) % 256 = byte(2)
             /\ (w \div 1) % 256 = byte(3)
             /\ Temp(Sextets(d), 4*q) = w
<1> DEFINE byte(n) == IF 3*q + n <= Len(d) THEN d[3*q + n] ELSE 0
           w == Bits(d, 3*q)
           s == Sextets(d)
           c(n) == IF 4*q + n <= Len(s) THEN s[4*q + n] ELSE 0
           six(n) == (w \div <<262144, 4096, 64, 1>>[n]) % 64
<1>1. Len(d) \in Nat /\ \A n \in 1..Len(d) : d[n] \in Byte
  BY DEF Bytes
<1>2. \A n \in 1..3 : byte(n) \in Byte
  BY <1>1 DEF Byte
<1>3. w = 65536 * byte(1) + 256 * byte(2) + byte(3)
  BY DEF Bits
<1>4. /\ w \in Nat /\ w < 16777216
      /\ (w \div 65536) % 256 = byte(1)
      /\ (w \div 256) % 256 = byte(2)
      /\ (w \div 1) % 256 = byte(3)
  <2> HIDE DEF byte, w
  <2> QED BY <1>2, <1>3, ThreeBytes
<1>5. Len(s) = (8 * Len(d) + 5) \div 6
  BY InCharacters
<1>6. \A n \in 1..4 : 4*q + n <= Len(s) <=> 3*q + n <= Len(d) + 1
  <2> HIDE DEF s
  <2> QED BY <1>1, <1>5
<1>7. \A n \in 1..4 : 4*q + n <= Len(s) => s[4*q + n] = six(n)
  <2> SUFFICES ASSUME NEW n \in 1..4, 4*q + n <= Len(s) PROVE s[4*q + n] = six(n)
    OBVIOUS
  <2> DEFINE k == 4*q + n
  <2>1. (k - 1) \div 4 = q /\ 1 + ((k - 1) % 4) = n /\ k \in 1..Len(s)
    <3> HIDE DEF s
    <3> QED BY <1>1, <1>5
  <2>2. k \in 1 .. (8 * Len(d) + 5) \div 6
    <3> HIDE DEF s, k
    <3> QED BY <1>5, <2>1
  <2> HIDE DEF k
  <2>3. Sextets(d)[k] = (Bits(d, 3 * ((k - 1) \div 4))
                           \div <<262144, 4096, 64, 1>>[1 + ((k - 1) % 4)]) % 64
    BY <2>2, InCharacters
  <2>4. Sextets(d)[k] = six(n)
    BY <2>1, <2>3
  <2> QED BY <2>4 DEF k
<1>8. /\ six(1) = (w \div 262144) % 64 /\ six(2) = (w \div 4096) % 64
      /\ six(3) = (w \div 64) % 64 /\ six(4) = (w \div 1) % 64
  <2> HIDE DEF w
  <2> QED OBVIOUS
<1> HIDE DEF six, s
<1>9. c(1) = six(1) /\ c(2) = six(2)
  BY <1>1, <1>6, <1>7
<1>10. c(3) = six(3)
  <2>1. CASE 3*q + 2 <= Len(d)
    BY <1>1, <1>6, <1>7, <2>1
  <2>2. CASE 3*q + 2 > Len(d)
    <3>1. c(3) = 0 /\ byte(2) = 0 /\ byte(3) = 0
      BY <1>1, <1>6, <2>2
    <3>2. byte(1) \in Byte /\ byte(2) \in Byte
      BY <1>2
    <3> HIDE DEF byte, w, c
    <3>3. w = 65536 * byte(1) + 256 * 0 + 0
      BY <1>3, <3>1
    <3>4. (w \div 64) % 64 = 0
      BY <3>2, <3>3, LeftOut
    <3> QED BY <1>8, <3>1, <3>4
  <2> QED BY <1>1, <2>1, <2>2
<1>11. c(4) = six(4)
  <2>1. CASE 3*q + 3 <= Len(d)
    BY <1>1, <1>6, <1>7, <2>1
  <2>2. CASE 3*q + 3 > Len(d)
    <3>1. c(4) = 0 /\ byte(3) = 0
      BY <1>1, <1>6, <2>2
    <3>2. byte(1) \in Byte /\ byte(2) \in Byte
      BY <1>2
    <3> HIDE DEF byte, w, c
    <3>3. w = 65536 * byte(1) + 256 * byte(2) + 0
      BY <1>3, <3>1
    <3>4. (w \div 1) % 64 = 0
      BY <3>2, <3>3, LeftOut
    <3> QED BY <1>8, <3>1, <3>4
  <2> QED BY <1>1, <2>1, <2>2
<1>12. Temp(s, 4*q) = 262144 * c(1) + 4096 * c(2) + 64 * c(3) + c(4)
  BY DEF Temp
<1>13. Temp(s, 4*q) = w
  <2>1. w = 262144 * ((w \div 262144) % 64) + 4096 * ((w \div 4096) % 64)
             + 64 * ((w \div 64) % 64) + ((w \div 1) % 64)
    <3> HIDE DEF w
    <3> QED BY <1>4, FourCharacters
  <2> HIDE DEF w, c
  <2>2. w = 262144 * six(1) + 4096 * six(2) + 64 * six(3) + six(4)
    BY <1>8, <2>1
  <2> QED BY <1>9, <1>10, <1>11, <1>12, <2>2
<1> QED BY <1>4, <1>13 DEF s

\* What Sextets made characters of the decoder makes bytes again.
LEMMA DecodedBack ==
  ASSUME NEW d \in Bytes
  PROVE  Decoded(Sextets(d)) = d
<1> DEFINE s == Sextets(d)
           At(k) == (Temp(s, 4 * ((k - 1) \div 3)) \div <<65536, 256, 1>>[1 + ((k - 1) % 3)]) % 256
<1>1. Len(d) \in Nat /\ Len(s) = (8 * Len(d) + 5) \div 6
  BY InCharacters DEF Bytes
<1>2. (6 * Len(s)) \div 8 = Len(d)
  <2> HIDE DEF s
  <2> QED BY <1>1
<1>3. Decoded(s) = [k \in 1..Len(d) |-> At(k)]
  BY <1>2 DEF Decoded
<1>4. ASSUME NEW k \in 1..Len(d) PROVE At(k) = d[k]
  <2> DEFINE q == (k - 1) \div 3
             r == (k - 1) % 3
             w == Bits(d, 3*q)
             byte(n) == IF 3*q + n <= Len(d) THEN d[3*q + n] ELSE 0
  <2>1. q \in Nat /\ r \in 0..2 /\ k = 3*q + 1 + r /\ 3*q < Len(d)
    BY <1>1
  <2> HIDE DEF q, r
  <2>2. /\ (w \div 65536) % 256 = byte(1)
        /\ (w \div 256) % 256 = byte(2)
        /\ (w \div 1) % 256 = byte(3)
        /\ Temp(s, 4*q) = w
    BY <2>1, Group
  <2> HIDE DEF w, s
  <2>3. (w \div <<65536, 256, 1>>[1 + r]) % 256 = d[k]
    BY <1>1, <2>1, <2>2
  <2>4. At(k) = (Temp(s, 4*q) \div <<65536, 256, 1>>[1 + r]) % 256
    BY DEF q, r
  <2> QED BY <2>2, <2>3, <2>4
<1> HIDE DEF At, s
<1>5. d = [k \in 1..Len(d) |-> d[k]]
  BY DEF Bytes
<1> QED BY <1>3, <1>4, <1>5 DEF s

\* The key of a session comes through, whatever it is and wherever its text is
\* broken: what is not passed over are the characters of the encrypted key
\* (newweb.c 195-200, base64.c 179-252).
THEOREM KeyComesThrough ==
  ASSUME Cipher, NEW key \in Bytes, NEW text,
         SelectSeq(text, Sextet) = Sextets(Pkcs(key))
  PROVE  SessionKey(text) = key
<1>1. Pkcs(key) \in Bytes
  <2>1. dataFiling_pkcs5padding(key) \in Bytes /\ Len(dataFiling_pkcs5padding(key)) % 16 = 0
    BY Padded
  <2> QED BY <2>1, Encrypted DEF Pkcs
<1>2. Base64_DecodeToUChArr(text) = Decoded(Sextets(Pkcs(key)))
  BY DEF Base64_DecodeToUChArr
<1>3. Base64_DecodeToUChArr(text) = Pkcs(key)
  BY <1>1, <1>2, DecodedBack
<1> QED BY <1>3, PkcsReadBack DEF SessionKey
=============================================================================
