---------------------------- MODULE PortCProofs -----------------------------
(***************************************************************************)
(* Theorems about the keypad and the flash on port C, for any keypad, and  *)
(* pages, sectors and a file system of any size.                           *)
(*                                                                         *)
(* The theorems of the keypad: what a scan takes is right whatever the     *)
(* flash does on the same port.  Those of the flash: a call of the disk    *)
(* layer leaves on the chip what it was given and reads what is there,     *)
(* unless a scan has moved the chip select, and when a scan may do so.     *)
(***************************************************************************)
EXTENDS PortC, SequenceTheorems, TLAPS

-----------------------------------------------------------------------------
\* The keypad.

Places == {"read_all", "write_all", "look", "again", "read", "write", "rows", "release", "return"}
Ports  == [cols : SUBSET Nat, sel : BOOLEAN]

PortTypes ==
    /\ odr \in Ports /\ word \in [Scanners -> Ports]
    /\ down \in Keys \cup {NoKey}
    /\ pc \in [Scanners -> Places] /\ col \in [Scanners -> Nat]

\* While a scan looks at a column it is the one that is driven; a press that
\* has been taken is the one whose release a scan awaits.
Driven(s)  == pc[s] \in {"rows", "release"} => odr.cols = {col[s]}
Awaited(s) == pc[s] = "release" /\ down[2] = col[s]

KeyInv == /\ PortTypes /\ right
          /\ \A s \in Scanners : Driven(s)
          /\ ~untaken /\ down # NoKey => \E s \in Scanners : Awaited(s)

\* No scan begins before another has ended.
InTurn == \A s, t \in Scanners : pc[s] # "read_all" /\ pc[t] # "read_all" => s = t

\* The same of the only scan that goes on.
Scanning(s) == Driven(s) /\ (~untaken /\ down # NoKey => Awaited(s))

LEMMA SelKeeps ==
    ASSUME NEW w \in Ports, NEW b \in BOOLEAN
    PROVE  [w EXCEPT !.sel = b] \in Ports /\ [w EXCEPT !.sel = b].cols = w.cols
BY DEF Ports

LEMMA WithColsIs ==
    ASSUME NEW w \in Ports, NEW cs \in SUBSET Nat
    PROVE  WithCols(w, cs) \in Ports /\ WithCols(w, cs).cols = cs
BY DEF Ports, WithCols

\* The flash and the chip leave the columns alone.
LEMMA OthersKeep ==
    ASSUME KeyInv, Disk \/ Finish, UNCHANGED keyVars
    PROVE  KeyInv'
<1>1. odr' \in Ports /\ odr'.cols = odr.cols
  <2>0. odr \in Ports
    BY DEF KeyInv, PortTypes
  <2>1. CASE Select
    BY <2>0, <2>1, SelKeeps DEF Select, Drive
  <2>2. CASE Deselect
    BY <2>0, <2>2, SelKeeps DEF Deselect, Drive
  <2>3. CASE Call \/ Shift \/ Finish
    BY <2>0, <2>3 DEF Call, disk_read, disk_write, Shift, Shifted, Finish, chipVars
  <2> QED BY <2>1, <2>2, <2>3 DEF Disk
<1> QED BY <1>1 DEF KeyInv, PortTypes, Driven, Awaited, keyVars

LEMMA UserKeeps ==
    ASSUME KeyInv, Press \/ Release
    PROVE  KeyInv'
<1>1. PortTypes' /\ right'
  BY DEF KeyInv, PortTypes, Press, Release, chipVars
<1>2. ASSUME NEW s \in Scanners PROVE Driven(s)'
  BY <1>2 DEF KeyInv, Driven, Press, Release, chipVars
<1>3. untaken' \/ down' = NoKey
  BY DEF Press, Release
<1> QED BY <1>1, <1>2, <1>3 DEF KeyInv

\* The row that answers is the pressed key's, and its column is driven.
LEMMA RowRight ==
    ASSUME PortTypes, NEW s \in Scanners, Scanning(s), pc[s] = "rows", RowsHigh # {}
    PROVE  /\ down # NoKey /\ untaken /\ down[2] = col[s]
           /\ <<CHOOSE r \in RowsHigh : TRUE, col[s]>> = down
<1>1. down # NoKey /\ down[2] \in odr.cols /\ RowsHigh = {down[1]}
  BY DEF RowsHigh
<1>2. odr.cols = {col[s]} /\ untaken
  BY <1>1 DEF Scanning, Driven, Awaited
<1>3. down \in Rows \X Cols
  BY <1>1 DEF PortTypes, Keys
<1>4. (CHOOSE r \in RowsHigh : TRUE) = down[1]
  BY <1>1
<1> QED BY <1>1, <1>2, <1>3, <1>4

LEMMA ScanKeeps ==
    ASSUME KeyInv, InTurn, InTurn', NEW s \in Scanners, KeyScan(s)
    PROVE  KeyInv'
<1>a. PortTypes /\ right
  BY DEF KeyInv
<1>b. /\ \A t \in Scanners \ {s} : pc'[t] = pc[t]
      /\ pc[s] = "read_all" => pc'[s] = "write_all"
  <2>1. \A there : Goto(s, there) => /\ \A t \in Scanners \ {s} : pc'[t] = pc[t]
                                    /\ pc'[s] = there
    BY <1>a DEF Goto, PortTypes
  <2> QED BY <2>1 DEF KeyScan, ReadAll, WriteAll, Look, ReadColumn, WriteColumn, ReadRows,
             AwaitRelease, NextColumn, Return
<1>c. \A t \in Scanners \ {s} : pc[t] = "read_all" /\ pc'[t] = "read_all"
  BY <1>b DEF InTurn
<1>0. PortTypes /\ Scanning(s) /\ right
  BY <1>a, <1>c DEF KeyInv, Scanning, Driven, Awaited, Awaited
<1>s. SUFFICES PortTypes' /\ right' /\ Scanning(s)'
  BY <1>c DEF KeyInv, Scanning, Driven, Awaited, Driven
<1>1. CASE ReadAll(s)
  <2>1. pc' \in [Scanners -> Places] /\ pc'[s] = "write_all"
    BY <1>0, <1>1 DEF Goto, Places, PortTypes, ReadAll
  <2>2. PortTypes' /\ right'
    BY <1>0, <1>1, <2>1 DEF ReadAll, PortTypes, chipVars
  <2>3. Scanning(s)'
    BY <1>0, <1>1, <2>1 DEF ReadAll, Scanning, Driven, Awaited, chipVars
  <2> QED BY <2>2, <2>3
<1>2. CASE WriteAll(s)
  <2>1. pc' \in [Scanners -> Places] /\ pc'[s] = "look"
    BY <1>0, <1>2 DEF Goto, Places, PortTypes, WriteAll
  <2>2. odr' \in Ports
    BY <1>0, <1>2, WithColsIs, FlashAssumption DEF WriteAll, Drive, PortTypes
  <2>3. PortTypes' /\ right'
    BY <1>0, <1>2, <2>1, <2>2 DEF WriteAll, PortTypes
  <2>4. Scanning(s)'
    BY <1>0, <1>2, <2>1 DEF WriteAll, Scanning, Driven, Awaited
  <2> QED BY <2>3, <2>4
<1>3. CASE Look(s)
  <2>1. pc' \in [Scanners -> Places] /\ pc'[s] \in {"read_all", "again", "read"}
    BY <1>0, <1>3 DEF Goto, Places, PortTypes, Look
  <2>2. PortTypes' /\ right'
    BY <1>0, <1>3, <2>1 DEF Look, PortTypes, chipVars
  <2>3. Scanning(s)'
    BY <1>0, <1>3, <2>1 DEF Look, Scanning, Driven, Awaited, chipVars
  <2> QED BY <2>2, <2>3
<1>4. CASE ReadColumn(s)
  <2>1. pc' \in [Scanners -> Places] /\ pc'[s] = "write"
    BY <1>0, <1>4 DEF Goto, Places, PortTypes, ReadColumn
  <2>2. PortTypes' /\ right'
    BY <1>0, <1>4, <2>1 DEF ReadColumn, PortTypes, chipVars
  <2>3. Scanning(s)'
    BY <1>0, <1>4, <2>1 DEF ReadColumn, Scanning, Driven, Awaited, chipVars
  <2> QED BY <2>2, <2>3
<1>5. CASE WriteColumn(s)
  <2>1. pc' \in [Scanners -> Places] /\ pc'[s] = "rows"
    BY <1>0, <1>5 DEF Goto, Places, PortTypes, WriteColumn
  <2>2. odr' \in Ports /\ odr'.cols = {col[s]}
    BY <1>0, <1>5, WithColsIs DEF WriteColumn, Drive, PortTypes
  <2>3. PortTypes' /\ right'
    BY <1>0, <1>5, <2>1, <2>2 DEF WriteColumn, PortTypes
  <2>4. Scanning(s)'
    BY <1>0, <1>5, <2>1, <2>2 DEF WriteColumn, Scanning, Driven, Awaited
  <2> QED BY <2>3, <2>4
<1>6. CASE ReadRows(s)
  <2>1. pc' \in [Scanners -> Places] /\ pc'[s] = "release"
    BY <1>0, <1>6 DEF Goto, Places, PortTypes, ReadRows
  <2>2. PortTypes'
    BY <1>0, <1>6, <2>1 DEF ReadRows, PortTypes, chipVars
  <2>3. CASE \E r \in Rows : RowsHigh = {r}
    <3>1. /\ down # NoKey /\ untaken /\ down[2] = col[s]
          /\ <<CHOOSE r \in RowsHigh : TRUE, col[s]>> = down
      BY <1>0, <1>6, <2>3, RowRight DEF ReadRows
    <3>2. right'
      BY <1>0, <1>6, <2>3, <3>1, Zenon DEF ReadRows
    <3>3. Scanning(s)'
      BY <1>0, <1>6, <2>1, <3>1 DEF ReadRows, Scanning, Driven, Awaited, chipVars
    <3> QED BY <2>2, <3>2, <3>3
  <2>4. CASE ~\E r \in Rows : RowsHigh = {r}
    <3>1. right' = right /\ untaken' = untaken
      BY <1>6, <2>4 DEF ReadRows
    <3>2. Scanning(s)'
      BY <1>0, <1>6, <2>1, <3>1 DEF ReadRows, Scanning, Driven, Awaited, chipVars
    <3> QED BY <1>0, <2>2, <3>1, <3>2
  <2> QED BY <2>3, <2>4
<1>7. CASE AwaitRelease(s)
  <2>1. pc' \in [Scanners -> Places] /\ pc'[s] \in {"return", "read"}
    BY <1>0, <1>7 DEF Goto, Places, PortTypes, AwaitRelease, NextColumn
  <2>2. PortTypes' /\ right'
    <3>1. (IF col[s] = LastCol THEN 0 ELSE col[s] + 1) \in Nat
      BY <1>0 DEF PortTypes
    <3>2. col' = [col EXCEPT ![s] = IF col[s] = LastCol THEN 0 ELSE col[s] + 1]
      BY <1>7 DEF AwaitRelease, NextColumn
    <3>3. col' \in [Scanners -> Nat]
      BY <1>0, <3>1, <3>2 DEF PortTypes
    <3> QED BY <1>0, <1>7, <2>1, <3>3 DEF AwaitRelease, NextColumn, PortTypes, chipVars
  <2>3. untaken \/ down = NoKey
    BY <1>0, <1>7 DEF AwaitRelease, RowsHigh, Scanning, Driven, Awaited
  <2>4. Scanning(s)'
    BY <1>0, <1>7, <2>1, <2>3 DEF AwaitRelease, NextColumn, Scanning, Driven, Awaited, chipVars
  <2> QED BY <2>2, <2>4
<1>8. CASE Return(s)
  <2>1. pc' \in [Scanners -> Places] /\ pc'[s] = "read_all"
    BY <1>0, <1>8 DEF Goto, Places, PortTypes, Return
  <2>2. PortTypes' /\ right'
    BY <1>0, <1>8, <2>1 DEF Return, PortTypes, chipVars
  <2>3. Scanning(s)'
    BY <1>0, <1>8, <2>1 DEF Return, Scanning, Driven, Awaited, chipVars
  <2> QED BY <2>2, <2>3
<1> QED BY <1>1, <1>2, <1>3, <1>4, <1>5, <1>6, <1>7, <1>8 DEF KeyScan

\* Scans that do not overlap take the key that is pressed and each press once
\* (Key.c:25-80), however many threads scan, for any columns and rows and a flash
\* of any size, whether the flash waits for a scan to end or cuts in anywhere.
THEOREM KeyTakenInTurn == Spec /\ []InTurn => []KeyTrue
<1>1. Init => KeyInv
  <2> SUFFICES ASSUME Init PROVE KeyInv
    OBVIOUS
  <2>1. odr \in Ports /\ word \in [Scanners -> Ports]
    BY DEF Init, ChipInit, KeypadInit, Ports
  <2>2. right /\ down = NoKey /\ pc = [s \in Scanners |-> "read_all"] /\ col = [s \in Scanners |-> 0]
    BY DEF Init, KeypadInit
  <2> QED BY <2>1, <2>2 DEF KeyInv, PortTypes, Driven, Places
<1>2. KeyInv /\ InTurn /\ InTurn' /\ [Next]_vars => KeyInv'
  <2> SUFFICES ASSUME KeyInv, InTurn, InTurn', [Next]_vars PROVE KeyInv'
    OBVIOUS
  <2>1. CASE Scan
    BY <2>1, ScanKeeps DEF Scan
  <2>2. CASE User
    BY <2>2, UserKeeps DEF User
  <2>3. CASE Chip \/ (Disk /\ UNCHANGED <<keyVars, flipped>>)
    BY <2>3, OthersKeep DEF Chip
  <2>4. CASE UNCHANGED vars
    BY <2>4 DEF KeyInv, PortTypes, Driven, Awaited, vars, chipVars, keyVars
  <2> QED BY <2>1, <2>2, <2>3, <2>4 DEF Next
<1>3. KeyInv => KeyTrue
  BY DEF KeyInv, KeyTrue
<1> QED BY <1>1, <1>2, <1>3, PTL DEF Spec

-----------------------------------------------------------------------------
\* Sectors and pages.

PerSector == SectorSize \div PageSize
Start(s) == s * SectorSize
Off(q) == q * PageSize

LEMMA Divides ==
    ASSUME NEW u \in Nat \ {0}, NEW m \in Nat, NEW j \in 0..u-1
    PROVE  (m*u + j) \div u = m /\ (m*u + j) % u = j
OBVIOUS

LEMMA DivideBy ==
    ASSUME NEW u \in Nat \ {0}, NEW m \in Nat, NEW k \in Nat
    PROVE  k \div u = m <=> k \in m*u..m*u+u-1
OBVIOUS

LEMMA Thirds ==
    ASSUME NEW q \in Nat, NEW r \in 1..3
    PROVE  (3*q + r - 1) \div 3 = q /\ ((3*q + r - 1) % 3) + 1 = r
OBVIOUS

LEMMA Sizes ==
    /\ PageSize \in Nat \ {0} /\ SectorSize \in Nat \ {0} /\ Sectors \in Nat \ {0}
    /\ PerSector \in Nat \ {0} /\ SectorSize = PerSector * PageSize
    /\ SectorSize % PageSize = 0 /\ u16(SectorSize) = SectorSize
<1>1. PageSize \in Nat \ {0} /\ SectorSize \in Nat \ {0} /\ Sectors \in Nat \ {0} /\ SectorSize % PageSize = 0
  BY FlashAssumption
<1>2. PerSector \in Nat /\ SectorSize = PerSector * PageSize
  BY <1>1 DEF PerSector
<1>3. PerSector # 0
  BY <1>1, <1>2
<1>4. u16(SectorSize) = SectorSize
  BY <1>1 DEF u16
<1> QED BY <1>1, <1>2, <1>3, <1>4

LEMMA Offs ==
    /\ Off(0) = 0 /\ Off(PerSector) = SectorSize
    /\ \A q \in 0..PerSector :
         /\ Off(q) \in 0..SectorSize /\ Off(q + 1) = Off(q) + PageSize
         /\ q < PerSector => Off(q) + PageSize <= SectorSize
BY Sizes DEF Off

LEMMA Starts ==
    ASSUME NEW s \in 0..Sectors-1
    PROVE  /\ Start(s) \in Nat /\ Start(s) % PageSize = 0
           /\ Start(s) + SectorSize <= Sectors * SectorSize
           /\ \A q \in 0..PerSector : Start(s) + Off(q) = (s*PerSector + q) * PageSize
           /\ \A k \in Nat : k \div SectorSize = Start(s) \div SectorSize
                               <=> k \in Start(s)..Start(s)+SectorSize-1
<1>0. s \in Nat /\ s + 1 <= Sectors
  BY Sizes
<1>1. Start(s) \in Nat /\ Start(s) + SectorSize <= Sectors * SectorSize
  BY <1>0, Sizes DEF Start
<1>2. Start(s) = (s*PerSector) * PageSize /\ s*PerSector \in Nat
  BY <1>0, Sizes DEF Start
<1>3. Start(s) % PageSize = 0
  <2> DEFINE m == s*PerSector
  <2>1. m \in Nat /\ Start(s) = m*PageSize
    BY <1>2
  <2> HIDE DEF m
  <2>2. PageSize \in Nat \ {0} /\ 0 \in 0..PageSize-1 /\ m \in Nat
    BY <2>1, Sizes
  <2>3. (m*PageSize + 0) % PageSize = 0
    BY <2>2, Divides
  <2>4. m*PageSize + 0 = m*PageSize
    BY <2>2
  <2> QED BY <2>1, <2>3, <2>4
<1>4. \A q \in 0..PerSector : Start(s) + Off(q) = (s*PerSector + q) * PageSize
  BY <1>2, Sizes DEF Off
<1>5. Start(s) \div SectorSize = s
  BY <1>0, Sizes DEF Start
<1>6. \A k \in Nat : k \div SectorSize = s <=> k \in Start(s)..Start(s)+SectorSize-1
  BY <1>0, Sizes, DivideBy DEF Start
<1> QED BY <1>1, <1>3, <1>4, <1>5, <1>6


LEMMA Inside ==
    ASSUME NEW s \in 0..Sectors-1, NEW q \in 0..PerSector
    PROVE  /\ Off(q) \in Nat /\ Start(s) + Off(q) \in Nat /\ Off(q) <= SectorSize
           /\ q < PerSector => Off(q) + PageSize <= SectorSize
<1>1. Off(q) \in 0..SectorSize /\ (q < PerSector => Off(q) + PageSize <= SectorSize)
  BY Offs
<1>2. Start(s) \in Nat /\ SectorSize \in Nat
  BY Starts, Sizes
<1> QED BY <1>1, <1>2

-----------------------------------------------------------------------------
\* What is shifted in.
Bytes == Nat \cup [data : Nat, at : Nat]
Ops   == {"wren", "status", "erase", "program"}
Sent  == [op : Ops, addr : Nat, data : Seq(Bytes)]

Program(b, from, a, n) == [op |-> "program", addr |-> a, data |-> SubSeq(b, from + 1, from + n)]

LEMMA OpIs ==
    ASSUME NEW o \in Ops, NEW a \in Nat
    PROVE  /\ Op(o) \in Sent /\ Op(o).op = o
           /\ [Op(o) EXCEPT !.addr = a] \in Sent
           /\ [Op(o) EXCEPT !.addr = a].op = o /\ [Op(o) EXCEPT !.addr = a].addr = a
           /\ Op(o).data # <<>> /\ [Op(o) EXCEPT !.addr = a].data # <<>>
<1>1. <<1>> \in Seq(Bytes) /\ <<1>> # <<>>
  <2>1. 1 \in Bytes
    BY DEF Bytes
  <2> QED BY <2>1
<1>2. Op(o) = [op |-> o, addr |-> 0, data |-> <<1>>]
  BY DEF Op
<1>3. [Op(o) EXCEPT !.addr = a] = [op |-> o, addr |-> a, data |-> <<1>>]
  BY <1>2
<1> DEFINE one == <<1>>
<1>4. one \in Seq(Bytes) /\ one # <<>> /\ Op(o) = [op |-> o, addr |-> 0, data |-> one]
      /\ [Op(o) EXCEPT !.addr = a] = [op |-> o, addr |-> a, data |-> one]
  BY <1>1, <1>2, <1>3
<1> HIDE DEF one
<1>5. [op |-> o, addr |-> 0, data |-> one] \in Sent /\ [op |-> o, addr |-> a, data |-> one] \in Sent
  BY <1>4 DEF Sent
<1> QED BY <1>4, <1>5

LEMMA Joined ==
    ASSUME NEW S, NEW x \in Seq(S), NEW y \in Seq(S)
    PROVE  /\ x \o y \in Seq(S) /\ Len(x \o y) = Len(x) + Len(y)
           /\ \A i \in 1..Len(x) : (x \o y)[i] = x[i]
           /\ \A i \in 1..Len(y) : (x \o y)[Len(x) + i] = y[i]
<1>1. /\ x \o y \in Seq(S) /\ Len(x \o y) = Len(x) + Len(y)
      /\ \A i \in 1..Len(x) + Len(y) : (x \o y)[i] = IF i <= Len(x) THEN x[i] ELSE y[i - Len(x)]
  BY ConcatProperties
<1>2. Len(x) \in Nat /\ Len(y) \in Nat
  OBVIOUS
<1>3. ASSUME NEW i \in 1..Len(x) PROVE (x \o y)[i] = x[i]
  BY <1>1, <1>2, i \in 1..Len(x) + Len(y)
<1>4. ASSUME NEW i \in 1..Len(y) PROVE (x \o y)[Len(x) + i] = y[i]
  BY <1>1, <1>2, Len(x) + i \in 1..Len(x) + Len(y), ~(Len(x) + i <= Len(x)), (Len(x) + i) - Len(x) = i
<1> QED BY <1>1, <1>3, <1>4

LEMMA OneMore ==
    ASSUME NEW S, NEW x \in Seq(S), NEW n \in Nat, Len(x) = n, NEW z \in S
    PROVE  /\ x \o <<z>> \in Seq(S) /\ Len(x \o <<z>>) = n + 1
           /\ \A i \in 1..n : (x \o <<z>>)[i] = x[i]
           /\ (x \o <<z>>)[n + 1] = z
<1> DEFINE y == <<z>>
<1>1. y \in Seq(S) /\ Len(y) = 1 /\ y[1] = z /\ 1 \in 1..Len(y)
  OBVIOUS
<1> HIDE DEF y
<1>2. /\ x \o y \in Seq(S) /\ Len(x \o y) = n + 1
      /\ \A i \in 1..n : (x \o y)[i] = x[i]
      /\ (x \o y)[n + 1] = z
  BY <1>1, Joined
<1> QED BY <1>2 DEF y

LEMMA Triple ==
    ASSUME NEW S, NEW x \in S, NEW y \in S, NEW z \in S
    PROVE  /\ <<x>> \o <<y>> \o <<z>> \in Seq(S) /\ Len(<<x>> \o <<y>> \o <<z>>) = 3
           /\ (<<x>> \o <<y>> \o <<z>>)[1] = x
           /\ (<<x>> \o <<y>> \o <<z>>)[2] = y
           /\ (<<x>> \o <<y>> \o <<z>>)[3] = z
<1> DEFINE f == <<x>>  g == f \o <<y>>
<1>1. f \in Seq(S) /\ Len(f) = 1 /\ f[1] = x
  OBVIOUS
<1>2. g \in Seq(S) /\ Len(g) = 2 /\ g[1] = x /\ g[2] = y
  <2> HIDE DEF f
  <2>1. /\ g \in Seq(S) /\ Len(g) = 1 + 1
        /\ \A i \in 1..1 : g[i] = f[i]
        /\ g[1 + 1] = y
    BY <1>1, OneMore
  <2> HIDE DEF g
  <2> QED BY <1>1, <2>1
<1> HIDE DEF f, g
<1>3. /\ g \o <<z>> \in Seq(S) /\ Len(g \o <<z>>) = 2 + 1
      /\ \A i \in 1..2 : (g \o <<z>>)[i] = g[i]
      /\ (g \o <<z>>)[2 + 1] = z
  <2> DEFINE n == 2
  <2>1. n \in Nat /\ g \in Seq(S) /\ Len(g) = n
    BY <1>2
  <2> HIDE DEF n
  <2>2. /\ g \o <<z>> \in Seq(S) /\ Len(g \o <<z>>) = n + 1
        /\ \A i \in 1..n : (g \o <<z>>)[i] = g[i]
        /\ (g \o <<z>>)[n + 1] = z
    BY <2>1, OneMore
  <2> QED BY <2>2 DEF n
<1> DEFINE h == g \o <<z>>
<1> HIDE DEF h
<1>4. h \in Seq(S) /\ Len(h) = 3 /\ h[1] = x /\ h[2] = y /\ h[3] = z
  BY <1>2, <1>3 DEF h
<1> QED BY <1>4 DEF h, g, f

LEMMA BufferIs ==
    ASSUME NEW d \in Data, NEW n \in Nat
    PROVE  /\ Buffer(d, n) \in Seq(Bytes) /\ Len(Buffer(d, n)) = n
           /\ \A i \in 1..n : Buffer(d, n)[i] = [data |-> d, at |-> i]
<1>1. d \in Nat
  BY CountsAssumption
<1>2. \A i \in 1..n : [data |-> d, at |-> i] \in Bytes
  BY <1>1 DEF Bytes
<1> QED BY <1>2 DEF Buffer

LEMMA Piece ==
    ASSUME NEW S, NEW b, NEW l \in Int, NEW h \in Int, \A i \in l .. h : b[i] \in S
    PROVE  /\ SubSeq(b, l, h) \in Seq(S)
           /\ Len(SubSeq(b, l, h)) = IF l <= h THEN h - l + 1 ELSE 0
           /\ \A i \in 1 .. h - l + 1 : SubSeq(b, l, h)[i] = b[l + i - 1]
BY SubSeqProperties

LEMMA ProgramIs ==
    ASSUME NEW b \in Seq(Bytes), NEW from \in Nat, NEW a \in Nat, NEW n \in Nat,
           from + n <= Len(b)
    PROVE  /\ Program(b, from, a, n) \in Sent
           /\ Program(b, from, a, n).op = "program" /\ Program(b, from, a, n).addr = a
           /\ Program(b, from, a, n).data \in Seq(Bytes)
           /\ Len(Program(b, from, a, n).data) = n
           /\ \A i \in 1..n : Program(b, from, a, n).data[i] = b[from + i]
<1> DEFINE x == SubSeq(b, from + 1, from + n)
<1>1. from + 1 \in Int /\ from + n \in Int /\ \A i \in from + 1 .. from + n : b[i] \in Bytes
  OBVIOUS
<1>2. /\ x \in Seq(Bytes)
      /\ Len(x) = IF from + 1 <= from + n THEN (from + n) - (from + 1) + 1 ELSE 0
      /\ \A i \in 1 .. (from + n) - (from + 1) + 1 : x[i] = b[(from + 1) + i - 1]
  <2> DEFINE l == from + 1  h == from + n
  <2>1. l \in Int /\ h \in Int /\ \A i \in l .. h : b[i] \in Bytes
    BY <1>1
  <2> HIDE DEF l, h
  <2>2. /\ SubSeq(b, l, h) \in Seq(Bytes)
        /\ Len(SubSeq(b, l, h)) = IF l <= h THEN h - l + 1 ELSE 0
        /\ \A i \in 1 .. h - l + 1 : SubSeq(b, l, h)[i] = b[l + i - 1]
    BY <2>1, Piece
  <2> QED BY <2>2 DEF l, h
<1> HIDE DEF x
<1>3. x \in Seq(Bytes) /\ Len(x) = n /\ \A i \in 1..n : x[i] = b[from + i]
  BY <1>2
<1>4. Program(b, from, a, n) = [op |-> "program", addr |-> a, data |-> x]
  BY DEF Program, x
<1> QED BY <1>3, <1>4 DEF Sent, Ops

LEMMA PageWriteIs ==
    ASSUME NEW b \in Seq(Bytes), NEW from \in Nat, NEW a \in Nat, NEW n \in Nat,
           from + n <= Len(b)
    PROVE  /\ PageWrite(b, from, a, n) \in Seq(Sent) /\ Len(PageWrite(b, from, a, n)) = 3
           /\ PageWrite(b, from, a, n)[1] = Op("wren")
           /\ PageWrite(b, from, a, n)[2] = Program(b, from, a, n)
           /\ PageWrite(b, from, a, n)[3] = Op("status")
<1>1. Op("wren") \in Sent /\ Op("status") \in Sent /\ Program(b, from, a, n) \in Sent
  BY OpIs, ProgramIs DEF Ops
<1>2. PageWrite(b, from, a, n) = <<Op("wren")>> \o <<Program(b, from, a, n)>> \o <<Op("status")>>
  BY DEF PageWrite, WriteEnable, WaitForWriteEnd, Program
<1> QED BY <1>1, <1>2, Triple

LEMMA SectorEraseIs ==
    ASSUME NEW a \in Nat
    PROVE  /\ SectorErase(a) \in Seq(Sent) /\ Len(SectorErase(a)) = 4
           /\ SectorErase(a)[1] = Op("wren") /\ SectorErase(a)[2] = Op("status")
           /\ SectorErase(a)[3] = [Op("erase") EXCEPT !.addr = a]
           /\ SectorErase(a)[4] = Op("status")
<1> DEFINE w == Op("wren")  e == [Op("erase") EXCEPT !.addr = a]  t == Op("status")
<1>1. w \in Sent /\ e \in Sent /\ t \in Sent
  BY OpIs DEF Ops
<1>2. SectorErase(a) = <<w>> \o <<t>> \o <<e>> \o <<t>>
  BY DEF SectorErase, WriteEnable, WaitForWriteEnd
<1> HIDE DEF w, e, t
<1>3. /\ <<w>> \o <<t>> \o <<e>> \in Seq(Sent) /\ Len(<<w>> \o <<t>> \o <<e>>) = 3
      /\ (<<w>> \o <<t>> \o <<e>>)[1] = w
      /\ (<<w>> \o <<t>> \o <<e>>)[2] = t
      /\ (<<w>> \o <<t>> \o <<e>>)[3] = e
  BY <1>1, Triple
<1>4. /\ SectorErase(a) \in Seq(Sent) /\ Len(SectorErase(a)) = 4
      /\ SectorErase(a)[1] = w /\ SectorErase(a)[2] = t
      /\ SectorErase(a)[3] = e /\ SectorErase(a)[4] = t
  <2> DEFINE x == <<w>> \o <<t>> \o <<e>>
  <2>1. SectorErase(a) = x \o <<t>> /\ x \in Seq(Sent) /\ Len(x) = 3 /\ x[1] = w /\ x[2] = t /\ x[3] = e
    BY <1>2, <1>3
  <2> HIDE DEF x
  <2>2. /\ x \o <<t>> \in Seq(Sent) /\ Len(x \o <<t>>) = 3 + 1
        /\ \A i \in 1..3 : (x \o <<t>>)[i] = x[i]
        /\ (x \o <<t>>)[3 + 1] = t
    <3> DEFINE n == 3
    <3>1. n \in Nat /\ x \in Seq(Sent) /\ Len(x) = n /\ t \in Sent
      BY <1>1, <2>1
    <3> HIDE DEF n
    <3>2. /\ x \o <<t>> \in Seq(Sent) /\ Len(x \o <<t>>) = n + 1
          /\ \A i \in 1..n : (x \o <<t>>)[i] = x[i]
          /\ (x \o <<t>>)[n + 1] = t
      BY <3>1, OneMore
    <3> QED BY <3>2 DEF n
  <2> DEFINE y == x \o <<t>>
  <2>3. y = SectorErase(a)
    BY <2>1
  <2> HIDE DEF y
  <2>4. y \in Seq(Sent) /\ Len(y) = 4 /\ y[1] = w /\ y[2] = t /\ y[3] = e /\ y[4] = t
    BY <2>1, <2>2 DEF y
  <2> QED BY <2>3, <2>4
<1> QED BY <1>4 DEF w, e, t

\* The pages of a sector.
LEMMA PagesAre ==
    ASSUME NEW b \in Seq(Bytes), Len(b) = SectorSize, NEW a \in Nat
    PROVE  /\ Pages(b, 0, a, PerSector) \in Seq(Sent)
           /\ Len(Pages(b, 0, a, PerSector)) = 3*PerSector
           /\ \A q \in 0..PerSector-1, r \in 1..3 :
                Pages(b, 0, a, PerSector)[3*q + r] = PageWrite(b, Off(q), a + Off(q), PageSize)[r]
<1> DEFINE At(t) == PageWrite(b, 0 + ((t-1) \div 3) * PageSize,
                              a + ((t-1) \div 3) * PageSize, PageSize)[1 + ((t-1) % 3)]
<1>1. Pages(b, 0, a, PerSector) = [t \in 1..3*PerSector |-> At(t)]
  BY Zenon DEF Pages
<1>2. ASSUME NEW q \in 0..PerSector-1, NEW r \in 1..3
      PROVE  /\ 3*q + r \in 1..3*PerSector
             /\ At(3*q + r) = PageWrite(b, Off(q), a + Off(q), PageSize)[r]
             /\ At(3*q + r) \in Sent
  <2>1. q \in Nat /\ 3*q + r \in 1..3*PerSector
    BY Sizes
  <2>2. (3*q + r - 1) \div 3 = q /\ 1 + ((3*q + r - 1) % 3) = r
    BY <2>1, Thirds
  <2>3. Off(q) \in Nat /\ a + Off(q) \in Nat /\ 0 + Off(q) = Off(q) /\ Off(q) + PageSize <= Len(b)
    <3>1. q \in 0..PerSector /\ q < PerSector
      BY <1>2, Sizes
    <3>2. Off(q) \in 0..SectorSize /\ Off(q) + PageSize <= SectorSize
      BY <3>1, Offs
    <3> QED BY <3>2, Sizes
  <2>4. At(3*q + r) = PageWrite(b, Off(q), a + Off(q), PageSize)[r]
    BY <2>2, <2>3 DEF Off
  <2>5. PageWrite(b, Off(q), a + Off(q), PageSize)[r] \in Sent
    <3>1. /\ PageWrite(b, Off(q), a + Off(q), PageSize) \in Seq(Sent)
          /\ Len(PageWrite(b, Off(q), a + Off(q), PageSize)) = 3
      <4>1. PageSize \in Nat
        BY Sizes
      <4> QED BY <2>3, <4>1, PageWriteIs
    <3> QED BY <3>1
  <2> HIDE DEF At
  <2> QED BY <2>1, <2>4, <2>5
<1> HIDE DEF At
<1>3. ASSUME NEW t \in 1..3*PerSector PROVE At(t) \in Sent
  <2>1. PICK q \in 0..PerSector-1, r \in 1..3 : t = 3*q + r
    <3>1. (t-1) \div 3 \in 0..PerSector-1 /\ ((t-1) % 3) + 1 \in 1..3
      BY Sizes
    <3>2. t = 3*((t-1) \div 3) + (((t-1) % 3) + 1)
      BY Sizes
    <3> QED BY <3>1, <3>2
  <2> QED BY <2>1, <1>2
<1>4. [t \in 1..3*PerSector |-> At(t)] \in Seq(Sent) /\ Len([t \in 1..3*PerSector |-> At(t)]) = 3*PerSector
  BY <1>3, Sizes
<1> QED BY <1>1, <1>2, <1>4

-----------------------------------------------------------------------------
\* The transfers of one disk_write of one sector: the erase, and for each page
\* and for the nothing that is left over three more.
Plan(s, d) == SectorErase(Start(s))
              \o BufferWrite(Buffer(d, SectorSize), Start(s), u16(SectorSize))
Ends       == 3*PerSector + 7

Written(s, d, q) == Program(Buffer(d, SectorSize), Off(q), Start(s) + Off(q),
                            IF q < PerSector THEN PageSize ELSE 0)

LEMMA WrittenIs ==
    ASSUME NEW s \in 0..Sectors-1, NEW d \in Data, NEW q \in 0..PerSector
    PROVE  /\ Written(s, d, q).op = "program" /\ Written(s, d, q).addr = Start(s) + Off(q)
           /\ Written(s, d, q).data \in Seq(Bytes)
           /\ Len(Written(s, d, q).data) = IF q < PerSector THEN PageSize ELSE 0
           /\ \A i \in 1..IF q < PerSector THEN PageSize ELSE 0 :
                Written(s, d, q).data[i] = [data |-> d, at |-> Off(q) + i]
<1> DEFINE n == IF q < PerSector THEN PageSize ELSE 0
           b == Buffer(d, SectorSize)
<1>1. n \in Nat /\ SectorSize \in Nat
  BY Sizes
<1>2. Off(q) \in Nat /\ Off(q) + n <= SectorSize /\ Start(s) + Off(q) \in Nat
  BY <1>1, Inside
<1>3. b \in Seq(Bytes) /\ Len(b) = SectorSize /\ \A i \in 1..SectorSize : b[i] = [data |-> d, at |-> i]
  BY <1>1, BufferIs
<1>4. Written(s, d, q) = Program(b, Off(q), Start(s) + Off(q), n)
  BY DEF Written
<1> HIDE DEF n, b
<1>5. /\ Program(b, Off(q), Start(s) + Off(q), n).op = "program"
      /\ Program(b, Off(q), Start(s) + Off(q), n).addr = Start(s) + Off(q)
      /\ Program(b, Off(q), Start(s) + Off(q), n).data \in Seq(Bytes)
      /\ Len(Program(b, Off(q), Start(s) + Off(q), n).data) = n
      /\ \A i \in 1..n : Program(b, Off(q), Start(s) + Off(q), n).data[i] = b[Off(q) + i]
  <2> DEFINE from == Off(q)  a == Start(s) + Off(q)
  <2>1. b \in Seq(Bytes) /\ from \in Nat /\ a \in Nat /\ n \in Nat /\ from + n <= Len(b)
    BY <1>1, <1>2, <1>3
  <2> HIDE DEF from, a
  <2>2. /\ Program(b, from, a, n).op = "program" /\ Program(b, from, a, n).addr = a
        /\ Program(b, from, a, n).data \in Seq(Bytes)
        /\ Len(Program(b, from, a, n).data) = n
        /\ \A i \in 1..n : Program(b, from, a, n).data[i] = b[from + i]
    BY <2>1, ProgramIs
  <2> QED BY <2>2 DEF from, a
<1>6. \A i \in 1..n : b[Off(q) + i] = [data |-> d, at |-> Off(q) + i]
  BY <1>1, <1>2, <1>3
<1> QED BY <1>4, <1>5, <1>6 DEF n

\* The first case of BufferWrite is not taken, the second is.
LEMMA BufferWriteIs ==
    ASSUME NEW s \in 0..Sectors-1, NEW b \in Seq(Bytes), Len(b) = SectorSize
    PROVE  BufferWrite(b, Start(s), u16(SectorSize))
             = Pages(b, 0, Start(s), PerSector)
               \o PageWrite(b, Off(PerSector), Start(s) + Off(PerSector), 0)
<1>1. u16(SectorSize) = SectorSize /\ SectorSize % PageSize = 0 /\ Start(s) % PageSize = 0
  BY Sizes, Starts
<1>2. (SectorSize \div PageSize) * PageSize = Off(PerSector) /\ SectorSize \div PageSize = PerSector
  BY DEF Off, PerSector
<1>3. PageSize \in Nat /\ SectorSize \in Nat /\ ~(SectorSize < PageSize) /\ SectorSize >= PageSize
  BY Sizes
<1> QED BY <1>1, <1>2, <1>3 DEF BufferWrite

LEMMA PlanIs ==
    ASSUME NEW s \in 0..Sectors-1, NEW d \in Data
    PROVE  /\ Plan(s, d) \in Seq(Sent) /\ Len(Plan(s, d)) = Ends
           /\ Plan(s, d)[1] = Op("wren") /\ Plan(s, d)[2] = Op("status")
           /\ Plan(s, d)[3] = [Op("erase") EXCEPT !.addr = Start(s)]
           /\ Plan(s, d)[4] = Op("status")
           /\ \A q \in 0..PerSector :
                /\ Plan(s, d)[4 + 3*q + 1] = Op("wren")
                /\ Plan(s, d)[4 + 3*q + 2] = Written(s, d, q)
                /\ Plan(s, d)[4 + 3*q + 3] = Op("status")
<1> DEFINE b == Buffer(d, SectorSize)
           e == SectorErase(Start(s))
           p == Pages(b, 0, Start(s), PerSector)
           w == PageWrite(b, Off(PerSector), Start(s) + Off(PerSector), 0)
<1>1. PerSector \in Nat /\ PerSector # 0 /\ Start(s) \in Nat /\ PageSize \in Nat /\ SectorSize \in Nat
  BY Sizes, Starts
<1>2. b \in Seq(Bytes) /\ Len(b) = SectorSize
  BY <1>1, BufferIs
<1>3. Off(PerSector) = SectorSize
  BY Offs
<1>4. Plan(s, d) = e \o (p \o w)
  <2> HIDE DEF b
  <2> QED BY <1>2, BufferWriteIs DEF Plan, b
<1>5. /\ e \in Seq(Sent) /\ Len(e) = 4
      /\ e[1] = Op("wren") /\ e[2] = Op("status")
      /\ e[3] = [Op("erase") EXCEPT !.addr = Start(s)] /\ e[4] = Op("status")
  BY <1>1, SectorEraseIs
<1>6. /\ p \in Seq(Sent) /\ Len(p) = 3*PerSector
      /\ \A q \in 0..PerSector-1, r \in 1..3 :
           p[3*q + r] = PageWrite(b, Off(q), Start(s) + Off(q), PageSize)[r]
  <2> HIDE DEF b
  <2> DEFINE a == Start(s)
  <2>1. b \in Seq(Bytes) /\ Len(b) = SectorSize /\ a \in Nat
    BY <1>1, <1>2
  <2> HIDE DEF a
  <2>2. /\ Pages(b, 0, a, PerSector) \in Seq(Sent)
        /\ Len(Pages(b, 0, a, PerSector)) = 3*PerSector
        /\ \A q \in 0..PerSector-1, r \in 1..3 :
             Pages(b, 0, a, PerSector)[3*q + r] = PageWrite(b, Off(q), a + Off(q), PageSize)[r]
    BY <2>1, PagesAre
  <2> QED BY <2>2 DEF a
<1>7. /\ w \in Seq(Sent) /\ Len(w) = 3 /\ w[1] = Op("wren") /\ w[3] = Op("status")
      /\ w[2] = Program(b, Off(PerSector), Start(s) + Off(PerSector), 0)
  <2> HIDE DEF b
  <2> DEFINE from == Off(PerSector)  a == Start(s) + Off(PerSector)  n == 0
  <2>1. b \in Seq(Bytes) /\ from \in Nat /\ a \in Nat /\ n \in Nat /\ from + n <= Len(b)
    BY <1>1, <1>2, <1>3
  <2> HIDE DEF from, a, n
  <2>2. /\ PageWrite(b, from, a, n) \in Seq(Sent) /\ Len(PageWrite(b, from, a, n)) = 3
        /\ PageWrite(b, from, a, n)[1] = Op("wren")
        /\ PageWrite(b, from, a, n)[2] = Program(b, from, a, n)
        /\ PageWrite(b, from, a, n)[3] = Op("status")
    BY <2>1, PageWriteIs
  <2> QED BY <2>2 DEF from, a, n
<1>8. \A q \in 0..PerSector-1 :
        /\ PageWrite(b, Off(q), Start(s) + Off(q), PageSize)[1] = Op("wren")
        /\ PageWrite(b, Off(q), Start(s) + Off(q), PageSize)[2] = Program(b, Off(q), Start(s) + Off(q), PageSize)
        /\ PageWrite(b, Off(q), Start(s) + Off(q), PageSize)[3] = Op("status")
  <2> HIDE DEF b
  <2>1. ASSUME NEW q \in 0..PerSector-1
        PROVE  Off(q) \in Nat /\ Start(s) + Off(q) \in Nat /\ Off(q) + PageSize <= Len(b)
    <3>1. q \in 0..PerSector /\ q < PerSector
      BY <1>1
    <3> QED BY <3>1, <1>2, Inside
  <2>2. ASSUME NEW q \in 0..PerSector-1
        PROVE  /\ PageWrite(b, Off(q), Start(s) + Off(q), PageSize)[1] = Op("wren")
               /\ PageWrite(b, Off(q), Start(s) + Off(q), PageSize)[2] = Program(b, Off(q), Start(s) + Off(q), PageSize)
               /\ PageWrite(b, Off(q), Start(s) + Off(q), PageSize)[3] = Op("status")
    <3> DEFINE from == Off(q)  a == Start(s) + Off(q)  n == PageSize
    <3>1. b \in Seq(Bytes) /\ from \in Nat /\ a \in Nat /\ n \in Nat /\ from + n <= Len(b)
      BY <1>1, <1>2, <2>1
    <3> HIDE DEF from, a, n
    <3>2. /\ PageWrite(b, from, a, n)[1] = Op("wren")
          /\ PageWrite(b, from, a, n)[2] = Program(b, from, a, n)
          /\ PageWrite(b, from, a, n)[3] = Op("status")
      BY <3>1, PageWriteIs
    <3> QED BY <3>2 DEF from, a, n
  <2> QED BY <2>2
<1> HIDE DEF b, e, p, w
<1> DEFINE pw == p \o w  all == e \o pw
<1>9. /\ pw \in Seq(Sent) /\ Len(pw) = 3*PerSector + 3
      /\ \A i \in 1..3*PerSector : pw[i] = p[i]
      /\ \A i \in 1..3 : pw[3*PerSector + i] = w[i]
  <2>0. p \in Seq(Sent) /\ w \in Seq(Sent)
    BY <1>6, <1>7
  <2>1. /\ p \o w \in Seq(Sent) /\ Len(p \o w) = Len(p) + Len(w)
        /\ \A i \in 1..Len(p) : (p \o w)[i] = p[i]
        /\ \A i \in 1..Len(w) : (p \o w)[Len(p) + i] = w[i]
    BY <2>0, Joined
  <2> QED BY <1>6, <1>7, <2>1
<1> HIDE DEF pw
<1>10. /\ all \in Seq(Sent) /\ Len(all) = 4 + (3*PerSector + 3)
       /\ \A i \in 1..4 : all[i] = e[i]
       /\ \A i \in 1..3*PerSector + 3 : all[4 + i] = pw[i]
  <2>0. e \in Seq(Sent) /\ pw \in Seq(Sent)
    BY <1>5, <1>9
  <2>1. /\ e \o pw \in Seq(Sent) /\ Len(e \o pw) = Len(e) + Len(pw)
        /\ \A i \in 1..Len(e) : (e \o pw)[i] = e[i]
        /\ \A i \in 1..Len(pw) : (e \o pw)[Len(e) + i] = pw[i]
    BY <2>0, Joined
  <2> QED BY <1>5, <1>9, <2>1
<1> HIDE DEF all
<1>11. Plan(s, d) = all
  BY <1>4 DEF all, pw
<1>12. ASSUME NEW q \in 0..PerSector
       PROVE  /\ all[4 + 3*q + 1] = Op("wren")
              /\ all[4 + 3*q + 2] = Written(s, d, q)
              /\ all[4 + 3*q + 3] = Op("status")
  <2>1. ASSUME NEW r \in 1..3 PROVE all[4 + 3*q + r] = pw[3*q + r]
    <3>1. 3*q + r \in 1..3*PerSector + 3 /\ 4 + 3*q + r = 4 + (3*q + r)
      BY <1>1
    <3> QED BY <3>1, <1>10
  <2>2. CASE q < PerSector
    <3>1. q \in 0..PerSector-1 /\ \A r \in 1..3 : 3*q + r \in 1..3*PerSector
      BY <1>1, <2>2
    <3>2. \A r \in 1..3 : pw[3*q + r] = PageWrite(b, Off(q), Start(s) + Off(q), PageSize)[r]
      BY <3>1, <1>6, <1>9
    <3>3. Written(s, d, q) = Program(b, Off(q), Start(s) + Off(q), PageSize)
      BY <2>2 DEF Written, b
    <3> QED BY <2>1, <3>1, <3>2, <3>3, <1>8
  <2>3. CASE q = PerSector
    <3>1. Written(s, d, q) = Program(b, Off(PerSector), Start(s) + Off(PerSector), 0)
      BY <1>1, <2>3 DEF Written, b
    <3>2. pw[3*q + 1] = w[1] /\ pw[3*q + 2] = w[2] /\ pw[3*q + 3] = w[3]
      BY <2>3, <1>9
    <3> QED BY <2>1, <3>1, <3>2, <1>7
  <2> QED BY <1>1, <2>2, <2>3
<1>13. 4 + (3*PerSector + 3) = Ends
  BY <1>1 DEF Ends
<1>14. all \in Seq(Sent) /\ Len(all) = Ends
  BY <1>10, <1>13
<1>15. all[1] = e[1] /\ all[2] = e[2] /\ all[3] = e[3] /\ all[4] = e[4]
  BY <1>10
<1>16. /\ all[1] = Op("wren") /\ all[2] = Op("status")
       /\ all[3] = [Op("erase") EXCEPT !.addr = Start(s)]
       /\ all[4] = Op("status")
  BY <1>5, <1>15, Zenon
<1> QED BY <1>11, <1>12, <1>14, <1>16, Zenon

-----------------------------------------------------------------------------
\* What the chip does with them.
SectorOf(s) == Start(s)..Start(s)+SectorSize-1

\* Outside the sector the cells m are those of e.
Beside(m, e, s) == DOMAIN m = Cells /\ \A k \in Cells \ SectorOf(s) : m[k] = e[k]

\* The first n pages are those of e too, the others are erased.
Filled(m, e, s, n) ==
    m = [k \in Cells |-> IF k \in Start(s)+Off(n)..Start(s)+SectorSize-1 THEN Erased ELSE e[k]]

\* e holds in the sector what is written.
Holds(e, s, d) ==
    \A k \in Cells \cap SectorOf(s) : e[k] = [data |-> d, at |-> k - Start(s) + 1]

LEMMA SectorCleared ==
    ASSUME NEW s \in 0..Sectors-1, NEW m, NEW e, Beside(m, e, s)
    PROVE  Filled(Cleared(m, Start(s)), e, s, 0)
<1>1. Start(s) + Off(0) = Start(s)
  BY Offs, Starts
<1>2. \A k \in Cells : k \in Nat
  BY DEF Cells
<1>3. \A k \in Cells : k \div SectorSize = Start(s) \div SectorSize <=> k \in SectorOf(s)
  BY <1>2, Starts DEF SectorOf
<1>4. Cleared(m, Start(s)) = [k \in Cells |-> IF k \in SectorOf(s) THEN Erased ELSE e[k]]
  BY <1>3 DEF Cleared, Beside
<1> QED BY <1>1, <1>4 DEF Filled, SectorOf

\* An aligned address does not go round.
LEMMA Straight ==
    ASSUME NEW s \in 0..Sectors-1, NEW q \in 0..PerSector, NEW i \in 1..PageSize
    PROVE  Target(Start(s) + Off(q), i) = Start(s) + Off(q) + i - 1
<1> DEFINE a == Start(s) + Off(q)  m == s*PerSector + q
<1>1. m \in Nat /\ a = m*PageSize
  <2>1. s \in Nat /\ q \in Nat /\ PerSector \in Nat
    BY Sizes
  <2> QED BY <2>1, Starts
<1>2. PageSize \in Nat \ {0} /\ i - 1 \in 0..PageSize-1 /\ 0 \in 0..PageSize-1
  BY Sizes
<1> HIDE DEF a, m
<1>3. a \in Nat /\ a \div PageSize = m /\ (a + i - 1) % PageSize = i - 1
  <2>1. m*PageSize \in Nat /\ m*PageSize + 0 = m*PageSize /\ m*PageSize + (i - 1) = m*PageSize + i - 1
    BY <1>1, <1>2
  <2>2. (m*PageSize + 0) \div PageSize = m
    BY <1>1, <1>2, Divides
  <2>3. (m*PageSize + (i - 1)) % PageSize = i - 1
    BY <1>1, <1>2, Divides
  <2> QED BY <1>1, <2>1, <2>2, <2>3
<1>4. Target(a, i) = a + i - 1
  <2>1. Target(a, i) = PageSize*m + (i - 1)
    BY <1>3 DEF Target
  <2> QED BY <1>1, <1>2, <2>1
<1> QED BY <1>4 DEF a

LEMMA PageProgrammed ==
    ASSUME NEW s \in 0..Sectors-1, NEW d \in Data, NEW q \in 0..PerSector, q < PerSector,
           NEW m, NEW e, Filled(m, e, s, q), Holds(e, s, d)
    PROVE  Filled(Programmed(m, Start(s) + Off(q), Written(s, d, q).data), e, s, q + 1)
<1> DEFINE a == Start(s) + Off(q)  data == Written(s, d, q).data
<1>1. /\ PageSize \in Nat \ {0} /\ SectorSize \in Nat /\ Start(s) \in Nat /\ Off(q) \in Nat
      /\ Off(q) + PageSize <= SectorSize /\ Off(q + 1) = Off(q) + PageSize
  BY Sizes, Starts, Inside, Offs
<1>2. DOMAIN data = 1..PageSize /\ \A i \in 1..PageSize : data[i] = [data |-> d, at |-> Off(q) + i]
  <2>1. data \in Seq(Bytes) /\ Len(data) = PageSize
    BY WrittenIs
  <2>2. \A i \in 1..PageSize : data[i] = [data |-> d, at |-> Off(q) + i]
    BY WrittenIs
  <2> HIDE DEF data
  <2> QED BY <2>1, <2>2, LenProperties
<1>3. \A i \in 1..PageSize : Target(a, i) = a + i - 1
  BY Straight
<1> HIDE DEF data
<1>4. ASSUME NEW k \in Cells
      PROVE  Hit(a, data, k) = IF k \in a..a+PageSize-1 THEN {k - a + 1} ELSE {}
  <2>1. k \in Nat
    BY DEF Cells
  <2>2. a \in Nat
    BY <1>1
  <2>3. Hit(a, data, k) = {i \in 1..PageSize : a + i - 1 = k}
    BY <1>2, <1>3 DEF Hit
  <2> HIDE DEF a
  <2> QED BY <1>1, <2>1, <2>2, <2>3
<1>5. ASSUME NEW k \in Cells
      PROVE  Programmed(m, a, data)[k] = IF k \in a..a+PageSize-1
                                         THEN [data |-> d, at |-> Off(q) + (k - a + 1)] ELSE m[k]
  <2>1. DOMAIN m = Cells /\ k \in Nat /\ a \in Nat
    BY <1>1 DEF Filled, Cells
  <2>2. CASE k \in a..a+PageSize-1
    <3>1. m[k] = Erased
      BY <1>1, <2>1, <2>2 DEF Filled
    <3>2. Hit(a, data, k) = {k - a + 1}
      BY <1>4, <2>2
    <3>3. (CHOOSE i \in {k - a + 1} : \A j \in {k - a + 1} : j <= i) = k - a + 1
      BY <2>1
    <3>4. k - a + 1 \in 1..PageSize
      BY <1>1, <2>1, <2>2
    <3>5. Programmed(m, a, data)[k] = data[k - a + 1]
      BY <2>1, <3>1, <3>2, <3>3 DEF Programmed
    <3> QED BY <1>2, <2>2, <3>4, <3>5
  <2>3. CASE k \notin a..a+PageSize-1
    <3>1. Hit(a, data, k) = {}
      BY <1>4, <2>3
    <3> QED BY <2>1, <2>3, <3>1 DEF Programmed
  <2> QED BY <2>2, <2>3
<1>6. DOMAIN Programmed(m, a, data) = Cells
  BY DEF Programmed, Filled
<1>7. ASSUME NEW k \in Cells
      PROVE  Programmed(m, a, data)[k]
               = IF k \in Start(s)+Off(q+1)..Start(s)+SectorSize-1 THEN Erased ELSE e[k]
  <2>1. k \in Nat
    BY DEF Cells
  <2>2. m[k] = IF k \in a..Start(s)+SectorSize-1 THEN Erased ELSE e[k]
    BY DEF Filled
  <2>3. k \in SectorOf(s) => e[k] = [data |-> d, at |-> k - Start(s) + 1]
    BY DEF Holds
  <2>4. CASE k \in a..a+PageSize-1
    <3>1. k \in SectorOf(s) /\ k \notin Start(s)+Off(q+1)..Start(s)+SectorSize-1
      BY <1>1, <2>1, <2>4 DEF SectorOf
    <3>2. Off(q) + (k - a + 1) = k - Start(s) + 1
      BY <1>1, <2>1
    <3> QED BY <1>5, <2>3, <2>4, <3>1, <3>2
  <2>5. CASE k \notin a..a+PageSize-1
    <3>1. k \in a..Start(s)+SectorSize-1 <=> k \in Start(s)+Off(q+1)..Start(s)+SectorSize-1
      BY <1>1, <2>1, <2>5
    <3> QED BY <1>5, <2>2, <2>5, <3>1
  <2> QED BY <2>4, <2>5
<1> DEFINE new == Programmed(m, a, data)
<1>8. new = [k \in Cells |-> new[k]]
  BY <1>6 DEF Programmed
<1>9. new = [k \in Cells |-> IF k \in Start(s)+Off(q+1)..Start(s)+SectorSize-1 THEN Erased ELSE e[k]]
  <2>1. \A k \in Cells :
          new[k] = IF k \in Start(s)+Off(q+1)..Start(s)+SectorSize-1 THEN Erased ELSE e[k]
    BY <1>7
  <2> HIDE DEF new
  <2> QED BY <1>8, <2>1
<1> QED BY <1>9 DEF Filled, data, a

LEMMA AllFilled ==
    ASSUME NEW s \in 0..Sectors-1, NEW n \in {PerSector, PerSector + 1},
           NEW m, NEW e, e = [k \in Cells |-> e[k]], Filled(m, e, s, n)
    PROVE  Filled(m, e, s, PerSector + 1) /\ m = e
<1>1. /\ SectorSize \in Nat /\ Start(s) \in Nat /\ Off(PerSector) = SectorSize
      /\ Off(PerSector + 1) = SectorSize + PageSize /\ PageSize \in Nat
  <2>1. PerSector \in 0..PerSector /\ SectorSize \in Nat /\ PageSize \in Nat
    BY Sizes
  <2>2. Start(s) \in Nat
    BY Starts
  <2>3. Off(PerSector) = SectorSize /\ Off(PerSector + 1) = Off(PerSector) + PageSize
    BY <2>1, Offs
  <2> QED BY <2>1, <2>2, <2>3
<1>2. \A i \in {PerSector, PerSector + 1} : Start(s)+Off(i)..Start(s)+SectorSize-1 = {}
  BY <1>1
<1>3. \A i \in {PerSector, PerSector + 1} :
        [k \in Cells |-> IF k \in Start(s)+Off(i)..Start(s)+SectorSize-1 THEN Erased ELSE e[k]]
          = [k \in Cells |-> e[k]]
  BY <1>2
<1> QED BY <1>3 DEF Filled

-----------------------------------------------------------------------------
\* The invariant.

\* What was read from the port is what the port can hold.
Wired(w) == "sel" \in DOMAIN w /\ w.sel \in BOOLEAN
Tuned ==
    /\ Wired(odr) /\ DOMAIN word = Scanners
    /\ \A s \in Scanners : Wired(word[s])
    /\ expect = [k \in Cells |-> expect[k]]

Idle == /\ todo = <<>> /\ phase = "low" /\ ~odr.sel /\ ~busy
        /\ mem = expect /\ got = wanted

\* The transfer c is at hand, and the chip will do what it asks.
Transfer(c) ==
    /\ \/ phase = "low" /\ ~odr.sel
       \/ phase = "shift" /\ odr.sel /\ cmd = None
       \/ phase = "high" /\ odr.sel /\ cmd = c /\ ~busy
    /\ c.op # "status" => ~busy
    /\ c.op \in {"erase", "program"} => wel

ReadOf(s) == [op |-> "read", addr |-> Start(s), data |-> <<SectorSize>>]

Reading(s) ==
    /\ todo = <<ReadOf(s)>> /\ Transfer(ReadOf(s))
    /\ mem = expect
    /\ wanted = [i \in 1..SectorSize |-> expect[Start(s) + i - 1]]
    /\ phase = "high" => got = wanted

\* Transfer i of a disk_write.
At(s, d, i) ==
    /\ todo = SubSeq(Plan(s, d), i, Ends) /\ Transfer(Plan(s, d)[i])
    /\ got = wanted /\ Holds(expect, s, d)

Erasing(s, d, i) ==
    /\ At(s, d, i) /\ (i = 2 => wel)
    /\ IF i = 4 THEN Filled(mem, expect, s, 0) ELSE Beside(mem, expect, s)

Paging(s, d, q, r) ==
    At(s, d, 4 + 3*q + r) /\ Filled(mem, expect, s, IF r = 3 THEN q + 1 ELSE q)

Stage == \/ Idle
         \/ \E s \in 0..Sectors-1 : Reading(s)
         \/ \E s \in 0..Sectors-1, d \in Data, i \in 1..4 : Erasing(s, d, i)
         \/ \E s \in 0..Sectors-1, d \in Data, q \in 0..PerSector, r \in 1..3 : Paging(s, d, q, r)

FlashInv == Tuned /\ Stage

\* The three steps of a transfer.
LEMMA Selected ==
    ASSUME Tuned, NEW c, Transfer(c), Select
    PROVE  /\ Transfer(c)' /\ Wired(odr') /\ phase' = "shift"
           /\ UNCHANGED <<mem, wel, todo, got, expect, wanted>>
<1>1. phase = "low" /\ ~odr.sel
  BY DEF Select, Transfer
<1>2. odr' = [odr EXCEPT !.sel = TRUE] /\ odr'.sel /\ Wired(odr')
  BY DEF Select, Drive, Tuned, Wired
<1>3. UNCHANGED <<mem, wel, busy>> /\ cmd' = None
  BY <1>1, <1>2 DEF Select, Drive
<1> QED BY <1>1, <1>2, <1>3 DEF Select, Transfer

LEMMA ShiftedIn ==
    ASSUME Tuned, NEW c, Transfer(c), Head(todo) = c, Shift
    PROVE  /\ Transfer(c)' /\ odr' = odr /\ phase' = "high"
           /\ UNCHANGED <<mem, wel, todo, expect, wanted>>
           /\ got' = IF c.op = "read" THEN [i \in 1..c.data[1] |-> mem[c.addr + i - 1]] ELSE got
<1>1. phase = "shift" /\ odr.sel /\ cmd = None /\ ~busy
  BY DEF Shift, Transfer
<1>2. cmd' = c /\ UNCHANGED <<odr, mem, wel, busy>>
  BY <1>1 DEF Shift, Shifted
<1>3. got' = IF c.op = "read" THEN [i \in 1..c.data[1] |-> mem[c.addr + i - 1]] ELSE got
  BY <1>1 DEF Shift
<1> QED BY <1>1, <1>2, <1>3 DEF Shift, Transfer

LEMMA Deselected ==
    ASSUME Tuned, NEW c, Transfer(c), Deselect
    PROVE  /\ ~odr'.sel /\ Wired(odr') /\ phase' = "low"
           /\ todo' = Tail(todo) /\ UNCHANGED <<got, expect, wanted>>
           /\ c.op \notin {"erase", "program"} => ~busy' /\ mem' = mem /\ (wel => wel')
           /\ c.op = "wren" => wel'
           /\ c.op = "erase" /\ c.data # <<>> => mem' = Cleared(mem, c.addr)
           /\ c.op = "program" => mem' = IF c.data # <<>> THEN Programmed(mem, c.addr, c.data) ELSE mem
<1>1. phase = "high" /\ odr.sel /\ cmd = c /\ ~busy
  BY DEF Deselect, Transfer
<1>2. odr' = [odr EXCEPT !.sel = FALSE] /\ ~odr'.sel /\ Wired(odr')
  BY DEF Deselect, Drive, Tuned, Wired
<1>3. Carry
  BY <1>1 DEF Deselect, Drive
<1>4. c.op \in {"erase", "program"} => wel
  BY DEF Transfer
<1>5. CASE c.op \notin {"erase", "program"}
  BY <1>1, <1>2, <1>3, <1>5 DEF Deselect, Carry
<1>6. CASE c.op = "erase"
  BY <1>1, <1>2, <1>3, <1>4, <1>6 DEF Deselect, Carry
<1>7. CASE c.op = "program"
  BY <1>1, <1>2, <1>3, <1>4, <1>7 DEF Deselect, Carry
<1> QED BY <1>5, <1>6, <1>7

LEMMA Ahead ==
    ASSUME NEW s \in 0..Sectors-1, NEW d \in Data, NEW i \in 1..Ends, At(s, d, i)
    PROVE  /\ todo # <<>> /\ Head(todo) = Plan(s, d)[i]
           /\ i = Ends => Tail(todo) = <<>>
           /\ Tail(todo) = SubSeq(Plan(s, d), i + 1, Ends)
<1> DEFINE P == Plan(s, d)
<1>1. P \in Seq(Sent) /\ Len(P) = Ends
  BY PlanIs
<1>2. Ends \in Nat
  BY Sizes DEF Ends
<1>3. todo = SubSeq(P, i, Ends)
  BY DEF At
<1> HIDE DEF P
<1>4. i \in 1..Len(P) /\ Ends \in i..Len(P)
  BY <1>1, <1>2
<1>5. Head(SubSeq(P, i, Ends)) = P[i] /\ Tail(SubSeq(P, i, Ends)) = SubSeq(P, i + 1, Ends)
  BY <1>1, <1>4, HeadTailOfSubSeq
<1>6. SubSeq(P, i, Ends) # <<>>
  <2>1. i \in Int /\ Ends \in Int /\ \A j \in i..Ends : P[j] \in Sent
    BY <1>1, <1>2
  <2>2. Len(SubSeq(P, i, Ends)) = IF i <= Ends THEN Ends - i + 1 ELSE 0
    BY <2>1, SubSeqProperties
  <2>3. Len(SubSeq(P, i, Ends)) # 0
    BY <1>2, <2>2
  <2>4. Len(<<>>) = 0
    OBVIOUS
  <2> QED BY <2>3, <2>4, Zenon
<1>7. i = Ends => SubSeq(P, i + 1, Ends) = <<>>
  BY <1>2, SubSeqEmpty
<1> QED BY <1>3, <1>5, <1>6, <1>7 DEF P

\* The operations of the plan.
LEMMA PlanOps ==
    ASSUME NEW s \in 0..Sectors-1, NEW d \in Data
    PROVE  /\ Ends \in Nat /\ {1, 2, 3, 4} \subseteq 1..Ends
           /\ Plan(s, d)[1].op = "wren" /\ Plan(s, d)[2].op = "status"
           /\ Plan(s, d)[3].op = "erase" /\ Plan(s, d)[3].addr = Start(s) /\ Plan(s, d)[3].data # <<>>
           /\ Plan(s, d)[4].op = "status"
           /\ \A q \in 0..PerSector :
                /\ {4 + 3*q + 1, 4 + 3*q + 2, 4 + 3*q + 3} \subseteq 1..Ends
                /\ Plan(s, d)[4 + 3*q + 1].op = "wren"
                /\ Plan(s, d)[4 + 3*q + 2] = Written(s, d, q)
                /\ Plan(s, d)[4 + 3*q + 2].op = "program"
                /\ Plan(s, d)[4 + 3*q + 3].op = "status"
<1>1. Start(s) \in Nat /\ PerSector \in Nat /\ Ends = 3*PerSector + 7
  BY Starts, Sizes DEF Ends
<1>2. /\ Op("wren").op = "wren" /\ Op("status").op = "status"
      /\ [Op("erase") EXCEPT !.addr = Start(s)].op = "erase"
      /\ [Op("erase") EXCEPT !.addr = Start(s)].addr = Start(s)
      /\ [Op("erase") EXCEPT !.addr = Start(s)].data # <<>>
  BY <1>1, OpIs DEF Ops
<1>3. ASSUME NEW q \in 0..PerSector
      PROVE  /\ {4 + 3*q + 1, 4 + 3*q + 2, 4 + 3*q + 3} \subseteq 1..Ends
             /\ Written(s, d, q).op = "program"
  BY <1>1, WrittenIs
<1>4. Ends \in Nat /\ {1, 2, 3, 4} \subseteq 1..Ends
  BY <1>1
<1>5. Plan(s, d)[1].op = "wren" /\ Plan(s, d)[2].op = "status" /\ Plan(s, d)[4].op = "status"
  BY <1>2, PlanIs
<1>6. Plan(s, d)[3].op = "erase" /\ Plan(s, d)[3].addr = Start(s) /\ Plan(s, d)[3].data # <<>>
  BY <1>2, PlanIs
<1>7. ASSUME NEW q \in 0..PerSector
      PROVE  /\ Plan(s, d)[4 + 3*q + 1].op = "wren"
             /\ Plan(s, d)[4 + 3*q + 2] = Written(s, d, q)
             /\ Plan(s, d)[4 + 3*q + 3].op = "status"
  <2>1. /\ Plan(s, d)[4 + 3*q + 1] = Op("wren")
        /\ Plan(s, d)[4 + 3*q + 2] = Written(s, d, q)
        /\ Plan(s, d)[4 + 3*q + 3] = Op("status")
    BY PlanIs
  <2> QED BY <1>2, <2>1
<1> QED BY <1>3, <1>4, <1>5, <1>6, <1>7

\* Select and Shift leave a disk_write where it is.
LEMMA StaysAt ==
    ASSUME Tuned, NEW s \in 0..Sectors-1, NEW d \in Data, NEW i \in 1..Ends, At(s, d, i),
           Plan(s, d)[i].op # "read", Select \/ Shift, UNCHANGED keyVars
    PROVE  Tuned' /\ At(s, d, i)' /\ UNCHANGED <<mem, wel, expect>>
<1> DEFINE c == Plan(s, d)[i]
<1>0. Head(todo) = c /\ Transfer(c) /\ c.op # "read"
  BY Ahead DEF At
<1> HIDE DEF c
<1>1. Transfer(c)' /\ Wired(odr') /\ UNCHANGED <<mem, wel, todo, got, expect, wanted>>
  <2>1. CASE Select
    BY <1>0, <2>1, Selected
  <2>2. CASE Shift
    BY <1>0, <2>2, ShiftedIn DEF Tuned
  <2> QED BY <2>1, <2>2
<1>2. Tuned'
  BY <1>1 DEF Tuned, keyVars
<1>3. At(s, d, i)'
  BY <1>1 DEF At, Holds, c
<1> QED BY <1>1, <1>2, <1>3

\* Deselect goes on to the next transfer.
LEMMA GoesOn ==
    ASSUME Tuned, NEW s \in 0..Sectors-1, NEW d \in Data, NEW i \in 1..Ends, At(s, d, i),
           Deselect, UNCHANGED keyVars
    PROVE  /\ Tuned' /\ expect' = expect /\ got' = wanted'
           /\ phase' = "low" /\ ~odr'.sel
           /\ i = Ends => todo' = <<>>
           /\ \/ Plan(s, d)[i + 1].op = "status"
              \/ ~busy' /\ Plan(s, d)[i + 1].op = "wren"
              \/ ~busy' /\ wel' /\ Plan(s, d)[i + 1].op \in {"erase", "program"}
              => At(s, d, i + 1)'
<1> DEFINE c == Plan(s, d)[i]
<1>0. Transfer(c) /\ got = wanted /\ Holds(expect, s, d)
  BY DEF At
<1>1. /\ i = Ends => Tail(todo) = <<>>
      /\ Tail(todo) = SubSeq(Plan(s, d), i + 1, Ends)
  BY Ahead
<1> HIDE DEF c
<1>2. /\ ~odr'.sel /\ Wired(odr') /\ phase' = "low"
      /\ todo' = Tail(todo) /\ UNCHANGED <<got, expect, wanted>>
  BY <1>0, Deselected
<1>3. Tuned'
  BY <1>2 DEF Tuned, keyVars
<1>4. ASSUME \/ Plan(s, d)[i + 1].op = "status"
             \/ ~busy' /\ Plan(s, d)[i + 1].op = "wren"
             \/ ~busy' /\ wel' /\ Plan(s, d)[i + 1].op \in {"erase", "program"}
      PROVE  At(s, d, i + 1)'
  <2>1. Transfer(Plan(s, d)[i + 1])'
    BY <1>2, <1>4 DEF Transfer
  <2>2. Holds(expect, s, d)'
    BY <1>0, <1>2 DEF Holds
  <2> QED BY <1>0, <1>1, <1>2, <2>1, <2>2 DEF At
<1> QED BY <1>0, <1>1, <1>2, <1>3, <1>4

LEMMA EraseGoesOn ==
    ASSUME Tuned, NEW s \in 0..Sectors-1, NEW d \in Data, NEW i \in 1..4, Erasing(s, d, i),
           Deselect, UNCHANGED keyVars
    PROVE  FlashInv'
<1> DEFINE c == Plan(s, d)[i]
<1>1. At(s, d, i) /\ Transfer(c) /\ Holds(expect, s, d)
  BY DEF Erasing, At
<1>2. i \in 1..Ends /\ Ends \in Nat /\ 0 \in 0..PerSector /\ PerSector \in Nat
  BY PlanOps, Sizes
<1>3. Tuned' /\ expect' = expect
  BY <1>1, <1>2, GoesOn
<1>4. /\ c.op \notin {"erase", "program"} => ~busy' /\ mem' = mem /\ (wel => wel')
      /\ c.op = "wren" => wel'
      /\ c.op = "erase" /\ c.data # <<>> => mem' = Cleared(mem, c.addr)
  <2> HIDE DEF c
  <2> QED BY <1>1, Deselected
<1>5. CASE i = 1
  <2>1. c.op = "wren" /\ Plan(s, d)[i + 1].op = "status" /\ 2 \in 1..4 /\ i + 1 = 2
    BY <1>5, PlanOps
  <2>2. At(s, d, 2)'
    BY <1>1, <1>2, <2>1, GoesOn
  <2>3. Beside(mem, expect, s)'
    BY <1>3, <1>4, <1>5, <2>1 DEF Erasing, Beside
  <2>4. Erasing(s, d, 2)'
    BY <1>4, <2>1, <2>2, <2>3 DEF Erasing
  <2> QED BY <1>3, <2>1, <2>4 DEF FlashInv, Stage
<1>6. CASE i = 2
  <2>1. c.op = "status" /\ Plan(s, d)[i + 1].op = "erase" /\ 3 \in 1..4 /\ i + 1 = 3 /\ wel
    BY <1>6, PlanOps DEF Erasing
  <2>2. At(s, d, 3)'
    BY <1>1, <1>2, <1>4, <2>1, GoesOn
  <2>3. Beside(mem, expect, s)'
    BY <1>3, <1>4, <1>6, <2>1 DEF Erasing, Beside
  <2>4. Erasing(s, d, 3)'
    BY <2>2, <2>3 DEF Erasing
  <2> QED BY <1>3, <2>1, <2>4 DEF FlashInv, Stage
<1>7. CASE i = 3
  <2>1. /\ c.op = "erase" /\ c.addr = Start(s) /\ c.data # <<>>
        /\ Plan(s, d)[i + 1].op = "status" /\ 4 \in 1..4 /\ i + 1 = 4
    BY <1>7, PlanOps
  <2>2. At(s, d, 4)'
    BY <1>1, <1>2, <2>1, GoesOn
  <2>3. Beside(mem, expect, s)
    BY <1>7 DEF Erasing
  <2>4. Filled(mem', expect, s, 0)
    BY <1>4, <2>1, <2>3, SectorCleared
  <2>5. Erasing(s, d, 4)'
    BY <1>3, <2>2, <2>4 DEF Erasing, Filled
  <2> QED BY <1>3, <2>1, <2>5 DEF FlashInv, Stage
<1>8. CASE i = 4
  <2>1. c.op = "status" /\ i + 1 = 5 /\ 4 + 3*0 + 1 = 5
    BY <1>8, PlanOps
  <2>2. Plan(s, d)[i + 1].op = "wren"
    <3>1. \A p \in 0..PerSector : Plan(s, d)[4 + 3*p + 1].op = "wren"
      BY PlanOps
    <3>2. Plan(s, d)[4 + 3*0 + 1].op = "wren"
      BY <1>2, <3>1
    <3> QED BY <2>1, <3>2
  <2>3. At(s, d, 4 + 3*0 + 1)'
    BY <1>1, <1>2, <1>4, <2>1, <2>2, GoesOn
  <2>4. Filled(mem, expect, s, 0)'
    BY <1>3, <1>4, <1>8, <2>1 DEF Erasing, Filled
  <2>5. Paging(s, d, 0, 1)' /\ 1 \in 1..3
    BY <2>3, <2>4 DEF Paging
  <2> QED BY <1>2, <1>3, <2>5 DEF FlashInv, Stage
<1> QED BY <1>5, <1>6, <1>7, <1>8

LEMMA PageGoesOn ==
    ASSUME Tuned, NEW s \in 0..Sectors-1, NEW d \in Data, NEW q \in 0..PerSector, NEW r \in 1..3,
           Paging(s, d, q, r), Deselect, UNCHANGED keyVars
    PROVE  FlashInv'
<1> DEFINE i == 4 + 3*q + r
           c == Plan(s, d)[i]
<1>1. At(s, d, i) /\ Transfer(c) /\ Holds(expect, s, d)
  BY DEF Paging, At
<1>2. /\ i \in 1..Ends /\ Ends \in Nat /\ q \in Nat /\ PerSector \in Nat /\ Ends = 3*PerSector + 7
  <2>1. PerSector \in Nat
    BY Sizes
  <2> QED BY <2>1 DEF Ends
<1>3. Tuned' /\ expect' = expect /\ expect = [k \in Cells |-> expect[k]]
  BY <1>1, <1>2, GoesOn DEF Tuned
<1>4. /\ c.op \notin {"erase", "program"} => ~busy' /\ mem' = mem /\ (wel => wel')
      /\ c.op = "wren" => wel'
      /\ c.op = "program" => mem' = IF c.data # <<>> THEN Programmed(mem, c.addr, c.data) ELSE mem
  <2> HIDE DEF c
  <2> QED BY <1>1, Deselected
<1>5. CASE r = 1
  <2>1. c.op = "wren" /\ i + 1 = 4 + 3*q + 2
    BY <1>2, <1>5, PlanOps
  <2>2. Plan(s, d)[i + 1].op = "program"
    BY <2>1, PlanOps
  <2>3. At(s, d, 4 + 3*q + 2)'
    BY <1>1, <1>2, <1>4, <2>1, <2>2, GoesOn
  <2>4. Filled(mem, expect, s, q)'
    BY <1>3, <1>4, <1>5, <2>1 DEF Paging, Filled
  <2>5. Paging(s, d, q, 2)' /\ 2 \in 1..3
    BY <2>3, <2>4 DEF Paging
  <2> QED BY <1>3, <2>5 DEF FlashInv, Stage
<1>6. CASE r = 2
  <2>1. c = Written(s, d, q) /\ c.op = "program" /\ i + 1 = 4 + 3*q + 3
    BY <1>2, <1>6, PlanOps
  <2>2. Plan(s, d)[i + 1].op = "status"
    BY <2>1, PlanOps
  <2>3. At(s, d, 4 + 3*q + 3)'
    BY <1>1, <1>2, <2>1, <2>2, GoesOn
  <2>4. Filled(mem, expect, s, q)
    BY <1>6 DEF Paging
  <2>5. c.addr = Start(s) + Off(q) /\ Len(c.data) = (IF q < PerSector THEN PageSize ELSE 0) /\ c.data \in Seq(Bytes)
    BY <2>1, WrittenIs
  <2>6. Filled(mem', expect, s, q + 1)
    <3>1. CASE q < PerSector
      <4>1. c.data # <<>>
        <5>1. Len(c.data) # 0 /\ Len(<<>>) = 0
          BY <2>5, <3>1, Sizes
        <5> QED BY <5>1, Zenon
      <4>2. mem' = Programmed(mem, Start(s) + Off(q), Written(s, d, q).data)
        BY <1>4, <2>1, <2>5, <4>1
      <4> QED BY <1>1, <2>4, <3>1, <4>2, PageProgrammed
    <3>2. CASE q = PerSector
      <4>1. c.data = <<>>
        <5> DEFINE x == c.data
        <5>1. x \in Seq(Bytes) /\ Len(x) = 0
          BY <1>2, <2>5, <3>2
        <5> HIDE DEF x
        <5>2. x = <<>>
          BY <5>1
        <5> QED BY <5>2 DEF x
      <4>2. mem' = mem
        BY <1>4, <2>1, <4>1
      <4> QED BY <1>3, <2>4, <3>2, <4>2, AllFilled
    <3> QED BY <1>2, <3>1, <3>2
  <2>7. Paging(s, d, q, 3)' /\ 3 \in 1..3
    BY <1>3, <2>3, <2>6 DEF Paging, Filled
  <2> QED BY <1>3, <2>7 DEF FlashInv, Stage
<1>7. CASE r = 3
  <2>1. c.op = "status"
    BY <1>7, PlanOps
  <2>2. Filled(mem, expect, s, q + 1) /\ mem' = mem
    BY <1>4, <1>7, <2>1 DEF Paging
  <2>3. CASE q < PerSector
    <3>1. q + 1 \in 0..PerSector /\ i + 1 = 4 + 3*(q + 1) + 1
      BY <1>2, <1>7, <2>3
    <3>2. Plan(s, d)[i + 1].op = "wren"
      <4>1. \A p \in 0..PerSector : Plan(s, d)[4 + 3*p + 1].op = "wren"
        BY PlanOps
      <4>2. Plan(s, d)[4 + 3*(q + 1) + 1].op = "wren"
        BY <3>1, <4>1
      <4>3. i + 1 = 4 + 3*(q + 1) + 1
        BY <3>1
      <4> HIDE DEF i
      <4> QED BY <4>2, <4>3, Zenon
    <3>3. At(s, d, 4 + 3*(q + 1) + 1)'
      BY <1>1, <1>2, <1>4, <2>1, <3>1, <3>2, GoesOn
    <3>4. Paging(s, d, q + 1, 1)' /\ 1 \in 1..3
      BY <1>3, <2>2, <3>3 DEF Paging, Filled
    <3> QED BY <1>3, <3>1, <3>4 DEF FlashInv, Stage
  <2>4. CASE q = PerSector
    <3>1. i = Ends
      BY <1>2, <1>7, <2>4
    <3>2. todo' = <<>> /\ phase' = "low" /\ ~odr'.sel /\ got' = wanted'
      BY <1>1, <1>2, <3>1, GoesOn
    <3>3. mem = expect
      BY <1>3, <2>2, <2>4, AllFilled
    <3>4. Idle'
      BY <1>3, <1>4, <2>1, <2>2, <3>2, <3>3 DEF Idle
    <3> QED BY <1>3, <3>4 DEF FlashInv, Stage
  <2> QED BY <1>2, <2>3, <2>4
<1> QED BY <1>5, <1>6, <1>7

\* A write in progress.
LEMMA WriteGoesOn ==
    ASSUME Tuned, NEW s \in 0..Sectors-1, NEW d \in Data, Disk, UNCHANGED keyVars,
           \/ \E i \in 1..4 : Erasing(s, d, i)
           \/ \E q \in 0..PerSector, r \in 1..3 : Paging(s, d, q, r)
    PROVE  FlashInv'
<1>1. CASE \E i \in 1..4 : Erasing(s, d, i)
  <2>1. PICK i \in 1..4 : Erasing(s, d, i)
    BY <1>1
  <2>2. At(s, d, i) /\ i \in 1..Ends /\ Plan(s, d)[i].op # "read"
    BY <2>1, PlanOps DEF Erasing
  <2>3. todo # <<>>
    BY <2>2, Ahead
  <2>4. CASE Deselect
    BY <2>1, <2>4, EraseGoesOn
  <2>5. CASE Select \/ Shift
    <3>1. Tuned' /\ At(s, d, i)' /\ UNCHANGED <<mem, wel, expect>>
      BY <2>2, <2>5, StaysAt
    <3>2. Erasing(s, d, i)'
      BY <2>1, <3>1 DEF Erasing, Filled, Beside
    <3> QED BY <3>1, <3>2 DEF FlashInv, Stage
  <2> QED BY <2>3, <2>4, <2>5 DEF Disk, Call, disk_read, disk_write
<1>2. CASE \E q \in 0..PerSector, r \in 1..3 : Paging(s, d, q, r)
  <2>1. PICK q \in 0..PerSector, r \in 1..3 : Paging(s, d, q, r)
    BY <1>2
  <2> DEFINE i == 4 + 3*q + r
  <2>2. At(s, d, i) /\ i \in 1..Ends /\ Plan(s, d)[i].op # "read"
    <3>1. i \in 1..Ends
      <4>1. PerSector \in Nat
        BY Sizes
      <4> QED BY <4>1 DEF Ends
    <3>2. /\ Plan(s, d)[4 + 3*q + 1].op = "wren"
          /\ Plan(s, d)[4 + 3*q + 2].op = "program"
          /\ Plan(s, d)[4 + 3*q + 3].op = "status"
      BY PlanOps
    <3>3. Plan(s, d)[i].op # "read"
      <4>1. r = 1 \/ r = 2 \/ r = 3
        OBVIOUS
      <4> QED BY <3>2, <4>1
    <3> QED BY <2>1, <3>1, <3>3 DEF Paging
  <2>3. todo # <<>>
    <3> HIDE DEF i
    <3> QED BY <2>2, Ahead
  <2>4. CASE Deselect
    BY <2>1, <2>4, PageGoesOn
  <2>5. CASE Select \/ Shift
    <3>1. Tuned' /\ At(s, d, i)' /\ UNCHANGED <<mem, wel, expect>>
      <4> HIDE DEF i
      <4> QED BY <2>2, <2>5, StaysAt
    <3>2. Paging(s, d, q, r)'
      BY <2>1, <3>1 DEF Paging, Filled
    <3> QED BY <3>1, <3>2 DEF FlashInv, Stage
  <2> QED BY <2>3, <2>4, <2>5 DEF Disk, Call, disk_read, disk_write
<1> QED BY <1>1, <1>2

LEMMA ReadGoesOn ==
    ASSUME Tuned, NEW s \in 0..Sectors-1, Reading(s), Disk, UNCHANGED keyVars
    PROVE  FlashInv'
<1> DEFINE c == ReadOf(s)
<1>1. c.op = "read" /\ c.addr = Start(s) /\ c.data[1] = SectorSize
  BY DEF ReadOf
<1>2. todo = <<c>> /\ Transfer(c) /\ todo # <<>> /\ Head(todo) = c /\ Tail(todo) = <<>>
  BY DEF Reading
<1> HIDE DEF c
<1>3. CASE Select
  <2>1. Transfer(c)' /\ Wired(odr') /\ UNCHANGED <<mem, todo, got, expect, wanted>> /\ phase' = "shift"
    BY <1>2, <1>3, Selected
  <2>2. Reading(s)' /\ Tuned'
    BY <2>1 DEF Reading, Tuned, keyVars, c
  <2> QED BY <2>2 DEF FlashInv, Stage
<1>4. CASE Shift
  <2>1. /\ Transfer(c)' /\ odr' = odr /\ UNCHANGED <<mem, todo, expect, wanted>>
        /\ got' = [i \in 1..c.data[1] |-> mem[c.addr + i - 1]]
    BY <1>1, <1>2, <1>4, ShiftedIn
  <2>2. got' = wanted
    BY <1>1, <2>1 DEF Reading
  <2>3. Reading(s)' /\ Tuned'
    BY <2>1, <2>2 DEF Reading, Tuned, keyVars, c
  <2> QED BY <2>3 DEF FlashInv, Stage
<1>5. CASE Deselect
  <2>1. /\ ~odr'.sel /\ Wired(odr') /\ phase' = "low" /\ todo' = <<>>
        /\ UNCHANGED <<mem, got, expect, wanted>> /\ ~busy'
    BY <1>1, <1>2, <1>5, Deselected
  <2>2. got = wanted
    BY <1>5 DEF Deselect, Reading
  <2>3. Idle' /\ Tuned'
    BY <2>1, <2>2 DEF Reading, Idle, Tuned, keyVars
  <2> QED BY <2>3 DEF FlashInv, Stage
<1> QED BY <1>2, <1>3, <1>4, <1>5 DEF Disk, Call, disk_read, disk_write

OneSector == Counts = {1}

LEMMA CallBegins ==
    ASSUME OneSector, Tuned, Idle, Disk, UNCHANGED keyVars
    PROVE  FlashInv'
<1>1. Call
  BY DEF Disk, Idle, Select, Shift, Deselect
<1>2. PICK s \in 0..Sectors-1 : disk_read(s, 1) \/ \E d \in Data : disk_write(s, 1, d)
  BY <1>1 DEF Call, OneSector
<1>3. s * SectorSize = Start(s) /\ 1 * SectorSize = SectorSize /\ u16(SectorSize) = SectorSize
  BY Sizes DEF Start
<1>4. phase' = "low" /\ ~odr'.sel /\ ~busy' /\ mem' = mem /\ odr' = odr
  BY <1>2 DEF disk_read, disk_write, chipVars, Idle
<1>5. CASE disk_read(s, 1)
  <2>1. /\ todo' = <<ReadOf(s)>> /\ expect' = expect
        /\ wanted' = [i \in 1..SectorSize |-> expect[Start(s) + i - 1]]
    BY <1>3, <1>5 DEF disk_read, ReadOf
  <2>2. Transfer(ReadOf(s))'
    BY <1>4 DEF Transfer, ReadOf
  <2>3. Reading(s)' /\ Tuned'
    BY <1>4, <2>1, <2>2 DEF Reading, Tuned, Idle, keyVars
  <2> QED BY <2>3 DEF FlashInv, Stage
<1>6. ASSUME NEW d \in Data, disk_write(s, 1, d) PROVE FlashInv'
  <2> DEFINE new == [k \in Cells |-> IF k \in Start(s)..Start(s)+SectorSize-1
                                     THEN Buffer(d, SectorSize)[k - Start(s) + 1] ELSE expect[k]]
  <2>1. expect' = new /\ todo' = Plan(s, d) /\ got' = wanted'
    BY <1>3, <1>6 DEF disk_write, Plan
  <2>2. todo' = SubSeq(Plan(s, d), 1, Ends)
    BY <2>1, PlanIs, SubSeqFull
  <2>3. Transfer(Plan(s, d)[1])'
    BY <1>4, PlanOps DEF Transfer
  <2>4. Holds(expect', s, d)
    <3>1. ASSUME NEW k \in Cells \cap SectorOf(s)
          PROVE  new[k] = [data |-> d, at |-> k - Start(s) + 1]
      <4>1. k \in Nat /\ Start(s) \in Nat /\ SectorSize \in Nat
        BY Starts, Sizes DEF Cells
      <4>2. k - Start(s) + 1 \in 1..SectorSize
        BY <3>1, <4>1 DEF SectorOf
      <4>3. Buffer(d, SectorSize)[k - Start(s) + 1] = [data |-> d, at |-> k - Start(s) + 1]
        BY <4>1, <4>2, BufferIs
      <4> QED BY <3>1, <4>3 DEF SectorOf
    <3> HIDE DEF new
    <3> QED BY <2>1, <3>1 DEF Holds
  <2>5. Beside(mem', expect', s)
    BY <1>4, <2>1 DEF Beside, SectorOf, Idle, Tuned
  <2>6. expect' = [k \in Cells |-> expect'[k]]
    BY <2>1
  <2>7. At(s, d, 1)'
    BY <2>1, <2>2, <2>3, <2>4 DEF At, Holds
  <2>8. Erasing(s, d, 1)' /\ 1 \in 1..4
    BY <2>5, <2>7 DEF Erasing, Beside
  <2>9. Tuned'
    BY <1>4, <2>6 DEF Tuned, keyVars
  <2> QED BY <2>8, <2>9 DEF FlashInv, Stage
<1> QED BY <1>2, <1>5, <1>6

LEMMA DiskGoesOn ==
    ASSUME OneSector, FlashInv, Disk, UNCHANGED keyVars
    PROVE  FlashInv'
<1>1. CASE Idle
  BY <1>1, CallBegins DEF FlashInv
<1>2. CASE \E s \in 0..Sectors-1 : Reading(s)
  BY <1>2, ReadGoesOn DEF FlashInv
<1>3. CASE \E s \in 0..Sectors-1, d \in Data, i \in 1..4 : Erasing(s, d, i)
  BY <1>3, WriteGoesOn DEF FlashInv
<1>4. CASE \E s \in 0..Sectors-1, d \in Data, q \in 0..PerSector, r \in 1..3 : Paging(s, d, q, r)
  BY <1>4, WriteGoesOn DEF FlashInv
<1> QED BY <1>1, <1>2, <1>3, <1>4 DEF FlashInv, Stage

\* A step that moves nothing on the chip: it turns columns, or ends an erase or
\* the writing of a page.
LEMMA NothingMoves ==
    ASSUME FlashInv, Tuned', odr'.sel = odr.sel, busy' = busy \/ ~busy',
           UNCHANGED <<mem, wel, cmd, todo, phase, got, expect, wanted>>
    PROVE  FlashInv'
<1>1. /\ UNCHANGED <<mem, wel, cmd, todo, phase, got, expect, wanted>>
      /\ odr'.sel = odr.sel /\ (busy' = busy \/ ~busy')
  OBVIOUS
<1>3. ASSUME NEW c, Transfer(c) PROVE Transfer(c)'
  BY <1>1, <1>3 DEF Transfer
<1>4. Idle => Idle'
  BY <1>1 DEF Idle
<1>5. ASSUME NEW s \in 0..Sectors-1, Reading(s) PROVE Reading(s)'
  BY <1>1, <1>3, <1>5 DEF Reading
<1>6. ASSUME NEW s \in 0..Sectors-1, NEW d \in Data, NEW i \in Nat, At(s, d, i) PROVE At(s, d, i)'
  BY <1>1, <1>3, <1>6 DEF At, Holds
<1>7. ASSUME NEW s \in 0..Sectors-1, NEW d \in Data, NEW i \in 1..4, Erasing(s, d, i)
      PROVE  Erasing(s, d, i)'
  BY <1>1, <1>6, <1>7 DEF Erasing, Filled, Beside
<1>8. ASSUME NEW s \in 0..Sectors-1, NEW d \in Data, NEW q \in 0..PerSector, NEW r \in 1..3,
             Paging(s, d, q, r)
      PROVE  Paging(s, d, q, r)'
  <2>1. 4 + 3*q + r \in Nat
    BY Sizes
  <2> QED BY <1>1, <1>6, <1>8, <2>1 DEF Paging, Filled
<1> QED BY <1>4, <1>5, <1>7, <1>8 DEF FlashInv, Stage

\* Without a call in progress nothing is under way.
LEMMA NoCall == FlashInv /\ todo = <<>> => Idle
<1> SUFFICES ASSUME FlashInv, todo = <<>> PROVE Idle
  OBVIOUS
<1>1. \A t \in 0..Sectors-1 : ~Reading(t)
  BY DEF Reading
<1>2. \A t \in 0..Sectors-1, d \in Data, i \in 1..4 : ~Erasing(t, d, i)
  BY PlanOps, Ahead DEF Erasing
<1>3. \A t \in 0..Sectors-1, d \in Data, q \in 0..PerSector, r \in 1..3 : ~Paging(t, d, q, r)
  <2>1. ASSUME NEW t \in 0..Sectors-1, NEW d \in Data, NEW q \in 0..PerSector, NEW r \in 1..3
        PROVE  ~Paging(t, d, q, r)
    <3> DEFINE i == 4 + 3*q + r
    <3>1. i \in 1..Ends
      BY PlanOps
    <3> HIDE DEF i
    <3>2. ~At(t, d, i)
      BY <3>1, Ahead
    <3> QED BY <3>2 DEF Paging, i
  <2> QED BY <2>1
<1> QED BY <1>1, <1>2, <1>3 DEF FlashInv, Stage

\* A scan that leaves the chip select as it is only turns the columns.
LEMMA ScanBeside ==
    ASSUME FlashInv, NEW s \in Scanners, KeyScan(s), UNCHANGED diskVars, odr'.sel = odr.sel
    PROVE  FlashInv'
<1>0. Tuned
  BY DEF FlashInv
<1>1. CASE WriteAll(s) \/ WriteColumn(s)
  <2>1. word' = word
    BY <1>1 DEF WriteAll, WriteColumn
  <2>2. ASSUME NEW cs, Drive(WithCols(word[s], cs))
        PROVE  Wired(odr') /\ UNCHANGED <<mem, wel, busy, cmd>>
    <3>1. odr' = WithCols(word[s], cs) /\ Wired(odr')
      BY <1>0, <2>2 DEF Drive, WithCols, Tuned, Wired
    <3>2. ~(odr.sel /\ ~WithCols(word[s], cs).sel) /\ odr.sel = WithCols(word[s], cs).sel
      BY <3>1
    <3> QED BY <2>2, <3>1, <3>2 DEF Drive
  <2>3. Wired(odr') /\ UNCHANGED <<mem, wel, busy, cmd>>
    BY <1>1, <2>2 DEF WriteAll, WriteColumn
  <2>4. Tuned'
    BY <1>0, <2>1, <2>3 DEF Tuned, diskVars
  <2> QED BY <2>3, <2>4, NothingMoves DEF diskVars
<1>2. CASE ReadAll(s) \/ ReadColumn(s)
  <2>1. word' = [word EXCEPT ![s] = odr] /\ UNCHANGED chipVars
    BY <1>2 DEF ReadAll, ReadColumn
  <2>2. Tuned'
    BY <1>0, <2>1 DEF Tuned, chipVars, diskVars
  <2> QED BY <2>1, <2>2, NothingMoves DEF chipVars, diskVars
<1>3. CASE Look(s) \/ ReadRows(s) \/ AwaitRelease(s) \/ Return(s)
  <2>1. UNCHANGED <<chipVars, word>>
    BY <1>3 DEF Look, ReadRows, AwaitRelease, NextColumn, Return
  <2>2. Tuned'
    BY <1>0, <2>1 DEF Tuned, chipVars, diskVars
  <2> QED BY <2>1, <2>2, NothingMoves DEF chipVars, diskVars
<1> QED BY <1>1, <1>2, <1>3 DEF KeyScan

LEMMA FlashInit == Init => FlashInv
<1> SUFFICES ASSUME Init PROVE FlashInv
  OBVIOUS
<1> DEFINE none == [cols |-> {}, sel |-> FALSE]
<1>1. Wired(none) /\ ~none.sel
  BY DEF Wired
<1>2. odr = none /\ word = [s \in Scanners |-> none]
  BY DEF Init, ChipInit, KeypadInit
<1>3. expect = [k \in Cells |-> expect[k]]
  BY DEF Init, DiskInit
<1> HIDE DEF none
<1>4. Tuned
  BY <1>1, <1>2, <1>3 DEF Tuned
<1>5. Idle
  BY <1>1, <1>2 DEF Idle, Init, ChipInit, DiskInit
<1> QED BY <1>4, <1>5 DEF FlashInv, Stage

\* Every step but a scan's keeps the invariant by itself.
LEMMA OthersGoOn ==
    ASSUME OneSector, FlashInv,
           User \/ Chip \/ (Disk /\ UNCHANGED <<keyVars, flipped>>) \/ UNCHANGED vars
    PROVE  FlashInv'
<1>1. CASE User
  <2>1. UNCHANGED <<chipVars, diskVars, word>>
    BY <1>1 DEF User, Press, Release
  <2> QED BY <2>1, NothingMoves DEF FlashInv, Tuned, chipVars, diskVars
<1>2. CASE Chip
  <2>1. UNCHANGED <<odr, mem, wel, cmd, diskVars, word>> /\ ~busy'
    BY <1>2 DEF Chip, Finish, keyVars
  <2> QED BY <2>1, NothingMoves DEF FlashInv, Tuned, diskVars
<1>3. CASE Disk /\ UNCHANGED <<keyVars, flipped>>
  BY <1>3, DiskGoesOn
<1>4. CASE UNCHANGED vars
  <2>1. UNCHANGED <<chipVars, diskVars, word>>
    BY <1>4 DEF vars, keyVars
  <2> QED BY <2>1, NothingMoves DEF FlashInv, Tuned, chipVars, diskVars
<1> QED BY <1>1, <1>2, <1>3, <1>4

LEMMA FlashGives == FlashInv => SectorWritten
<1> SUFFICES ASSUME FlashInv, todo = <<>> PROVE mem = expect /\ got = wanted
  BY DEF SectorWritten
<1> QED BY NoCall DEF Idle

\* Once a scan has moved the chip select nothing is known any more.
UnmovedInv == flipped \in BOOLEAN /\ (~flipped => FlashInv)

LEMMA UnmovedStep ==
    ASSUME OneSector, UnmovedInv, [Next]_vars
    PROVE  UnmovedInv'
<1>0. flipped \in BOOLEAN /\ (~flipped => FlashInv)
  BY DEF UnmovedInv
<1>1. CASE Scan
  <2>1. PICK s \in Scanners : KeyScan(s)
    BY <1>1 DEF Scan
  <2>2. flipped' = (flipped \/ odr'.sel # odr.sel) /\ UNCHANGED diskVars
    BY <1>1 DEF Scan
  <2>3. ASSUME ~flipped' PROVE FlashInv'
    <3>1. ~flipped /\ odr'.sel = odr.sel
      BY <1>0, <2>2, <2>3
    <3> QED BY <1>0, <2>1, <2>2, <3>1, ScanBeside
  <2>4. flipped' \in BOOLEAN
    BY <1>0, <2>2
  <2> QED BY <2>3, <2>4 DEF UnmovedInv
<1>2. CASE User \/ Chip \/ (Disk /\ UNCHANGED <<keyVars, flipped>>) \/ UNCHANGED vars
  <2>1. flipped' = flipped
    BY <1>2 DEF User, Chip, vars
  <2>2. ~flipped => FlashInv'
    BY <1>0, <1>2, OthersGoOn
  <2> QED BY <1>0, <2>1, <2>2 DEF UnmovedInv
<1> QED BY <1>1, <1>2 DEF Next

\* A call of one sector leaves on the chip what it was given, or reads what is
\* there (diskio.c:125, 168-169; bsp_spi_flash.c:181-266), for any pages and any number
\* of them in a sector, any number of sectors and scanning threads, whatever
\* thread uses the flash and wherever the scans cut in: all that can spoil it is
\* a scan that puts back another chip select than it finds (Key.c:28, 39).
THEOREM SectorKept ==
  ASSUME OneSector
  PROVE  Spec => []SectorsKept
<1>1. Init => UnmovedInv
  BY FlashInit DEF Init, UnmovedInv
<1>2. UnmovedInv /\ [Next]_vars => UnmovedInv'
  BY UnmovedStep
<1>3. UnmovedInv => SectorsKept
  BY FlashGives DEF UnmovedInv, SectorsKept
<1> QED BY <1>1, <1>2, <1>3, PTL DEF Spec

\* The handler alone, of a higher priority, cannot bring a scan to that: a scan
\* has it read, and puts it back, between two calls (newweb.c:262, 313).
Unselected == \A s \in Scanners : ~word[s].sel
HandlerInv == FlashInv /\ Unselected /\ flipped = FALSE

LEMMA HandlerStep ==
    ASSUME OneSector, ~Sliced, HandlerInv, [Next]_vars
    PROVE  HandlerInv'
<1>0. FlashInv /\ Unselected /\ flipped = FALSE /\ Tuned
  BY DEF HandlerInv, FlashInv
<1>1. CASE Scan
  <2>1. PICK s \in Scanners : KeyScan(s)
    BY <1>1 DEF Scan
  <2>2. ~odr.sel /\ flipped' = (flipped \/ odr'.sel # odr.sel) /\ UNCHANGED diskVars
    BY <1>0, <1>1, NoCall DEF Scan, Idle
  <2>3. odr'.sel = odr.sel /\ Unselected'
    <3>1. CASE WriteAll(s) \/ WriteColumn(s)
      <4>1. word' = word /\ \E cs : Drive(WithCols(word[s], cs))
        BY <3>1 DEF WriteAll, WriteColumn
      <4>2. ~odr'.sel /\ odr'.sel \in BOOLEAN /\ odr.sel \in BOOLEAN
        BY <1>0, <4>1 DEF Drive, WithCols, Tuned, Wired, Unselected
      <4> QED BY <1>0, <2>2, <4>1, <4>2 DEF Unselected
    <3>2. CASE ReadAll(s) \/ ReadColumn(s)
      <4>1. odr' = odr /\ word' = [word EXCEPT ![s] = odr]
        BY <3>2 DEF ReadAll, ReadColumn, chipVars
      <4> QED BY <1>0, <2>2, <4>1 DEF Unselected, Tuned
    <3>3. CASE Look(s) \/ ReadRows(s) \/ AwaitRelease(s) \/ Return(s)
      <4>1. odr' = odr /\ word' = word
        BY <3>3 DEF Look, ReadRows, AwaitRelease, NextColumn, Return, chipVars
      <4> QED BY <1>0, <4>1 DEF Unselected
    <3> QED BY <2>1, <3>1, <3>2, <3>3 DEF KeyScan
  <2>4. FlashInv'
    BY <1>0, <2>1, <2>2, <2>3, ScanBeside
  <2> QED BY <1>0, <2>2, <2>3, <2>4 DEF HandlerInv
<1>2. CASE User \/ Chip \/ (Disk /\ UNCHANGED <<keyVars, flipped>>) \/ UNCHANGED vars
  <2>1. flipped' = flipped /\ word' = word
    BY <1>2 DEF User, Press, Release, Chip, vars, keyVars
  <2>2. FlashInv'
    BY <1>0, <1>2, OthersGoOn
  <2> QED BY <1>0, <2>1, <2>2 DEF HandlerInv, Unselected
<1> QED BY <1>1, <1>2 DEF Next

\* A handler that is the only thread to use the flash gets its sectors, at whatever
\* step of a scan its commands come.
THEOREM SectorKeptByHandler ==
  ASSUME OneSector, ~Sliced
  PROVE  Spec => [](~flipped /\ SectorWritten)
<1>1. Init => HandlerInv
  <2>1. Init => Unselected
    BY DEF Init, KeypadInit, Unselected
  <2> QED BY <2>1, FlashInit DEF Init, HandlerInv
<1>2. HandlerInv /\ [Next]_vars => HandlerInv'
  BY HandlerStep
<1>3. HandlerInv => ~flipped /\ SectorWritten
  BY FlashGives DEF HandlerInv
<1> QED BY <1>1, <1>2, <1>3, PTL DEF Spec
=============================================================================
