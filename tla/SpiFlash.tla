------------------------------ MODULE SpiFlash ------------------------------
(***************************************************************************)
(* disk_read and disk_write (diskio.c) over the functions of               *)
(* bsp_spi_flash.c: each call is a list of transfers, and a transfer       *)
(* selects the chip, shifts a command and deselects it.                    *)
(***************************************************************************)
EXTENDS FlashChip, SequencesExt

CONSTANTS Counts,       \* sectors FatFs moves at once
          Data          \* contents it writes

ASSUME CountsAssumption == Counts \subseteq Nat \ {0} /\ Data \subseteq Nat \ {0}

VARIABLES
    todo,   \* transfers of the call in progress
    phase,  \* of the first of them
    got,    \* what disk_read has read
    expect, \* history: what the cells should hold
    wanted  \* history: what disk_read should read

diskVars == <<todo, phase, got, expect, wanted>>

DiskInit == /\ todo = <<>> /\ phase = "low"
            /\ got = <<>> /\ wanted = <<>> /\ expect = [k \in Cells |-> Erased]

Op(o) == [op |-> o, addr |-> 0, data |-> <<1>>]
WriteEnable     == <<Op("wren")>>
WaitForWriteEnd == <<Op("status")>>

\* Mutant: it does not wait for the end of the erase.
SectorEraseNoWait(a) == WriteEnable \o WaitForWriteEnd \o <<[Op("erase") EXCEPT !.addr = a]>>

SectorErase(a) == WriteEnable \o WaitForWriteEnd
                  \o <<[Op("erase") EXCEPT !.addr = a]>> \o WaitForWriteEnd

PageWrite(buffer, from, a, n) ==
    WriteEnable
    \o <<[op |-> "program", addr |-> a, data |-> SubSeq(buffer, from + 1, from + n)]>>
    \o WaitForWriteEnd

\* n whole pages, each three transfers
Pages(buffer, from, a, n) ==
    [t \in 1..3*n |->
        LET done == ((t-1) \div 3) * PageSize
        IN PageWrite(buffer, from + done, a + done, PageSize)[1 + ((t-1) % 3)]]

\* The five cases of SPI_FLASH_BufferWrite.  In the second, what is left over
\* is written even if it is nothing.
BufferWrite(buffer, a, len) ==
    LET Addr  == a % PageSize
        count == PageSize - Addr
        whole == (len \div PageSize) * PageSize
        left  == len - count
        full  == (left \div PageSize) * PageSize
    IN CASE Addr = 0 /\ len < PageSize -> PageWrite(buffer, 0, a, len)
         [] Addr = 0 /\ len >= PageSize ->
               Pages(buffer, 0, a, len \div PageSize)
               \o PageWrite(buffer, whole, a + whole, len % PageSize)
         [] Addr # 0 /\ len < PageSize /\ len > count ->
               PageWrite(buffer, 0, a, count) \o PageWrite(buffer, count, a + count, len - count)
         [] Addr # 0 /\ len < PageSize /\ len <= count -> PageWrite(buffer, 0, a, len)
         [] Addr # 0 /\ len >= PageSize ->
               PageWrite(buffer, 0, a, count)
               \o Pages(buffer, count, a + count, left \div PageSize)
               \o (IF left % PageSize = 0 THEN <<>>
                   ELSE PageWrite(buffer, count + full, a + count + full, left % PageSize))

\* The length is passed as 16 bits: sixteen sectors are none.
u16(n) == n % (16 * SectorSize)

-----------------------------------------------------------------------------
Buffer(d, n) == [i \in 1..n |-> [data |-> d, at |-> i]]

\* Only the first sector is erased.
disk_write(sector, count, d) ==
    LET a == sector * SectorSize
        n == count * SectorSize
    IN /\ todo = <<>>
       /\ todo' = SectorErase(a) \o BufferWrite(Buffer(d, n), a, u16(n))
       /\ expect' = [k \in Cells |-> IF k \in a..a+n-1 THEN Buffer(d, n)[k - a + 1] ELSE expect[k]]
       /\ got' = <<>> /\ wanted' = <<>>
       /\ UNCHANGED <<chipVars, phase>>

disk_read(sector, count) ==
    /\ todo = <<>>
    /\ todo' = <<[op |-> "read", addr |-> sector * SectorSize, data |-> <<u16(count * SectorSize)>>]>>
    /\ wanted' = [i \in 1..count*SectorSize |-> expect[sector*SectorSize + i - 1]]
    /\ got' = <<>>
    /\ UNCHANGED <<chipVars, phase, expect>>

Call == \E sector \in 0..Sectors-1, count \in Counts :
          /\ sector + count <= Sectors
          /\ disk_read(sector, count) \/ \E d \in Data : disk_write(sector, count, d)

\* SPI_FLASH_CS_LOW
Select == /\ todo # <<>> /\ phase = "low" /\ phase' = "shift"
          /\ Drive([odr EXCEPT !.sel = TRUE])
          /\ UNCHANGED <<todo, got, expect, wanted>>

\* The bytes of the command.  The status is asked for until the chip is ready.
Shift == LET c == Head(todo)
         IN /\ todo # <<>> /\ phase = "shift" /\ phase' = "high"
            /\ c.op = "status" => ~busy
            /\ Shifted(c)
            /\ got' = IF c.op = "read" /\ odr.sel /\ cmd = None /\ ~busy
                      THEN [i \in 1..c.data[1] |-> mem[c.addr + i - 1]] ELSE got
            /\ UNCHANGED <<todo, expect, wanted>>

\* SPI_FLASH_CS_HIGH
Deselect == /\ todo # <<>> /\ phase = "high" /\ phase' = "low"
            /\ Drive([odr EXCEPT !.sel = FALSE])
            /\ todo' = Tail(todo)
            /\ UNCHANGED <<got, expect, wanted>>

Disk == Call \/ Select \/ Shift \/ Deselect

-----------------------------------------------------------------------------
\* When disk_write returns, the cells hold what was written and nothing beside
\* it has changed, and disk_read has read what the cells hold, however the
\* bytes were cut into pages and whatever else the port was used for meanwhile
\* (diskio.c:125, 168-169).
SectorWritten == todo = <<>> => mem = expect /\ got = wanted

\* The same of SPI_FLASH_BufferWrite for every address and length.
After(cells, transfers) ==
    FoldLeft(LAMBDA old, c : IF c.op = "program" THEN Programmed(old, c.addr, c.data) ELSE old,
             cells, transfers)

BufferWriteRight ==
    \A a \in Cells, n \in 0..Sectors*SectorSize :
       a + n <= Sectors*SectorSize =>
         After([k \in Cells |-> Erased], BufferWrite(Buffer(1, n), a, n))
           = [k \in Cells |-> IF k \in a..a+n-1 THEN Buffer(1, n)[k - a + 1] ELSE Erased]
=============================================================================
