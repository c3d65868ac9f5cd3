----------------------------- MODULE FlashChip ------------------------------
(***************************************************************************)
(* GPIO port C and the flash chip behind its pin 0.  Pins 8-11 of the port *)
(* drive the columns of the keypad (Key.c), pin 0 is the chip select of    *)
(* the W25Q64 (bsp_spi_flash.h), low when the chip is selected.  A command *)
(* begins with a falling edge of pin 0 and is carried out at the rising    *)
(* one.                                                                    *)
(***************************************************************************)
EXTENDS Naturals, Sequences

CONSTANTS Cols,         \* the columns of the keypad
          PageSize,     \* SPI_FLASH_PageSize
          SectorSize,   \* what one erase clears
          Sectors       \* sectors of the file system

ASSUME FlashAssumption ==
    /\ {PageSize, SectorSize, Sectors} \subseteq Nat \ {0}
    /\ SectorSize % PageSize = 0
    /\ Cols \subseteq Nat

VARIABLES
    odr,    \* the output register of the port: columns, and pin 0 (sel)
    mem,    \* the cells of the chip
    wel,    \* write enable latch
    busy,   \* WIP: it is programming or erasing
    cmd     \* the command received since the chip was selected

chipVars == <<odr, mem, wel, busy, cmd>>

Cells   == 0..Sectors*SectorSize-1
Erased  == [data |-> 0, at |-> 0]
Garbled == [data |-> 0, at |-> 1]   \* programmed without having been erased

None == [op |-> "none", addr |-> 0, data |-> <<>>]
Mess == [op |-> "mess", addr |-> 0, data |-> <<>>]  \* two commands in one selection

\* An address goes round inside its page.
Target(a, i) == PageSize * (a \div PageSize) + ((a + i - 1) % PageSize)

Hit(a, data, k) == {i \in DOMAIN data : Target(a, i) = k}

Programmed(old, a, data) ==
    [k \in DOMAIN old |->
        LET hits == Hit(a, data, k)
        IN IF hits = {} THEN old[k]
           ELSE IF old[k] = Erased
                THEN data[CHOOSE i \in hits : \A j \in hits : j <= i]
                ELSE Garbled]

Cleared(old, a) ==
    [k \in DOMAIN old |-> IF k \div SectorSize = a \div SectorSize THEN Erased ELSE old[k]]

\* The rising edge: what was received is carried out.
Carry == LET works == wel /\ cmd.op \in {"program", "erase"} /\ cmd.data # <<>>
         IN /\ mem' = CASE works /\ cmd.op = "program" -> Programmed(mem, cmd.addr, cmd.data)
                        [] works /\ cmd.op = "erase"   -> Cleared(mem, cmd.addr)
                        [] OTHER                       -> mem
            /\ busy' = (busy \/ works)
            /\ wel' = ((wel /\ ~works) \/ cmd.op = "wren")

\* The port takes a new value, the chip sees the edge if there is one.
Drive(new) == /\ odr' = new
              /\ IF odr.sel /\ ~new.sel THEN Carry ELSE UNCHANGED <<mem, wel, busy>>
              /\ cmd' = IF odr.sel = new.sel THEN cmd ELSE None

\* A command is shifted in.  Nobody listens unless the chip is selected, and
\* while it is busy it knows only the status command.
Shifted(c) == /\ cmd' = CASE ~odr.sel                    -> cmd
                          [] odr.sel /\ cmd # None       -> Mess
                          [] busy /\ c.op # "status"     -> Mess
                          [] OTHER                       -> c
              /\ UNCHANGED <<odr, mem, wel, busy>>

Finish == /\ busy /\ busy' = FALSE
          /\ UNCHANGED <<odr, mem, wel, cmd>>

ChipInit == /\ odr = [cols |-> {}, sel |-> FALSE]
            /\ mem = [k \in Cells |-> Erased]
            /\ wel = FALSE /\ busy = FALSE /\ cmd = None
=============================================================================
