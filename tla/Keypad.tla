------------------------------- MODULE Keypad -------------------------------
(***************************************************************************)
(* KeyScan (Key.c): all columns of the keypad are driven, and if a row     *)
(* answers twice, 3 ticks apart, one column after the other.  The columns  *)
(* share their port with the chip select of the flash: GPIO_Write writes   *)
(* the whole register, with what was read from it before.                  *)
(***************************************************************************)
EXTENDS FlashChip

CONSTANTS Rows,
          Scanners      \* the threads that read the keypad

VARIABLES
    down,       \* the key that is pressed, or NoKey
    untaken,    \* history: no scan has taken this press yet
    right,      \* history: each key taken was down, and its press untaken
    pc,         \* where each KeyScan is
    col,        \* the column it is at
    word,       \* ODR as it read it
    KeyVal      \* what it will return

keyVars == <<down, untaken, right, pc, col, word, KeyVal>>

NoKey == <<0, 0>>           \* 100, and -1
Keys  == Rows \X Cols
LastCol == CHOOSE c \in Cols : \A d \in Cols : d <= c

KeypadInit ==
    /\ down = NoKey /\ untaken = FALSE /\ right = TRUE
    /\ pc = [s \in Scanners |-> "read_all"]
    /\ col = [s \in Scanners |-> 0]
    /\ word = [s \in Scanners |-> [cols |-> {}, sel |-> FALSE]]
    /\ KeyVal = [s \in Scanners |-> NoKey]

\* The rows that answer (GPIOC->IDR & 0x00f0): one finger, one key.
RowsHigh == IF down # NoKey /\ down[2] \in odr.cols THEN {down[1]} ELSE {}

\* The user

Press == /\ down = NoKey
         /\ down' \in Keys
         /\ untaken' = TRUE
         /\ UNCHANGED <<chipVars, right, pc, col, word, KeyVal>>

Release == /\ down # NoKey /\ down' = NoKey
           /\ UNCHANGED <<chipVars, untaken, right, pc, col, word, KeyVal>>

-----------------------------------------------------------------------------
Goto(s, there) == pc' = [pc EXCEPT ![s] = there]

\* The scan starts.
ReadAll(s) ==
    /\ pc[s] = "read_all" /\ Goto(s, "write_all")
    /\ word' = [word EXCEPT ![s] = odr]
    /\ KeyVal' = [KeyVal EXCEPT ![s] = NoKey]
    /\ UNCHANGED <<chipVars, down, untaken, right, col>>

\* Mutant: the columns that are driven already stay so.
WithColsAdded(w, cs) == [w EXCEPT !.cols = @ \cup cs]

\* GPIO_Write(GPIOC, ODR & 0xf0ff | cs)
WithCols(w, cs) == [w EXCEPT !.cols = cs]

WriteAll(s) ==
    /\ pc[s] = "write_all" /\ Goto(s, "look")
    /\ Drive(WithCols(word[s], Cols))
    /\ UNCHANGED <<down, untaken, right, col, word, KeyVal>>

\* No row answers: the scan returns; at the second look all is set for the
\* columns.
Look(s) ==
    /\ \/ pc[s] = "look" /\ Goto(s, IF RowsHigh = {} THEN "read_all" ELSE "again")
          /\ UNCHANGED col
       \/ pc[s] = "again" /\ Goto(s, IF RowsHigh = {} THEN "read_all" ELSE "read")
          /\ col' = [col EXCEPT ![s] = 1]
    /\ UNCHANGED <<chipVars, down, untaken, right, word, KeyVal>>

ReadColumn(s) ==
    /\ pc[s] = "read" /\ Goto(s, "write")
    /\ word' = [word EXCEPT ![s] = odr]
    /\ UNCHANGED <<chipVars, down, untaken, right, col, KeyVal>>

WriteColumn(s) ==
    /\ pc[s] = "write" /\ Goto(s, "rows")
    /\ Drive(WithCols(word[s], {col[s]}))
    /\ UNCHANGED <<down, untaken, right, col, word, KeyVal>>

\* The switch has a case for each row alone.
ReadRows(s) ==
    /\ pc[s] = "rows" /\ Goto(s, "release")
    /\ IF \E r \in Rows : RowsHigh = {r}
       THEN LET key == <<CHOOSE r \in RowsHigh : TRUE, col[s]>>
            IN /\ KeyVal' = [KeyVal EXCEPT ![s] = key]
               /\ right' = (right /\ untaken /\ key = down)
               /\ untaken' = FALSE
       ELSE UNCHANGED <<KeyVal, right, untaken>>
    /\ UNCHANGED <<chipVars, down, col, word>>

NextColumn(s) ==
    /\ Goto(s, IF col[s] = LastCol THEN "return" ELSE "read")
    /\ col' = [col EXCEPT ![s] = IF @ = LastCol THEN 0 ELSE @ + 1]
    /\ UNCHANGED <<chipVars, down, untaken, right, word, KeyVal>>

\* while((GPIOC->IDR & 0x00f0) > 0)
AwaitRelease(s) == pc[s] = "release" /\ RowsHigh = {} /\ NextColumn(s)

Return(s) ==
    /\ pc[s] = "return" /\ Goto(s, "read_all")
    /\ UNCHANGED <<chipVars, down, untaken, right, col, word, KeyVal>>

KeyScan(s) == \/ ReadAll(s) \/ WriteAll(s) \/ Look(s) \/ ReadColumn(s) \/ WriteColumn(s)
              \/ ReadRows(s) \/ AwaitRelease(s) \/ Return(s)

-----------------------------------------------------------------------------
\* A key that a scan takes is the one that is pressed, and one press is taken
\* once, although columns are driven and rows read in separate steps
\* (Key.c:25-80).
KeyTrue == right
=============================================================================
