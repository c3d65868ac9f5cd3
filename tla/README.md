# The smart lock, modelled, checked and proved

The repository is the firmware of a door lock (STM32F103, RT-Thread 3.0.3): a 4G
modem connects it to a server and, through it, to the owner's phone; a keypad and
a fingerprint module (AS608) serve whoever stands before the door; a relay drives
the bolt; passwords and one-time codes lie in a FAT volume on SPI flash.  Paths
below are relative to `src/SmartLock/User/Bsp/` unless they begin with `src/`;
`readme.txt` is `src/SmartLock/Doc/readme.txt`.  The sources are GBK-encoded.

The project's rule: a module follows the code as it is, also where that is
surprising, and every assumption about what the code does not control (the
server, the link, the power, who types when) is a CONSTANT with a name.

## 1. Inventory

Four threads and four interrupts share memory without a lock anywhere.

| component | state | operations | talks to |
|---|---|---|---|
| 4G receive path (`G4/G4.c` 581-611, `web/newweb.c` 170-210) | ring of 3 buffers `G4_GET`, index, `getnum` | `G4_USART_IRQHandler` (byte, idle line) | mailbox of pointers, 5 entries, to the handler |
| server session (`web/newweb.c`, `../stm32f10x_it.c`, `G4_SetLIKAPin`) | `conn_flag`, `comm_key`, the EXTI line of the link pin | `newwebconnect_entry` and `newwebhandle_entry` (both priority 3), `EXTI1_IRQHandler` | modem reset and link pin; queue of 10 messages from the handler and the interrupt to the connection thread |
| credentials (`Handle_code`, `Handle_flash`, `Open/open.c`, three commands in `newweb.c`) | `sys_password`, `flash_password`, `TPC_code` and its count, flags `i`, `j`, **one `FIL fp`** | `handle_sys`, `handle_FR`, `Handle_flash`, `setTemporaryCode`, `modifyPassword` | three files through FatFs; threads of priority 8, 8 and 3 |
| outputs (`relay`, `led`, `BEEP`) | five pins | on, delay, off; in `newweb.c` 218-240, `handle_sys`, `press_FR`, `verify_FR`, `Add_FR` | three threads |
| keypad (`Keyboard/Key.c`, `GET_str`, `GET_NUM`) | four columns, `num`, `sign` | `GetKeyVal`, scanned by two threads of equal priority | credentials, fingerprint dialogues |
| fingerprint link (`HARDWARE/AS608`, `USART2`, `TIMER`) | receive buffer, `USART2_RX_STA` | commands, receive interrupt, frame timer, `JudgeStr`, `PS_HandShake` | the module AS608 |
| fingerprint dialogues (`Handle_AS608`) | `verify_sign`, `ValidN`, `AS608Para` | press, verify, add, delete | link, outputs, keypad |
| FatFs (`FATFS/ff.c`), disk layer (`FATFS/diskio.c`), flash (`flash/bsp_spi_flash.c`) | sector buffer of an open file, the flash | `f_open` .. `f_close`, `disk_write`, erase and program | credentials |
| RT-Thread (`src/SmartLock/rtthread/3.0.3/src`) | mailbox, message queue, timers, heap | `rt_mb_*`, `rt_mq_*`, `rt_thread_delay` | every thread |
| codecs (`AES`, `BASE64`, `CRC`, `cJSON`) | the expanded key `g_KeyTable` | frame to command, feedback to frame | session |

`PROJECT.json` lists all of them, with the parts left out and the reason.

**What is hard here.** Interrupts run between any two steps and share flags with
threads (`conn_flag`, the ring).  Sends never wait and their results are ignored,
so every queue has a limit that silently bites.  Threads sleep inside handlers
(an unlock holds the handler for 1000 ticks), while the world goes on.  One file
object serves three threads.  Power may fail between spending a code and the
relay.  A late answer of the server or of the sensor is taken for the answer to
the next question.  The hazards of `PROJECT.json` name the line of each.

**What makes each part correct.** Receive path: frames are handed over whole, once,
in order.  Session: the lock serves with the link up and this session's key, what
is decrypted as a command was sent as one, a lost link wakes the connection
thread, the lock comes back online.  Credentials: only a stored password or an
unused code opens, a code opens once also across a power failure, an unused code
stays, a change is what was chosen.  Outputs: nothing stays on, the bolt closes.
Sensor link: an unlock follows only the answer to the search just asked, a finger
is stored only after it matched.  Queues: a bounded FIFO, no wakeup and no slot is
lost, nobody waits longer than he asked.  Keypad: what is taken was pressed, and once.
Flash: a sector holds what was written last.  Codecs: what goes in comes out.

## 2. Modules

| module | models | state and actions against the code |
|---|---|---|
| `FrameChannel` | the promise of the receive path | a FIFO of whole frames: `Announce`, `Deliver` |
| `G4Rx` | the receive path | the variables of `G4_USART_IRQHandler` by name; `RxFirst`, `RxByte`, `RxIdle` are its branches (first byte, further byte, idle line), `Recv`, `Decode`, `Act` the handler's use of a pointer.  A byte carries the number of its frame. |
| `G4RxProofs` | | proofs about `G4Rx`, refinement of `FrameChannel` included |
| `WebSession` | both web threads, the link interrupt, the EXTI line, modem and server | one action per step of `newwebconnect_entry` between two points where another thread or interrupt may act, `MbRecv` .. `Ignore` for `newwebhandle_entry`, `LinkIsr`.  A frame or key has the age of its session (0 now, 1 the last, 2 older), so the number of sessions has no bound. |
| `WebSessionProofs` | | proofs about `WebSession` |
| `FatFile` | `f_open`, `f_read`, `f_write`, `f_close` on one short file | operators: an object that is not open does nothing, reopening drops a dirty buffer, closing writes it |
| `Credentials` | keypad thread, fingerprint thread's boot and passwords, server commands, power failures | each FatFs call is a step (`Open`, an `...Io` action per section, `Close`); a command of the server is one step between any two of them.  `OneUser` and `CommandsBetween` say when a dialogue or a command may begin; once begun, nothing in the model holds it back |
| `MCCredentials` | | the two initial contents of the flash |
| `CredentialsProofs` | | proofs about `Credentials` |
| `BoundedQueue` | the promise of a mailbox and of a message queue | items in the order put, each to one thread, at most `Cap`: `Put`, `Get` |
| `IpcThread` | what both share in `rtthread/3.0.3/src/ipc.c` | threads inside a call, the suspension list, the thread timer; a resumed thread is off the list and still inside its call |
| `Mailbox` | `rt_mb_create`, `rt_mb_send_wait`, `rt_mb_recv` | the ring by the names of the code; each stretch with interrupts disabled is a step, of a thread or of an interrupt |
| `MsgQueue` | `rt_mq_create`, `rt_mq_send`, `rt_mq_recv` | the slots chained into two lists; a slot is on neither while it is filled (`Fill`) or copied out (`Copy`), with interrupts enabled |
| `MCIpc` | | threads over one of the two, ticks and fairness |
| `IpcProofs` | | proofs about the two, refinement of `BoundedQueue` included |
| `Sensor` | the link to the AS608 | `USART2_IRQHandler` in two steps, for the higher-priority `TIM7_IRQHandler` may come between its test and its store; `JudgeStr` and `PS_HandShake` step by step; the module executes or loses a command |
| `Fingerprint` | hand-shake, `press_FR`, `verify_FR`, `Add_FR`, `Del_FR` over `Sensor` | `step` is the command a dialogue is at, `Confirmed` and `Refused` say what follows it; the module's buffers and library |
| `FingerprintProofs` | | proofs about `Fingerprint` and, through it, `Sensor` |
| `FlashChip` | port C and the W25Q64 behind pin 0 | the output register whole; a command begins and ends with the edges of the chip select; programming only clears |
| `Keypad` | `KeyScan` | drive, read, wait, read again, column by column; each `GPIO_Write` is a read and a write of the whole register |
| `SpiFlash` | `disk_read`, `disk_write`, `SPI_FLASH_BufferWrite`, `SPI_FLASH_SectorErase` | a call is the list of its transfers, a transfer is select, shift, deselect |
| `PortC`, `MCPortC` | keypad and flash together | the handler of priority 3 or, with `Sliced`, a thread of the keypad's own priority; `flipped` notes when a scan moved the chip select |
| `PortCProofs` | | proofs about `PortC`: the keypad's on one side, the flash's on the other |
| `Codecs` | `myaes.c`, the modes of `AES.c`, `assembleWebMsg`, `Base64_DecodeToUChArr` | operators over sequences of bytes; the cipher of one block and the CRC are parameters |
| `Checksum` | `crc16bitbybit`, `crc16tablefast` | folds over the bytes |
| `MCSession` | | the session, and the codecs evaluated on messages of 1 to 49 bytes |
| `CodecsProofs` | | proofs about `Codecs` |
| `Door` | what three threads do to five outputs | a thread's work is the sequence of writes and delays of its source function; `Write`, `Tick` |
| `DoorProofs` | | proofs about `Door` |

`G4Rx` ends where `WebSession` begins (`Decode`/`Act` are there `MbRecv` and what
follows); `WebSession!Execute` stands for the commands that `Credentials` and `Door`
spell out.  They are composed by their interfaces, not in one state space: the
session's mailbox is `FrameChannel` by the refinement proved.  `G4Rx` and `WebSession`
send to and take from a mailbox or a queue in one step; that the calls of RT-Thread,
with threads resumed in between, come to that is `MailboxImplements` and
`QueueImplements`, against `BoundedQueue`.  `Door` takes over where `Fingerprint` sets
`open`; `Credentials` decides who may enrol.  The commands
are one atomic step for the priority-8 threads because the handler has priority 3
and does not block within a command other than unlock.

## 3. Runs

Passing runs, what they ask and their bounds:

| run | states | question | bounds and why they are enough |
|---|---|---|---|
| `g4rx` | 871 | with at most 3 frames outstanding: no overwrite, FIFO, every announced frame decoded | ring 3 and mailbox 5 are the code's; buffers of 2 bytes have a first, a last and a full; 5 frames go round the ring with rest.  The theorems lift all five constants. |
| `g4rx_over` | 63,743 | with up to 7 outstanding: what is taken is in order and never older than announced | 7 exceed both the ring and the mailbox, so overwriting, mixing and `-RT_EFULL` all happen |
| `session_kept` | 11,735 | key, link and branch agree, the lock comes to stay online, if answers come in time and the link falls only while its interrupt is armed | 2 polls: one that goes on and one that gives up; mailbox and queue of 2 fill; 2 drops: one in a session, one in the session after |
| `session_any` | 98,838 | without those assumptions, with and without latching of masked edges: the interrupt never fires unreported, the thread never sleeps on a lost session | mailbox of 3, so an answer, a command and a stale frame can wait together |
| `cred_entry` | 1,832,908 | used one dialogue at a time, commands between dialogues, a power failure at any call: a code opens once, an unused one stays, a credential opens and nothing else and is not refused, only the authentication password opens the fingerprint menu, a change is made by who knows the password and is stored | 2 passwords, 1 authentication password and 2 codes (one may replace the other) besides the factory values; 2 failures, each of which may tear the sector in writing: one in the boot that follows the other.  The theorems lift the passwords, codes and failures. |
| `door` | 21,155 | neither the relay nor a LED is left on, the bolt closes | a second of 2 ticks, shorter delays of 1: every order of the three windows' edges occurs.  The theorem lifts both. |
| `ipc` | 207,636 | are mailbox and message queue bounded FIFOs, is no wakeup and no slot lost, does a call wait no longer than it may, and end if arrivals go on | 2 threads and the interrupt: a third party may come between a resume and the resumed; 2 mails or slots fill, empty and wrap; waiting times none, 2 ticks (so that a rest of 1 is waited again) and for ever.  The theorems lift all of them. |
| `finger` | 423,102 | while the module answers in time: is each confirmation the command's own, does the relay open only for an enrolled finger on the sensor, is only what matched stored, does the hand-shake end | a buffer of 3 parts holds an answer and the byte of the module's start; 2 fingers and 2 places: the right one, a wrong one, none; commands may be lost.  The theorems lift the buffer, the fingers and the places. |
| `portc` | 974,303 | is every key taken pressed, and once, and are sectors written and read whole, the keypad scanned and the flash used by threads that cut in on each other anywhere, up to the first scan that moves the chip select | 3 columns and 2 rows: first, middle, last; sectors of 2 pages, 2 sectors, 2 contents: an erase that was left out, or of the wrong sector, shows.  `Unmoved` ends the exploration at the first moved select.  The theorems lift the keypad, the pages, the sectors and their number. |

The run `session_kept` also evaluates, as assumptions of `MCSession`, that the codecs
give back messages of 1 to 49 bytes (below, at and above one, two and three
blocks), that a key comes through Base64 with a line break at any place, and that the
two CRCs agree (in the frames a sum stands for the CRC, which nobody looks at); `portc` evaluates `BufferWriteRight` of `SpiFlash`: the five cases of
`SPI_FLASH_BufferWrite` program exactly the bytes asked for, for every address and length
of the small flash.

The types of the session and of the outputs are proved (`TypeCorrect` of their modules)
and not asked of the runs again.  Every property of every passing run has a mutant of a mapped definition that breaks
it.  `CHECK_DEADLOCK FALSE` is said only of `G4Rx`, whose peer stops after
`MaxFrames`.

Runs that show the code departing from what it says:

* `session_late`: an answer that arrives at the last poll sets `conn_flag` after the
  thread gave up; the next session starts as authenticated with the old key and
  its answer is decrypted as a command (against `newweb.c` 206).
* `cred_empty`: a code was stored, no password ever was, and the lock restarted: an
  entry of no digits unlocks (against `Handle_code.c` 139).
* `cred_gate`: `handle_sys` looks at an entry only when a password was found at the start,
  or the code's count in RAM is 1 (`Handle_code.c` 209).  On a lock that had no password
  at its start the one chosen or sent since is dropped unread, with no beep; so is a code sent
  since the start, and the compiled default always (against `Handle_code.c` 139, and
  `Handle_flash.c` 66 says the default may be used).  `RightAccepted` speaks of the entries
  that come past this test.

Met while modelling, stated here and not kept as runs.  Session and receive path:

* `G4Rx` with `Window = 4`: the fourth frame while three wait overwrites the oldest
  (`NoOverwrite` fails, against `G4.c` 588).  The handler's second of unlocking
  (`newweb.c` 235) is the time in which this happens.
* `WebSession` with `DropAnytime`: a link that falls between the answer and the
  arming of the interrupt goes unnoticed; the lock then serves without a link
  until the next edge (`FlagMeansLinked` and `StaysOnline` fail).
* Whether the EXTI latches an edge while its line is masked decides whether a
  reset with the link up is reported later; `Latch` leaves it open, and with
  latching we do not claim `StaysOnline`; what is proved of the session holds either way.
* Commands still in the mailbox when the link falls are parsed as answers and lost;
  a message taken from the queue after `conn_flag` was cleared is thrown away; the
  CRC of received frames is never looked at; a heartbeat is sent only after 5000
  ticks without a message.
* `g_KeyTable` (`AES.c` 6) holds the expanded key of whichever thread called `AES_Init`
  last.  The connection thread encrypts (`newweb.c` 50) and the handler decrypts (196,
  207) at one priority, in slices of 20 ticks: a slice that ends within a call mixes
  keys.  `WebSession` encrypts and decrypts in one step.
* `myaes_encrypt` leaves out the first block of a message of exactly 16 bytes (`myaes.c`
  45); the lock's own messages are longer.  `dataRemove_pkcs5padding` does not look
  whether the last byte is a padding.  Both are in `Codecs` as they are.

Credentials and outputs:

* The code keeps neither `OneUser` nor `CommandsBetween`.  With `OneUser` alone (commands at
  any call, no power failure, 1,350,000 states), `TypeOK` and `OwnContents` hold and the rest of
  `cred_entry` fails.  A command between `f_write` and `f_close` of the spending reopens
  `fp`, the dirty buffer is lost and the code stays in the flash (`Handle_code.c` 252); one
  that arrives during an entry can be overwritten by the spending of the last
  (`UnusedCodeKept`); a password changed by a command within an entry is refused
  (`RightAccepted`) or lets in with the old one (`OnlyCredentials`); an entry can be spent by
  one reading of the globals and let in by another (`UsedOnce`, 246 and 261); a
  command can replace a password that is being changed (`ChangeStored`, `OwnerChanges`) or
  close the file under a read of the authentication password (`AuthOnlyByAuth`).
* Without `OneUser` the two threads of priority 8 read and write each other's files through
  `fp` (112 of `Handle_code.c`; `OwnContents` and the others fail, of `UsedOnce` TLC found it
  only with commands at any call as well), and the keypad is served before
  `Handle_flash` has mounted the volume: a password chosen then is not stored
  (`ChangeStored`), and the read at 164 leaves the default in `sys_password`, so that who
  typed the default comes to choose the next password (`OwnerChanges`, 169).
* `verify_FR` switches the beeper on (`Handle_AS608.c` 283); if the module cannot make
  features of the image it breaks out at 321, past the line that switches it off (323), and
  the beeper sounds until the next dialogue or refusal.  `press_FR` goes on to the line (262).
  `NeverLeftOn` is of the relay and the LEDs for that reason.
* `Door`: the off of one thread cuts short the second of another (`readme.txt` 28).
* Unlocks at the keypad and by finger are not reported to the server, though
  `readme.txt` 27 says every one is: the calls are commented out.

Fingerprints:

* `Fingerprint` with `Timely = FALSE` (with `Len(order) <= 2` and `Len(line) <= 3` as
  bound): an answer that comes after its command timed out is taken for the next
  one's (`AnswersMatch`), a search that failed then opens (`OpensForEnrolled`), and a byte at
  the moment TIM7 expires is stored with bit 15 in its index (`NoWildStore`, `usart2.c` 40
  and 47).  `JudgeStr` knows an answer by its header and never empties the buffer.
* A module that does not answer keeps `Handle_AS608` in the hand-shake, and `Handle_flash`
  behind it never reads the passwords.  If `PS_ReadSysPara` fails `PS_max` stays 0 and
  the loop of `Add_FR` that asks for a place never ends.
* `str` has 30 bytes and 50 are cleared (`Handle_AS608.c` 394 and 403).
* `GET_NUM` returns 0xFFFF and 0xFF00 for keys 13 and 14, values that can be typed too;
  `Del_FR` goes on after the first and empties the library at the second; 65536 and
  more wrap.  The delete key of `GET_str` takes an empty entry to 255 digits.
* `verify_FR` finds a finger unknown and `Add_FR` images anew: the finger enrolled need
  not be the one that was looked up.

Keypad and flash:

* `PortC` with `Sliced = TRUE`: a scan that read the port before another thread of its
  priority selected the chip puts the old level back and ends the command, or the other
  way round selects the chip (`SectorWritten` fails; the code does this where
  the keypad thread is at a file and the fingerprint thread scans, or the reverse).  The handler of priority 3 is not exposed
  to it: a scan does not run while it transfers (`SectorKeptByHandler`).  `SectorKept` says
  that the moved select is all a scan can do to the flash: to write the columns alone
  (`BSRR`) would be enough.  Two threads at the flash at once are not modelled here.
* `PortC` with two scanners (both the keypad thread and the fingerprint thread read
  keys): one drives a column while the other reads (`KeyTrue`); which of them acts on a
  press is chance, since `num` and `sign` are shared.  `KeyTakenInTurn` asks only that one
  scan has ended when the next begins.
* `PortC` with `Counts = {2}`: `disk_write` erases the first sector only and passes the
  length in 16 bits (`SectorWritten`).  FatFs moves single sectors for the lock's short
  files.

## 4. Fairness

`G4Rx`: weak fairness of the handler (it shares the highest priority
with the connection thread, in slices of 20 ticks, and its wait in an unlock ends) and of the idle interrupt (a
line that carries no byte is idle).  `WebSession`: weak fairness of the interrupt and
both threads, of the modem connecting when it may, and strong fairness of the
server accepting: asked again and again it answers yes in the end.  A link may
fall at most `MaxDrops` times by itself, which is what "comes to stay online" is
conditional on.  `Door`: ticks come and each thread goes on; the priority-3 thread
blocks after each command and both priority-8 threads sleep in `GetKeyVal`, so none
starves another.  `Credentials` claims no liveness.

`MCIpc`: weak fairness of the tick that ends waits and of each thread that is ready,
strong fairness of arrivals, so that `WaitEnds` says: if mails come again and again,
no waiting thread is passed over for ever; the list is first come, first served.
`Fingerprint`: weak fairness of the thread, of the interrupts, of the module starting
and of the module either carrying out or losing a command; strong fairness of it
answering a hand-shake that is asked again and again.  `PortC` claims no liveness.

## 5. Proofs

All theorems hold for every value of the constants that satisfies the named
assumptions of their module (numbers are `\in Nat` or `\in Nat \ {0}`, the set of threads is
finite, what stands for nothing is no mail and no message, the columns of the keypad are numbers,
a sector is a whole number of pages).  Where a theorem needs more, it says so in an
ASSUME of its own, and section 3 names the run or the departure that shows what happens
without it.  Every invariant and every action property of the passing runs is
stated by a theorem but `ChangeStored`.

**`G4RxProofs`.** `TypeCorrect`: types hold for every window.  `FramesKept` and
`RxRefinesChannel` assume `Window <= NumBufs` and `Window <= MbCap`.  `NoOverwrite` alone
is not inductive: it does not say where the next buffer is.  `RingInv` adds that the
mails in use point, oldest first, to consecutive buffers counted back from the one
being filled (`Placed`), that there are no more than `Window` of them (`Bound`), and that
the buffer being filled holds its own frame (`Filled`).  Then the next buffer is
distinct from all in use (`InUseNotNext`) because the distances are below
`NumBufs`.  The refinement maps `ended` to the frames whose line fell idle, `pending` to
the frame being decoded followed by the mailbox.  `OverrunsNeverOlder` needs no
assumption: `AgeInv` says that nothing announced is younger than the last frame that
ended, and the interrupt writes only the number of the youngest frame
(`YoungWrites`).

**`WebSessionProofs`.** `TypeCorrect`, `ArmedOnlyConnected` and `DropAlwaysWakes` hold for
every constant, late answers and drops at any time included.  `ArmInv` says where the
line is masked (`MaskedUntilArmed`), that the flag stands when it is about to be
unmasked (`FlagWhenArmed`; only the interrupt clears the flag, and it is masked until
then) and that a cleared flag left a message (`DropQueued`; a queue too full for the
interrupt's byte is not empty).  `ServedLinked`, `ServedFresh` and `CommandsOnly` assume
`Kept`: no late answers, and a link that falls only while armed.  Whether the EXTI latches
a masked edge is left open: a latched edge ends the next session as soon as it is armed,
and what that leaves in the mailbox are commands that no later session takes.  `KeptInv` adds
four parts to `ArmInv`: what an armed line implies (`Line`), what stands while `conn_flag` is 1
and the link is up (`Served`: this session's key, and nothing but its commands in the
mailbox), what while the fall is not yet reported (`Falling`: it is pending and its line
armed, and only commands wait), and what while `conn_flag` is 0 (`Unserved`: at each step of
the connection thread, which frames may still wait).

**`DoorProofs`.** `NeverLeftOn` is inductive with `Paired`: in what a thread has still to
do, every on of the relay or a LED is followed by an off of the same output.  `Paired` is
proved of each sequence of the code, the failed features of `verify_FR` included (they leave
only the beeper on), and preserved by concatenation, `Tail` and a tick.  `TypeCorrect` and
`NothingLeftOn` hold for delays of any length.

**`IpcProofs`**, of the mailbox, the message queue and what they share.  The inductive
invariant of either says of the waits that a sleeper's clock and what is left of its
time add up to what it asked (`Clocks`), of the lists that a thread is on one of them,
once, and that its wait has not ended (`SleepersOK`).  For the mailbox it adds the
bounds of the ring, and for the refinement that the two offsets lie `entry` apart
(`OffsetsOK`); the queue is the `entry` mails from `out_offset` on, and a send or receive in
progress has not yet put or taken.  For the message queue it adds that there are two
chains, one from each head, which with the slots in the threads' hands make up all
slots, none twice (`Use`).  That a head has only one chain (`ChainUnique`) is proved
from a least place where two would differ.  `SlotsConserved` follows by counting, and the
refinement maps the queue to the contents of the slots along the chain of those sent:
a message is put when its slot is linked, and got when it is unlinked, though its
buffer is copied after.  No lost wakeup (`MbNoLostWakeup`, `MqNoLostWakeup`) is an invariant
of its own over the same facts: a resume takes one thread off the list for each
arrival, and a thread that finds nothing goes back.

**`CredentialsProofs`**.  `CredentialTypes` holds whatever runs inside another's work.
`CredentialFiles` (`OwnContents`: no file gets another's secret, a property no run checks)
needs `OneUser` only: commands may come at any call.  The others need `OneUser` and
`CommandsBetween`: `CredentialAuth`, `CredentialOnce`, `CredentialKept`, `CredentialAccepts`,
`CredentialOwner` and `CredentialOnly`, the last two with a password in the flash from the
start (`Nothing \notin Stored`; `cred_empty` is the lock without one).  These are assumptions on
people and the server, not on the code, and section 3 says what fails without each: the
theorems are about a lock used by one person at a time whose owner sends commands in
between, for any number of power failures at any call.  The invariant of the first group,
`Shared`, ties the one file object to the section that is open: `fp` holds what that
section opened and wrote, or is closed since a command came in between or opening
failed (`Holding`), one thread is in a section (`Alone`), and what was read is of
the kind of its file (`RamKinds`, `AuthKnown`).  The second group adds `Entry`: what an entry
has read of the flash is what the flash still holds (`SysKnown`, `CodeKnown`), the code in the
flash is the one that waits or the one being spent (`Lives`), and an entry that took a
code is on its way from the match to the decision (`Taking`).  The code that waits is
a history of what was sent and taken; a power failure forgets it only where the
replacement of one code by another was torn, and one whose spending did not reach the
flash waits again.

**`FingerprintProofs`** assumes `Timely`: an answer comes before its command times out, which
the module's timing makes usual and the code does not enforce.  A confirmation has no mark of
its command, so `AnswersMatch` alone is not inductive.  `Link` says where an exchange can
be: not asked, asked, the answer on the line, its head in the interrupt, half stored, its
rest in the interrupt, whole, or ended by TIM7 (`Stages`), with the buffer and the
half-finished store of the interrupt that belong to each; what is under way is the
answer to the command in progress, and what it tells is true (`Told`, `Says`).
Before the hand-shake the byte of the module's start may come in between (`Greeting`).
`Known` is what a dialogue learned from the commands before: the image searched for is
the one on the sensor, the two images stored matched.  From `Link` and `Known` follow
`DialogueMatches`, `DialogueOpens` and `DialogueEnrols`.  The race of TIM7 with a store
(`NoWildStore`) is what `Timely` rules out; nothing is claimed of it (section 3).

**`PortCProofs`**.  `KeyTakenInTurn` assumes that no scan begins before another has ended
(`InTurn`) and nothing of the flash: `Sliced` or not, any columns, rows and threads that scan.
`KeyInv` says that when rows are read, the column driven is the one the scan is at, and that
a press once taken is the one whose release some scan awaits.  Two threads scan in the code and nothing keeps them in turn (section 3); the
theorem is about a lock at which nobody uses a finger's dialogue and the keypad at once.
`SectorKept` assumes calls of one sector (`Counts = {1}`, what FatFs asks for the lock's
files) and no more: for pages, sectors, a file system and a number of scanners of any size,
wherever scans and transfers cut in on each other, a call does what it should as long
as no scan has moved the chip select (`SectorsKept`).  `SectorKeptByHandler` adds that
with a flash user of higher priority than the keypad alone (`~Sliced`) none ever does: a scan
then reads the port and puts it back with the chip unselected (`Unselected`).  `FlashInv`
says that the call at hand is at one of its transfers
(`Stage`) with a chip that is a function of it: the old sector erased and its first pages
programmed (`Filled`), the others as they were.  `PlanIs` gives the transfers of a write
position by position, `PageProgrammed` and `SectorCleared` what one does to the cells, and
`Straight` that an aligned page does not wrap.

**`CodecsProofs`** assumes of the cipher only that it takes blocks to blocks and that
decryption undoes it.  `PkcsReadBack` rests on `Undone` (the block of a byte in the
ciphertext is the encryption of its block in the text) and `Padded`; `EncryptIsPkcs` on
`Joined`, since the lock encrypts the last block for itself.  `MessageComesThrough` puts
the frame around both; the CRC may be any number.  `KeyComesThrough` adds Base64: that
three bytes are four characters and these the bytes again is arithmetic of each group
(`Group`), the last one with its missing characters, which carry no bit (`LeftOut`).  Its text is
any whose characters, once the others are passed over, are those of the encrypted key; that
a text of the standard with breaks in it is one, `MCSession` evaluates.

**Only model-checked**: liveness (`EventuallyDecoded`, `StaysOnline`, `BoltCloses`, `WaitEnds`,
`HandShakeEnds`), which is outside the prover; the CRCs, which recur over their data, and
that line breaks are passed over, since `SelectSeq` does; `BufferWriteRight` for addresses and lengths that are not a whole
sector (it folds over a plan of transfers of variable length; `disk_write` is the only
caller, and for the lock's files it asks for the whole sector `SectorKept` is about).

## 6. Abstractions

* Bytes are frame numbers, a frame decrypts exactly when its key is the one at
  hand, JSON parses or does not.  Where both the frame and the key are older than
  the session before, whether they fit is left open.
* Calls of FatFs are atomic; directories, clusters and the FAT are not modelled; a
  power failure tears the data sector of one file.  The feedback to the server says
  "success" whatever FatFs answered, so its result is not modelled.
* `WebSession!Linked` waits for an idle handler: the 2000 ticks after a reset outlast
  what the handler does with old mail (one command of at most 1000).
* A thread may be preempted between any two steps; delays are least delays.
* The sensor's answer has two parts, the head that `JudgeStr` looks for and the rest
  with the confirmation; numbers an answer carries are not modelled.  How often a
  dialogue repeats a step is left open, which allows more than the code does.
* A key is down or not, without bounce, one at a time.  The chip carries out a program
  or erase in one step between the transfers, which see it busy until then.
* `MsgQueue!Reserve` leaves out that `rt_mq_send` refuses a message longer than the queue's
  (`ipc.c` 1940): `main.c` 60 makes them 1024 bytes, as long as any that is sent.
* Threads in the mailbox and the queue are resumed in the order they came
  (`RT_IPC_FLAG_FIFO`, which the lock uses).
* `fresh`, `wild` (Sensor), `untaken`, `right` (Keypad), `flipped` (PortC), `expect`, `wanted` (SpiFlash), `asked`,
  `waited` (IpcThread), `live`, `taken`, `chosen` (Credentials) and the `id` and `len` of a mail (G4Rx) are
  history the code does not have; no guard of the code's actions reads them.

## 7. Not modelled

* The cipher itself (`AES.c` 1-306): its tables and rounds have no state but the
  expanded key, and a test vector shows of them what a model checker would.  The
  encoders of Base64, its decoder to a string and the CRC by 256 entries have no
  caller.
* cJSON: third-party, pure; a frame parses or does not.
* `GET_str` and `GET_NUM` digit by digit: what a dialogue types is an input of
  `Credentials`, and their number boundaries are listed above.
* The AT configuration of the modem, USMART and most of `as608.c`, `bsp_spi_flash.c` and
  `ff.c`: they have no caller in the firmware.  Directories, clusters and the allocation
  table of FatFs: three short files that exist from the start never change them but by
  their first cluster.
* Register set-up, clocks, pins: no behaviour over time.
* Of RT-Thread: scheduler, timers and heap as such.  A thread may be preempted at every
  step instead, which allows every schedule; timers appear as the ticks that end a
  wait.  `rt_mq_urgent`, detach, control and priority order have no caller.

The repository has some 250,000 lines, of which the firmware's own sources, the part
modelled here, are about three in a hundred; the rest are code pages of FatFs, the
vendor's headers and libraries, and the kernel with its ports to other boards and
examples.  The share the map covers is small for that reason and stays so.
