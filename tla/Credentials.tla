----------------------------- MODULE Credentials -----------------------------
(***************************************************************************)
(* The three secrets of the lock and the one file object they go through.  *)
(* The keypad thread (handle_sys) reads, changes and checks the system     *)
(* password and the one-time code; the fingerprint thread reads all files  *)
(* at boot (Handle_flash) and checks and changes the authentication        *)
(* password (open.c, handle_FR); the server's commands setTemporaryCode    *)
(* and modifyPassword (newwebhandle_entry, a higher priority) write files  *)
(* between any two calls of the others.  All of them use the global fp.    *)
(*                                                                         *)
(* Nothing in the code keeps the three apart.  OneUser and CommandsBetween *)
(* are assumptions on the people and the server around it: that a dialogue *)
(* is begun only while the other thread waits for its first key (and was   *)
(* booted), and that a command arrives only while both do.  The code as it *)
(* is has both FALSE.                                                      *)
(***************************************************************************)
EXTENDS Naturals, FatFile

CONSTANTS OneUser,         \* the keypad serves one dialogue at a time
          CommandsBetween, \* no command comes during a dialogue or the boot
          Passwords,     \* system passwords a user or the server may choose
          AuthPasswords, \* authentication passwords a user may choose
          Codes,         \* one-time codes the server may send
          Stored,        \* what the file of the system password holds at first
          MaxCrashes     \* bound of the model: power failures

Default     == "123456"     \* sys_password as compiled
AuthDefault == "12345678"   \* flash_password as compiled
Blank       == ""
Zeros       == "000000"     \* the code of a spent code's file
None        == "none"

ASSUME UseAssumption     == OneUser \in BOOLEAN /\ CommandsBetween \in BOOLEAN
ASSUME CrashesAssumption == MaxCrashes \in Nat

VARIABLES
    files,      \* what the flash holds: "sys", "auth" and "tpc"
    fp,         \* the shared file object
    mounted,    \* f_mount was called
    sys_password, rData1,           \* of the keypad thread (Handle_code.c)
    openinig_password,              \* what was typed to it
    wData3, TPC_code, tpc_code_t,   \* the code as read, where the code is, its count
    sysSet, authSet,                \* i and j: set at boot only
    flash_password, password,       \* of the fingerprint thread, and typed to it
    at, step,   \* where each thread is: a section of calls on fp and its next
                \* call, or a point between sections
    live,       \* the code stored last and not taken for an entry yet (history)
    taken,      \* the entry that goes on took it (history)
    chosen,     \* the new password the user entered last (history)
    crashes

fileVars == <<files, fp, mounted>>
sysVars  == <<sys_password, rData1, openinig_password>>
codeVars == <<wData3, TPC_code, tpc_code_t>>
authVars == <<flash_password, password>>
bootVars == <<sysSet, authSet>>
histVars == <<live, taken, chosen>>
vars == <<fileVars, sysVars, codeVars, authVars, bootVars, at, step, histVars, crashes>>

Threads == {"code", "fr"}

Code(c) == [text |-> c, tail |-> "1"]
Spent   == [text |-> Zeros, tail |-> "0"]
Torn    == [text |-> "torn", tail |-> "torn"]   \* erased, not written: 0xFF

\* The file of the password was never written, or holds one, or none that can be
\* read; "none" is no digits.
ASSUME StoredAssumption ==
    Stored \subseteq {Nothing, Torn} \cup {Str(s) : s \in Passwords \cup {Default, Blank}}
ASSUME NoneAssumption   == None \notin Passwords \cup Codes

\* strlen from 2 to 12: the boot takes the password of the file.
Sound(content) == content \notin {Nothing, Torn, Str(Blank)}

Entered   == Passwords \cup Codes \cup {Default, Blank, Zeros}
AuthTyped == AuthPasswords \cup Passwords \cup {AuthDefault, Blank}

Init == /\ fp = Closed /\ mounted = FALSE
        /\ sys_password = Str(Default) /\ rData1 = Str(Blank)
        /\ openinig_password = Blank
        /\ wData3 = "0" /\ TPC_code = "null" /\ tpc_code_t = ""
        /\ sysSet = FALSE /\ authSet = FALSE
        /\ flash_password = Str(AuthDefault) /\ password = Blank
        /\ at = [code |-> "keys", fr |-> "mount"]
        /\ step = [t \in Threads |-> "open"]
        /\ files \in [sys : Stored, auth : {Nothing}, tpc : {Nothing}]
        /\ live = None /\ taken = FALSE /\ chosen = Blank
        /\ crashes = 0

-----------------------------------------------------------------------------
\* Sections, each f_open ... f_close on fp: the file of one, and where its
\* thread goes from it.
FileOf(s) ==
    CASE s \in {"old", "new", "sys", "bsys"} -> "sys"
      [] s \in {"auth", "anew", "bauth"}     -> "auth"
      [] s \in {"tpc", "spend", "btpc"}      -> "tpc"

After == [old |-> "same", new |-> "keys", sys |-> "tpc", tpc |-> "match",
          spend |-> "decide", bsys |-> "bauth", bauth |-> "btpc", btpc |-> "keys",
          auth |-> "grant", anew |-> "keys"]
Sections == DOMAIN After

\* The assumptions, as they bear on the first key of a dialogue of t and on a
\* command.
Waits(u)   == at[u] = "keys"
MayType(t) == OneUser => \A u \in Threads \ {t} : Waits(u)
MaySend    == CommandsBetween => \A u \in Threads : Waits(u)

Goto(t, place) == at' = [at EXCEPT ![t] = place]

Open(t) == /\ at[t] \in Sections /\ step[t] = "open"
           /\ fp' = f_open(FileOf(at[t]), mounted)
           /\ step' = [step EXCEPT ![t] = "io"]
           /\ UNCHANGED <<files, mounted, sysVars, codeVars, authVars, bootVars, at,
                          histVars, crashes>>

Close(t) == /\ step[t] = "close"
            /\ files' = f_close(files, fp)
            /\ fp' = Closed
            /\ step' = [step EXCEPT ![t] = "open"]
            /\ Goto(t, After[at[t]])
            /\ UNCHANGED <<mounted, sysVars, codeVars, authVars, bootVars, histVars,
                           crashes>>

\* The call between them, of section s.
Io(t, s) == /\ at[t] = s /\ step[t] = "io"
            /\ step' = [step EXCEPT ![t] = "close"]
            /\ UNCHANGED <<files, mounted, openinig_password, password, at, histVars,
                           crashes>>

Got == f_read(files, fp)
Buffer(old) == IF Got = Nothing THEN old ELSE Got

-----------------------------------------------------------------------------
\* handle_sys.  Key 13 once more within fifty scans: the old password is asked
\* for, read from the file, compared, and the new one is asked for and stored.
\* GET_str ends with Enter or with the keys 13 and 14, and its result is ignored:
\* what was typed so far is taken, also nothing at all.
EnterChange(s) == /\ at["code"] = "keys" /\ MayType("code")
                  /\ openinig_password' = s
                  /\ Goto("code", "old")
                  /\ UNCHANGED <<fileVars, sys_password, rData1, codeVars, authVars,
                                 bootVars, step, histVars, crashes>>

OldIoStale ==                       \* mutant: the password in RAM is compared
    /\ Io("code", "old")
    /\ UNCHANGED <<fp, sys_password, rData1, codeVars, flash_password, bootVars>>
OldIo == /\ Io("code", "old")
         /\ sys_password' = Buffer(sys_password)
         /\ UNCHANGED <<fp, rData1, codeVars, flash_password, bootVars>>

EnterNew(s) == /\ at["code"] = "same"
               /\ sys_password = Str(openinig_password)
               /\ sys_password' = Str(s)
               /\ chosen' = s
               /\ openinig_password' = Blank
               /\ Goto("code", "new")
               /\ UNCHANGED <<fileVars, rData1, codeVars, authVars, bootVars, step, live,
                              taken, crashes>>

Differs == /\ at["code"] = "same"
           /\ sys_password # Str(openinig_password)
           /\ openinig_password' = Blank
           /\ Goto("code", "keys")
           /\ UNCHANGED <<fileVars, sys_password, rData1, codeVars, authVars, bootVars, step,
                          histVars, crashes>>

NewIo == /\ Io("code", "new")
         /\ fp' = f_write(fp, sys_password)
         /\ UNCHANGED <<sys_password, rData1, codeVars, flash_password, bootVars>>

-----------------------------------------------------------------------------
\* handle_sys after fifty scans: an entry that is to unlock.
EnterUnlock(s) == /\ at["code"] = "keys" /\ MayType("code")
                  /\ openinig_password' = s
                  /\ Goto("code", "gate")
                  /\ UNCHANGED <<fileVars, sys_password, rData1, codeVars, authVars,
                                 bootVars, step, histVars, crashes>>

\* Without a stored password or a code the entry is dropped and the next asked for.
Looks == sysSet \/ tpc_code_t = "1"
Gate  == /\ at["code"] = "gate"
         /\ \/ Looks /\ Goto("code", "sys") /\ UNCHANGED openinig_password
            \/ ~Looks /\ Goto("code", "keys") /\ openinig_password' = Blank
         /\ UNCHANGED <<fileVars, sys_password, rData1, codeVars, authVars, bootVars,
                        step, histVars, crashes>>

SysIoStale == /\ Io("code", "sys")  \* mutant: sys_password is not refreshed
              /\ rData1' = Buffer(rData1)
              /\ UNCHANGED <<fp, sys_password, codeVars, flash_password, bootVars>>
SysIo == /\ Io("code", "sys")
         /\ rData1' = Buffer(rData1)
         /\ sys_password' = rData1'
         /\ UNCHANGED <<fp, codeVars, flash_password, bootVars>>

TpcIoByValue == /\ Io("code", "tpc")       \* mutant: the pointer gets the digits
                /\ wData3' = IF Got = Nothing THEN wData3 ELSE Got.text
                /\ tpc_code_t' = IF Got = Nothing THEN "" ELSE Got.tail
                /\ TPC_code' = wData3'
                /\ UNCHANGED <<fp, sys_password, rData1, flash_password, bootVars>>
\* wData3[6], the count, is cut off: after a read that fails it is '\0'.
TpcIo == /\ Io("code", "tpc")
         /\ wData3' = IF Got = Nothing THEN wData3 ELSE Got.text
         /\ tpc_code_t' = IF Got = Nothing THEN "" ELSE Got.tail
         /\ TPC_code' = "wData3"
         /\ UNCHANGED <<fp, sys_password, rData1, flash_password, bootVars>>

TheCode == IF TPC_code = "wData3" THEN wData3 ELSE TPC_code
IsCodeUncounted == openinig_password = TheCode      \* mutant: the count is not read
IsCode  == openinig_password = TheCode /\ tpc_code_t = "1"
IsSys   == sys_password = Str(openinig_password)

SpendsAny == tpc_code_t = "1"       \* mutant: any entry spends the code
Spends    == IsCode
Match == /\ at["code"] = "match"
         /\ Goto("code", IF Spends THEN "spend" ELSE "decide")
         /\ taken' = (Spends /\ live = openinig_password)
         /\ live' = IF taken' THEN None ELSE live
         /\ UNCHANGED <<fileVars, sysVars, codeVars, authVars, bootVars, step, chosen,
                        crashes>>

SpendIoNothing == /\ Io("code", "spend")    \* mutant: nothing is written
                  /\ UNCHANGED <<fp, sys_password, rData1, codeVars, flash_password, bootVars>>
SpendIo == /\ Io("code", "spend")
           /\ fp' = f_write(fp, Spent)
           /\ UNCHANGED <<sys_password, rData1, codeVars, flash_password, bootVars>>

Exit == /\ openinig_password' = Blank
        /\ taken' = FALSE
        /\ Goto("code", "keys")
        /\ UNCHANGED <<fileVars, sys_password, rData1, codeVars, authVars, bootVars, step,
                       live, chosen, crashes>>

\* The relay for a second, or the beep; what follows is in Door.
Unlock == /\ at["code"] = "decide"
          /\ IsSys \/ IsCode
          /\ Exit
Refuse == /\ at["code"] = "decide"
          /\ ~IsSys /\ ~IsCode
          /\ Exit

-----------------------------------------------------------------------------
\* FRopen_entry: Handle_flash after the sensor answered, the keypad thread
\* long being at work.
Mount == /\ at["fr"] = "mount"
         /\ mounted' = TRUE
         /\ Goto("fr", "bsys")
         /\ UNCHANGED <<files, fp, sysVars, codeVars, authVars, bootVars, step, histVars,
                        crashes>>

BootSysIo == /\ Io("fr", "bsys")
             /\ sysSet' = (sysSet \/ Sound(Got))
             /\ sys_password' = IF Sound(Got) THEN Got ELSE sys_password
             /\ UNCHANGED <<fp, rData1, codeVars, flash_password, authSet>>

BootAuthIo == /\ Io("fr", "bauth")
              /\ authSet' = (authSet \/ Sound(Got))
              /\ flash_password' = IF Sound(Got) THEN Got ELSE flash_password
              /\ UNCHANGED <<fp, sys_password, rData1, codeVars, sysSet>>

BootTpcIo == /\ Io("fr", "btpc")
             /\ \/ Got = Nothing /\ UNCHANGED codeVars
                \/ /\ Got # Nothing
                   /\ wData3' = Got.text
                   /\ tpc_code_t' = Got.tail
                   /\ TPC_code' = "wData3"
             /\ UNCHANGED <<fp, sys_password, rData1, flash_password, bootVars>>

\* Keys 12 and 11: the authentication password, before a print is deleted or
\* enrolled.  Its file is read again only when the boot found one.
EnterAuth(s) == /\ at["fr"] = "keys" /\ MayType("fr")
                /\ password' = s
                /\ Goto("fr", IF authSet THEN "auth" ELSE "grant")
                /\ UNCHANGED <<fileVars, sysVars, codeVars, flash_password, bootVars,
                               step, histVars, crashes>>

AuthIo == /\ Io("fr", "auth")
          /\ flash_password' = Buffer(flash_password)
          /\ UNCHANGED <<fp, sys_password, rData1, codeVars, bootVars>>

AuthorisedEither == flash_password = Str(password) \/ sys_password = Str(password)
                                    \* mutant: the system password does as well
Authorised == flash_password = Str(password)
AuthEnd == /\ password' = Blank
           /\ Goto("fr", "keys")
           /\ UNCHANGED <<fileVars, sysVars, codeVars, flash_password, bootVars, step,
                          histVars, crashes>>
Grant == at["fr"] = "grant" /\ Authorised /\ AuthEnd
Deny  == at["fr"] = "grant" /\ ~Authorised /\ AuthEnd

\* Key 11 twice: the authentication password is changed; the old one is the one
\* in RAM.
EnterAuthChange(s) == /\ at["fr"] = "keys" /\ MayType("fr")
                      /\ password' = s
                      /\ Goto("fr", "asame")
                      /\ UNCHANGED <<fileVars, sysVars, codeVars, flash_password, bootVars,
                                     step, histVars, crashes>>

EnterNewAuth(s) == /\ at["fr"] = "asame" /\ Authorised
                   /\ flash_password' = Str(s)
                   /\ password' = Blank
                   /\ Goto("fr", "anew")
                   /\ UNCHANGED <<fileVars, sysVars, codeVars, bootVars, step, histVars, crashes>>

AuthDiffers == at["fr"] = "asame" /\ ~Authorised /\ AuthEnd

NewAuthIo == /\ Io("fr", "anew")
             /\ fp' = f_write(fp, flash_password)
             /\ UNCHANGED <<sys_password, rData1, codeVars, flash_password, bootVars>>

-----------------------------------------------------------------------------
\* The server's commands, each whole between two calls of the other threads;
\* fp is left closed.  RAM and the flag i keep what they had.
Stores(file, content) ==
    /\ files' = f_close(files, f_write(f_open(file, mounted), content))
    /\ fp' = Closed

SetTemporaryCode(c) == /\ MaySend
                       /\ Stores("tpc", Code(c))
                       /\ TPC_code' = c
                       /\ live' = c
                       /\ UNCHANGED <<mounted, sysVars, wData3, tpc_code_t, authVars, bootVars,
                                      at, step, taken, chosen, crashes>>

ModifyPassword(p) == /\ MaySend
                     /\ Stores("sys", Str(p))
                     /\ UNCHANGED <<mounted, sysVars, codeVars, authVars, bootVars, at, step,
                                    histVars, crashes>>

\* What a start leaves in RAM.  A code whose entry the power cut short was not
\* used if the flash still has it.
Restart == /\ crashes < MaxCrashes
           /\ crashes' = crashes + 1
           /\ fp' = Closed /\ mounted' = FALSE
           /\ sys_password' = Str(Default) /\ rData1' = Str(Blank)
           /\ openinig_password' = Blank
           /\ wData3' = "0" /\ TPC_code' = "null" /\ tpc_code_t' = ""
           /\ sysSet' = FALSE /\ authSet' = FALSE
           /\ flash_password' = Str(AuthDefault) /\ password' = Blank
           /\ at' = [code |-> "keys", fr |-> "mount"]
           /\ step' = [t \in Threads |-> "open"]
           /\ taken' = FALSE
           /\ UNCHANGED chosen
CutShort  == taken /\ files'.tpc = Code(openinig_password)
LiveAfter == IF CutShort THEN openinig_password ELSE live

\* The power fails and comes back.  What a file held is gone if it fails within an
\* f_close, between the erasing and the writing of the sector.
InClose == \E t \in Threads : step[t] = "close" /\ fp.dirty
PowerCycle == /\ Restart
              /\ \/ UNCHANGED files
                 \/ InClose /\ files' = [files EXCEPT ![fp.file] = Torn]
              /\ live' = LiveAfter

\* It fails within the f_close of a command, which then stored nothing; the code
\* that setTemporaryCode was to replace is gone.
PowerCycleInCommand(file) ==
    /\ Restart
    /\ MaySend /\ mounted
    /\ files' = [files EXCEPT ![file] = Torn]
    /\ live' = IF file = "tpc" THEN None ELSE LiveAfter

KeypadSteps == \/ \E s \in Entered : EnterChange(s) \/ EnterUnlock(s)
               \/ \E s \in Passwords \cup {Blank} : EnterNew(s)
               \/ Differs \/ Gate \/ Match \/ Unlock \/ Refuse
               \/ OldIo \/ NewIo \/ SysIo \/ TpcIo \/ SpendIo
FingerprintSteps == \/ Mount \/ BootSysIo \/ BootAuthIo \/ BootTpcIo
                    \/ \E s \in AuthTyped : EnterAuth(s) \/ EnterAuthChange(s)
                    \/ \E s \in AuthPasswords \cup {Blank} : EnterNewAuth(s)
                    \/ Grant \/ Deny \/ AuthDiffers \/ AuthIo \/ NewAuthIo
ServerSteps == \/ \E c \in Codes : SetTemporaryCode(c)
               \/ \E p \in Passwords : ModifyPassword(p)

Next == \/ KeypadSteps \/ FingerprintSteps \/ ServerSteps
        \/ \E t \in Threads : Open(t) \/ Close(t)
        \/ PowerCycle \/ \E file \in {"sys", "tpc"} : PowerCycleInCommand(file)

Spec == Init /\ [][Next]_vars

-----------------------------------------------------------------------------
Contents == {Nothing, Torn, Spent} \cup {Code(c) : c \in Codes}
            \cup {Str(s) : s \in Entered \cup AuthTyped}
TypeOK ==
    /\ files \in [{"sys", "auth", "tpc"} -> Contents]
    /\ fp \in [file : DOMAIN files \cup {"none"}, dirty : BOOLEAN, data : Contents]
    /\ {mounted, sysSet, authSet} \subseteq BOOLEAN
    /\ {sys_password, rData1, flash_password} \subseteq Contents
    /\ openinig_password \in Entered /\ password \in AuthTyped
    /\ wData3 \in {c.text : c \in Contents} \cup {"0"}
    /\ TPC_code \in Codes \cup {"null", "wData3"}
    /\ tpc_code_t \in {c.tail : c \in Contents}
    /\ at["code"] \in {"keys", "old", "same", "new", "gate", "sys", "tpc", "match",
                       "spend", "decide"}
    /\ at["fr"] \in {"mount", "bsys", "bauth", "btpc", "keys", "auth", "grant",
                     "asame", "anew"}
    /\ step \in [Threads -> {"open", "io", "close"}]
    /\ live \in Codes \cup {None} /\ taken \in BOOLEAN /\ chosen \in Passwords \cup {Blank}
    /\ crashes \in 0..MaxCrashes

\* "A temporary code loses its validity when it was used once" (readme.txt:14,
\* Handle_code.c:140): each entry that a code lets in took a code the server sent,
\* and no two entries take the same one, whatever power failures come between
\* the spending in the flash and the relay.
UsedOnce == [][Unlock => IsSys \/ taken]_vars

\* "The system password or the temporary code of the app unlocks, otherwise it
\* exits" (Handle_code.c:139): nobody is let in by anything that is neither the
\* password the flash holds nor a code that was sent and not used.
OnlyCredentials ==
    [][Unlock => files.sys = Str(openinig_password) \/ taken]_vars

\* And who has one of them, and is let to the check, is not refused, whatever
\* earlier entries, a start or a command left in RAM.
RightAccepted ==
    [][Refuse => files.sys # Str(openinig_password) /\ openinig_password # live /\ ~taken]_vars

\* By the same words nobody who has one of them is turned away before the check.
\* The code does so: the flag i is set at the start only.
RightChecked ==
    [][Gate /\ ~Looks => files.sys # Str(openinig_password) /\ openinig_password # live]_vars

\* "Not used, it stays stored in the file system" (readme.txt:14): the code sent
\* last is in the flash until an entry takes it, through power failures at any
\* call, also while another file, or another code, is written.
UnusedCodeKept == live # None => files.tpc = Code(live)

\* "Store the changed password" (Handle_code.c:178): at the end of a change the
\* flash holds what the user chose, not what a boot or a command put in its place.
ChangeStored == [][Close("code") /\ at["code"] = "new" => files'.sys = Str(chosen)]_vars

\* "Enter the authentication password; right, a print is enrolled, otherwise
\* exit" (Handle_code.c:49): neither the system password nor a code passes, for
\* the fingerprint menu or for a change of the authentication password itself.
NewAuth == \E s \in AuthPasswords \cup {Blank} : EnterNewAuth(s)
AuthOnlyByAuth ==
    [][Grant \/ NewAuth => \/ files.auth = Str(password)
                           \/ ~Sound(files.auth) /\ password = AuthDefault]_vars

\* "It matches the old password, it may be changed" (Handle_code.c:169): only who
\* typed the password the flash holds comes to choose a new one, whatever a boot,
\* a code or an earlier entry left in RAM.
OwnerChanges ==
    [][(\E s \in Passwords \cup {Blank} : EnterNew(s))
          => files.sys = Str(openinig_password)]_vars

\* Each file holds its own kind of secret, never another thread's.
OwnContents ==
    /\ files.sys \in {Nothing, Torn} \cup {Str(s) : s \in Passwords \cup {Default, Blank}}
    /\ files.auth \in {Nothing, Torn} \cup {Str(s) : s \in AuthPasswords \cup {Blank}}
    /\ files.tpc \in {Nothing, Torn, Spent} \cup {Code(c) : c \in Codes}
=============================================================================
