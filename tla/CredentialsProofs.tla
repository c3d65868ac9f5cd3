------------------------- MODULE CredentialsProofs --------------------------
(***************************************************************************)
(* Theorems about the secrets of the lock, for any passwords, codes and    *)
(* number of power failures.                                               *)
(***************************************************************************)
EXTENDS Credentials, TLAPS

-----------------------------------------------------------------------------
(***************************************************************************)
(* Types, whatever runs inside what.                                       *)
(***************************************************************************)

Names     == {"sys", "auth", "tpc"}
CodeSpots == {"keys", "old", "same", "new", "gate", "sys", "tpc", "match", "spend",
              "decide"}
FrSpots   == {"mount", "bsys", "bauth", "btpc", "keys", "auth", "grant", "asame", "anew"}
Objects   == [file : Names \cup {"none"}, dirty : BOOLEAN, data : Contents]

FilesTyped  == /\ files \in [Names -> Contents] /\ fp \in Objects
               /\ mounted \in BOOLEAN
SysTyped    == /\ sys_password \in Contents /\ rData1 \in Contents
               /\ openinig_password \in Entered
CodeTyped   == /\ wData3 \in {c.text : c \in Contents} \cup {"0"}
               /\ TPC_code \in Codes \cup {"null", "wData3"}
               /\ tpc_code_t \in {c.tail : c \in Contents}
RamTyped    == /\ flash_password \in Contents /\ password \in AuthTyped
               /\ sysSet \in BOOLEAN /\ authSet \in BOOLEAN
PlacesTyped == /\ at \in [Threads -> CodeSpots \cup FrSpots]
               /\ at["code"] \in CodeSpots /\ at["fr"] \in FrSpots
               /\ step \in [Threads -> {"open", "io", "close"}]
               /\ \A t \in Threads : step[t] # "open" => at[t] \in Sections
HistTyped   == /\ live \in Codes \cup {None} /\ taken \in BOOLEAN
               /\ chosen \in Passwords \cup {Blank}
               /\ crashes \in 0..MaxCrashes

TypeInv == FilesTyped /\ SysTyped /\ CodeTyped /\ RamTyped /\ PlacesTyped /\ HistTyped

LEMMA Kinds ==
  /\ Nothing \in Contents /\ Torn \in Contents /\ Spent \in Contents
  /\ \A c \in Codes : Code(c) \in Contents
  /\ \A s \in Entered \cup AuthTyped : Str(s) \in Contents
  BY DEF Contents

LEMMA Secrets ==
  /\ Passwords \subseteq Entered /\ Codes \subseteq Entered
  /\ Default \in Entered /\ Blank \in Entered
  /\ AuthPasswords \subseteq AuthTyped /\ AuthDefault \in AuthTyped /\ Blank \in AuthTyped
  BY DEF Entered, AuthTyped

LEMMA Texts ==
  /\ \A c, d : Code(c) = Code(d) => c = d
  /\ \A c : Code(c) \notin {Nothing, Torn, Spent} /\ Code(c).text = c /\ Code(c).tail = "1"
  /\ Nothing.tail # "1" /\ Torn.tail # "1" /\ Spent.tail # "1"
  BY DEF Code, Nothing, Torn, Spent

LEMMA SectionNames ==
  Sections = {"old", "new", "sys", "tpc", "spend", "bsys", "bauth", "btpc", "auth", "anew"}
  BY DEF Sections, After

LEMMA FileNames ==
  ASSUME NEW s \in Sections
  PROVE  FileOf(s) \in Names
  BY SectionNames DEF FileOf, Names

\* Where a thread goes from a section is one of its own places.
LEMMA Leaves ==
  /\ \A s \in Sections \cap CodeSpots : After[s] \in CodeSpots
  /\ \A s \in Sections \cap FrSpots : After[s] \in FrSpots
<1>1. DOMAIN After = Sections
  BY DEF Sections
<1>2. /\ After["old"] = "same" /\ After["new"] = "keys" /\ After["sys"] = "tpc"
      /\ After["tpc"] = "match" /\ After["spend"] = "decide" /\ After["bsys"] = "bauth"
      /\ After["bauth"] = "btpc" /\ After["btpc"] = "keys" /\ After["auth"] = "grant"
      /\ After["anew"] = "keys"
  BY DEF After
<1>. QED
  BY <1>2, SectionNames DEF CodeSpots, FrSpots

LEMMA GotContents ==
  ASSUME FilesTyped
  PROVE  /\ Got \in Contents
         /\ \A old \in Contents : Buffer(old) \in Contents
<1>1. Got \in Contents
  BY Kinds DEF FilesTyped, Got, f_read, Objects
<1>. QED
  BY <1>1 DEF Buffer

\* The calls on the file object keep the types.
LEMMA OpenTyped ==
  ASSUME NEW file \in Names, NEW m \in BOOLEAN
  PROVE  f_open(file, m) \in Objects
  BY Kinds DEF f_open, Closed, Objects

LEMMA WriteTyped ==
  ASSUME NEW o \in Objects, NEW content \in Contents
  PROVE  f_write(o, content) \in Objects
  BY DEF f_write, Objects

LEMMA CloseTyped ==
  ASSUME NEW fs \in [Names -> Contents], NEW o \in Objects
  PROVE  f_close(fs, o) \in [Names -> Contents]
  BY DEF f_close, Objects

LEMMA ClosedTyped == Closed \in Objects
  BY Kinds DEF Closed, Objects

\* Where the two threads are, written as a record.
LEMMA Pair ==
  ASSUME NEW S, NEW x \in S, NEW y \in S
  PROVE  LET r == [code |-> x, fr |-> y]
         IN  r["code"] = x /\ r["fr"] = y /\ r \in [Threads -> S]
<1>1. [code |-> x, fr |-> y] \in [Threads -> S]
  BY DEF Threads
<1>2. [code |-> x, fr |-> y]["code"] = x /\ [code |-> x, fr |-> y]["fr"] = y
  OBVIOUS
<1>. QED
  BY <1>1, <1>2

LEMMA StoresTyped ==
  ASSUME FilesTyped, NEW file \in Names, NEW content \in Contents, Stores(file, content),
         UNCHANGED mounted
  PROVE  FilesTyped'
<1>1. f_write(f_open(file, mounted), content) \in Objects
  BY OpenTyped, WriteTyped DEF FilesTyped
<1>2. files' \in [Names -> Contents]
  BY <1>1, CloseTyped DEF Stores, FilesTyped
<1>. QED
  BY <1>2, ClosedTyped DEF Stores, FilesTyped, Objects, Contents

\* Where the threads are after the power came back, and at first.
LEMMA BootPlaces ==
  ASSUME at' = [code |-> "keys", fr |-> "mount"], step' = [t \in Threads |-> "open"]
  PROVE  PlacesTyped'
<1>1. "keys" \in CodeSpots \cup FrSpots /\ "mount" \in CodeSpots \cup FrSpots
  BY DEF CodeSpots, FrSpots
<1>2. at'["code"] = "keys" /\ at'["fr"] = "mount" /\ at' \in [Threads -> CodeSpots \cup FrSpots]
  BY <1>1, Pair
<1>3. step' \in [Threads -> {"open"}] /\ \A t \in Threads : step'[t] = "open"
  OBVIOUS
<1>. QED
  BY <1>2, <1>3 DEF PlacesTyped, CodeSpots, FrSpots

LEMMA TypesHold == TypeInv => TypeOK
<1> SUFFICES ASSUME TypeInv PROVE TypeOK
  OBVIOUS
<1>1. DOMAIN files = Names
  BY DEF TypeInv, FilesTyped
<1>. QED
  BY <1>1 DEF TypeInv, TypeOK, FilesTyped, SysTyped, CodeTyped, RamTyped, PlacesTyped,
              HistTyped, Names, Objects, CodeSpots, FrSpots

LEMMA TypeInit == Init => TypeInv
<1> SUFFICES ASSUME Init PROVE TypeInv
  OBVIOUS
<1>1. FilesTyped
  <2>1. files \in [Names -> Contents]
    <3>1. Stored \subseteq Contents
      BY StoredAssumption DEF Contents, Entered
    <3>. QED
      BY <3>1, Kinds DEF Init, Names
  <2>. QED
    BY <2>1, ClosedTyped DEF Init, FilesTyped
<1>2. SysTyped /\ RamTyped
  BY Kinds, Secrets DEF Init, SysTyped, RamTyped
<1>3. CodeTyped
  <2>1. Str(Default) \in Contents /\ Str(Default).tail = ""
    BY Kinds, Secrets DEF Str
  <2>. QED
    BY <2>1 DEF Init, CodeTyped
<1>4. PlacesTyped
  <2>1. at["code"] = "keys" /\ at["fr"] = "mount" /\ at \in [Threads -> CodeSpots \cup FrSpots]
    <3>1. "keys" \in CodeSpots \cup FrSpots /\ "mount" \in CodeSpots \cup FrSpots
      BY DEF CodeSpots, FrSpots
    <3>2. at = [code |-> "keys", fr |-> "mount"]
      BY DEF Init
    <3>. QED
      BY <3>1, <3>2, Pair
  <2>2. step \in [Threads -> {"open"}] /\ \A t \in Threads : step[t] = "open"
    BY DEF Init
  <2>. QED
    BY <2>1, <2>2 DEF PlacesTyped, CodeSpots, FrSpots
<1>5. HistTyped
  <2>1. live = None /\ taken \in BOOLEAN /\ chosen = Blank /\ crashes = 0
    BY DEF Init
  <2>2. 0 \in 0..MaxCrashes
    BY CrashesAssumption
  <2>. QED
    BY <2>1, <2>2 DEF HistTyped
<1>. QED
  BY <1>1, <1>2, <1>3, <1>4, <1>5 DEF TypeInv

\* What a step leaves alone keeps its type.
LEMMA Same ==
  ASSUME TypeInv
  PROVE  /\ UNCHANGED fileVars => FilesTyped'
         /\ UNCHANGED sysVars => SysTyped'
         /\ UNCHANGED codeVars => CodeTyped'
         /\ UNCHANGED <<authVars, bootVars>> => RamTyped'
         /\ UNCHANGED <<at, step>> => PlacesTyped'
         /\ UNCHANGED <<histVars, crashes>> => HistTyped'
<1> USE DEF TypeInv
<1>1. ASSUME UNCHANGED fileVars PROVE FilesTyped'
  BY <1>1 DEF fileVars, FilesTyped, Objects, Contents
<1>2. ASSUME UNCHANGED sysVars PROVE SysTyped'
  BY <1>2 DEF sysVars, SysTyped
<1>3. ASSUME UNCHANGED codeVars PROVE CodeTyped'
  BY <1>3 DEF codeVars, CodeTyped
<1>4. ASSUME UNCHANGED <<authVars, bootVars>> PROVE RamTyped'
  BY <1>4 DEF authVars, bootVars, RamTyped
<1>5. ASSUME UNCHANGED <<at, step>> PROVE PlacesTyped'
  BY <1>5 DEF PlacesTyped
<1>6. ASSUME UNCHANGED <<histVars, crashes>> PROVE HistTyped'
  BY <1>6 DEF histVars, HistTyped
<1>. QED
  BY <1>1, <1>2, <1>3, <1>4, <1>5, <1>6

\* A thread goes on to one of its places, outside of a section or from the end
\* of one.
LEMMA Moved ==
  ASSUME TypeInv, NEW t \in Threads, NEW p, Goto(t, p), step' \in [Threads -> {"open", "io", "close"}],
         t = "code" => p \in CodeSpots, t = "fr" => p \in FrSpots,
         step'[t] = "open", \A u \in Threads \ {t} : step'[u] = step[u]
  PROVE  PlacesTyped'
<1>1. p \in CodeSpots \cup FrSpots
  BY DEF Threads
<1>2. /\ at' \in [Threads -> CodeSpots \cup FrSpots]
      /\ at'[t] = p /\ \A u \in Threads \ {t} : at'[u] = at[u]
  BY <1>1 DEF TypeInv, PlacesTyped, Goto
<1>3. at'["code"] \in CodeSpots /\ at'["fr"] \in FrSpots
  BY <1>2 DEF TypeInv, PlacesTyped, Threads
<1>4. \A u \in Threads : step'[u] # "open" => at'[u] \in Sections
  BY <1>2 DEF TypeInv, PlacesTyped
<1>. QED
  BY <1>2, <1>3, <1>4 DEF PlacesTyped

\* No call on the file object is under way for a thread between its sections.
LEMMA Outside ==
  ASSUME TypeInv, NEW t \in Threads, at[t] \notin Sections
  PROVE  step[t] = "open" /\ step \in [Threads -> {"open", "io", "close"}]
  BY DEF TypeInv, PlacesTyped

LEMMA Called ==
  ASSUME TypeInv, NEW t \in Threads, NEW s, Io(t, s)
  PROVE  PlacesTyped'
  BY DEF TypeInv, PlacesTyped, Io

LEMMA TypeStep == TypeInv /\ [Next]_vars => TypeInv'
<1> SUFFICES ASSUME TypeInv, [Next]_vars PROVE TypeInv'
  OBVIOUS
<1>0. /\ SysTyped /\ CodeTyped /\ RamTyped /\ HistTyped /\ FilesTyped
      /\ "code" \in Threads /\ "fr" \in Threads
      /\ \A x \in {"keys", "same", "gate", "match", "decide", "mount", "grant", "asame"} : x \notin Sections
  BY SectionNames DEF TypeInv, Threads
<1>1. ASSUME NEW s \in Entered, EnterChange(s) \/ EnterUnlock(s)
      PROVE  TypeInv'
  <2>1. PlacesTyped'
    BY <1>0, <1>1, Moved, Outside DEF EnterChange, EnterUnlock, CodeSpots
  <2>2. SysTyped'
    BY <1>0, <1>1 DEF EnterChange, EnterUnlock, SysTyped
  <2>. QED
    BY <1>1, <2>1, <2>2, Same DEF EnterChange, EnterUnlock, TypeInv
<1>2. ASSUME NEW s \in Passwords \cup {Blank}, EnterNew(s) PROVE TypeInv'
  <2>1. PlacesTyped'
    BY <1>0, <1>2, Moved, Outside DEF EnterNew, CodeSpots
  <2>2. SysTyped'
    BY <1>0, <1>2, Kinds, Secrets DEF EnterNew, SysTyped
  <2>3. HistTyped'
    BY <1>0, <1>2 DEF EnterNew, HistTyped
  <2>. QED
    BY <1>2, <2>1, <2>2, <2>3, Same DEF EnterNew, TypeInv
<1>3. CASE Gate
  <2>1. PlacesTyped'
    BY <1>0, <1>3, Moved, Outside DEF Gate, CodeSpots
  <2>2. SysTyped'
    BY <1>0, <1>3, Secrets DEF Gate, SysTyped
  <2>. QED
    BY <1>3, <2>1, <2>2, Same DEF Gate, TypeInv
<1>4. CASE OldIo
  <2>1. SysTyped'
    BY <1>0, <1>4, GotContents DEF OldIo, Io, SysTyped
  <2>. QED
    BY <1>0, <1>4, <2>1, Called, Same DEF OldIo, Io, TypeInv, fileVars, authVars
<1>5. CASE Differs
  <2>1. PlacesTyped'
    BY <1>0, <1>5, Moved, Outside DEF Differs, CodeSpots
  <2>2. SysTyped'
    BY <1>0, <1>5, Secrets DEF Differs, SysTyped
  <2>. QED
    BY <1>5, <2>1, <2>2, Same DEF Differs, TypeInv
<1>6. CASE NewIo
  <2>1. FilesTyped'
    BY <1>0, <1>6, WriteTyped DEF NewIo, Io, FilesTyped, SysTyped, Objects, Contents
  <2>2. SysTyped'
    BY <1>0, <1>6 DEF NewIo, Io, SysTyped
  <2>. QED
    BY <1>0, <1>6, <2>1, <2>2, Called, Same DEF NewIo, Io, TypeInv, authVars
<1>7. CASE SysIo
  <2>1. SysTyped'
    BY <1>0, <1>7, GotContents DEF SysIo, Io, SysTyped
  <2>. QED
    BY <1>0, <1>7, <2>1, Called, Same DEF SysIo, Io, TypeInv, fileVars, authVars
<1>8. CASE TpcIo
  <2>1. CodeTyped'
    <3>1. tpc_code_t' \in {c.tail : c \in Contents}
      <4>1. Str(Blank) \in Contents /\ Str(Blank).tail = ""
        BY Kinds, Secrets DEF Str
      <4>. QED
        BY <1>0, <1>8, <4>1, GotContents DEF TpcIo
    <3>2. wData3' \in {c.text : c \in Contents} \cup {"0"}
      BY <1>0, <1>8, GotContents DEF TpcIo, CodeTyped
    <3>. QED
      BY <1>8, <3>1, <3>2 DEF TpcIo, CodeTyped
  <2>2. SysTyped'
    BY <1>0, <1>8 DEF TpcIo, Io, SysTyped
  <2>. QED
    BY <1>0, <1>8, <2>1, <2>2, Called, Same DEF TpcIo, Io, TypeInv, fileVars, authVars
<1>9. CASE SpendIo
  <2>1. FilesTyped'
    BY <1>0, <1>9, WriteTyped, Kinds DEF SpendIo, Io, FilesTyped, Objects, Contents
  <2>2. SysTyped'
    BY <1>0, <1>9 DEF SpendIo, Io, SysTyped
  <2>. QED
    BY <1>0, <1>9, <2>1, <2>2, Called, Same DEF SpendIo, Io, TypeInv, authVars
<1>10. CASE Match
  <2>1. PlacesTyped'
    BY <1>0, <1>10, Moved, Outside DEF Match, CodeSpots
  <2>2. HistTyped'
    BY <1>0, <1>10 DEF Match, HistTyped
  <2>. QED
    BY <1>10, <2>1, <2>2, Same DEF Match, TypeInv
<1>11. CASE Unlock \/ Refuse
  <2>0. Exit /\ at["code"] = "decide"
    BY <1>11 DEF Unlock, Refuse
  <2>1. PlacesTyped'
    BY <1>0, <2>0, Moved, Outside DEF Exit, CodeSpots
  <2>2. SysTyped'
    BY <1>0, <2>0, Secrets DEF Exit, SysTyped
  <2>3. HistTyped'
    BY <1>0, <2>0 DEF Exit, HistTyped
  <2>. QED
    BY <2>0, <2>1, <2>2, <2>3, Same DEF Exit, TypeInv
<1>12. CASE Mount
  <2>1. PlacesTyped'
    BY <1>0, <1>12, Moved, Outside DEF Mount, FrSpots
  <2>2. FilesTyped'
    BY <1>0, <1>12 DEF Mount, FilesTyped, Objects, Contents
  <2>. QED
    BY <1>12, <2>1, <2>2, Same DEF Mount, TypeInv
<1>13. CASE BootSysIo
  <2>1. SysTyped'
    BY <1>0, <1>13, GotContents DEF BootSysIo, Io, SysTyped
  <2>2. RamTyped'
    <3>1. sysSet' \in BOOLEAN
      BY <1>13, Zenon DEF BootSysIo
    <3>. QED
      BY <1>0, <1>13, <3>1 DEF BootSysIo, Io, RamTyped
  <2>. QED
    BY <1>0, <1>13, <2>1, <2>2, Called, Same DEF BootSysIo, Io, TypeInv, fileVars
<1>14. CASE BootAuthIo
  <2>1. SysTyped'
    BY <1>0, <1>14 DEF BootAuthIo, Io, SysTyped
  <2>2. RamTyped'
    <3>1. authSet' \in BOOLEAN
      BY <1>14, Zenon DEF BootAuthIo
    <3>. QED
      BY <1>0, <1>14, <3>1, GotContents DEF BootAuthIo, Io, RamTyped
  <2>. QED
    BY <1>0, <1>14, <2>1, <2>2, Called, Same DEF BootAuthIo, Io, TypeInv, fileVars
<1>15. CASE BootTpcIo
  <2>1. CodeTyped'
    BY <1>0, <1>15, GotContents DEF BootTpcIo, CodeTyped, codeVars
  <2>2. SysTyped'
    BY <1>0, <1>15 DEF BootTpcIo, Io, SysTyped
  <2>. QED
    BY <1>0, <1>15, <2>1, <2>2, Called, Same DEF BootTpcIo, Io, TypeInv, fileVars, authVars
<1>16. ASSUME NEW s \in AuthTyped, EnterAuth(s) \/ EnterAuthChange(s) PROVE TypeInv'
  <2>1. PlacesTyped'
    BY <1>0, <1>16, Moved, Outside DEF EnterAuth, EnterAuthChange, FrSpots
  <2>2. RamTyped'
    BY <1>0, <1>16 DEF EnterAuth, EnterAuthChange, RamTyped, bootVars
  <2>. QED
    BY <1>16, <2>1, <2>2, Same DEF EnterAuth, EnterAuthChange, TypeInv
<1>17. ASSUME NEW s \in AuthPasswords \cup {Blank}, EnterNewAuth(s) PROVE TypeInv'
  <2>1. PlacesTyped'
    BY <1>0, <1>17, Moved, Outside DEF EnterNewAuth, FrSpots
  <2>2. RamTyped'
    BY <1>0, <1>17, Kinds, Secrets DEF EnterNewAuth, RamTyped, bootVars
  <2>. QED
    BY <1>17, <2>1, <2>2, Same DEF EnterNewAuth, TypeInv
<1>18. CASE Grant \/ Deny \/ AuthDiffers
  <2>0. AuthEnd /\ at["fr"] \in {"grant", "asame"}
    BY <1>18 DEF Grant, Deny, AuthDiffers
  <2>1. PlacesTyped'
    BY <1>0, <2>0, Moved, Outside DEF AuthEnd, FrSpots
  <2>2. RamTyped'
    BY <1>0, <2>0, Secrets DEF AuthEnd, RamTyped, bootVars
  <2>. QED
    BY <2>0, <2>1, <2>2, Same DEF AuthEnd, TypeInv
<1>19. CASE AuthIo
  <2>1. SysTyped'
    BY <1>0, <1>19 DEF AuthIo, Io, SysTyped
  <2>2. RamTyped'
    BY <1>0, <1>19, GotContents DEF AuthIo, Io, RamTyped, bootVars
  <2>. QED
    BY <1>0, <1>19, <2>1, <2>2, Called, Same DEF AuthIo, Io, TypeInv, fileVars
<1>20. CASE NewAuthIo
  <2>1. FilesTyped'
    BY <1>0, <1>20, WriteTyped DEF NewAuthIo, Io, FilesTyped, RamTyped, Objects, Contents
  <2>2. SysTyped'
    BY <1>0, <1>20 DEF NewAuthIo, Io, SysTyped
  <2>. QED
    BY <1>0, <1>20, <2>1, <2>2, Called, Same DEF NewAuthIo, Io, TypeInv, authVars
<1>21. ASSUME NEW c \in Codes, SetTemporaryCode(c) PROVE TypeInv'
  <2>1. FilesTyped'
    BY <1>0, <1>21, Kinds, StoresTyped DEF SetTemporaryCode, Names
  <2>2. CodeTyped'
    BY <1>0, <1>21 DEF SetTemporaryCode, CodeTyped
  <2>3. HistTyped'
    BY <1>0, <1>21 DEF SetTemporaryCode, HistTyped
  <2>. QED
    BY <1>21, <2>1, <2>2, <2>3, Same DEF SetTemporaryCode, TypeInv
<1>22. ASSUME NEW p \in Passwords, ModifyPassword(p) PROVE TypeInv'
  <2>1. FilesTyped'
    BY <1>0, <1>22, Kinds, Secrets, StoresTyped DEF ModifyPassword, Names
  <2>. QED
    BY <1>22, <2>1, Same DEF ModifyPassword, TypeInv
<1>23. ASSUME NEW t \in Threads, Open(t) PROVE TypeInv'
  <2>1. FilesTyped'
    BY <1>0, <1>23, OpenTyped, FileNames DEF Open, FilesTyped, Objects, Contents
  <2>2. PlacesTyped'
    BY <1>23 DEF Open, TypeInv, PlacesTyped
  <2>. QED
    BY <1>23, <2>1, <2>2, Same DEF Open, TypeInv
<1>24. ASSUME NEW t \in Threads, Close(t) PROVE TypeInv'
  <2>1. FilesTyped'
    BY <1>0, <1>24, CloseTyped, ClosedTyped DEF Close, FilesTyped, Objects, Contents
  <2>2. PlacesTyped'
    <3>1. at[t] \in Sections /\ (t = "code" => at[t] \in CodeSpots) /\ (t = "fr" => at[t] \in FrSpots)
      BY <1>24 DEF Close, TypeInv, PlacesTyped
    <3>2. /\ step' \in [Threads -> {"open", "io", "close"}]
          /\ step'[t] = "open" /\ \A u \in Threads \ {t} : step'[u] = step[u]
      BY <1>24 DEF Close, TypeInv, PlacesTyped
    <3>. QED
      BY <1>24, <3>1, <3>2, Leaves, Moved DEF Close
  <2>. QED
    BY <1>24, <2>1, <2>2, Same DEF Close, TypeInv
<1>25. CASE PowerCycle \/ \E file \in {"sys", "tpc"} : PowerCycleInCommand(file)
  <2>0. Restart
    BY <1>25 DEF PowerCycle, PowerCycleInCommand
  <2>1. FilesTyped'
    <3>1. files' \in [Names -> Contents]
      BY <1>0, <1>25, Kinds DEF PowerCycle, PowerCycleInCommand, FilesTyped
    <3>. QED
      BY <2>0, <3>1, ClosedTyped DEF Restart, FilesTyped, Objects, Contents
  <2>2. SysTyped' /\ RamTyped'
    BY <2>0, Kinds, Secrets DEF Restart, SysTyped, RamTyped
  <2>3. CodeTyped'
    <3>1. Str(Blank) \in Contents /\ Str(Blank).tail = ""
      BY Kinds, Secrets DEF Str
    <3>. QED
      BY <2>0, <3>1 DEF Restart, CodeTyped
  <2>4. PlacesTyped'
    BY <2>0, BootPlaces DEF Restart
  <2>5. HistTyped'
    <3>1. CutShort => openinig_password \in Codes
      <4>1. files'.tpc \in Contents
        BY <2>1 DEF FilesTyped, Names
      <4>2. \A x : Code(x) \in Contents => x \in Codes
        BY Texts DEF Contents, Code, Str
      <4>. QED
        BY <4>1, <4>2 DEF CutShort
    <3>2. live' \in {live, None} \/ (CutShort /\ live' = openinig_password)
      BY <1>25 DEF PowerCycle, PowerCycleInCommand, LiveAfter
    <3>3. crashes' \in 0..MaxCrashes
      <4>1. crashes < MaxCrashes /\ crashes' = crashes + 1
        BY <2>0 DEF Restart
      <4>. QED
        BY <1>0, <4>1, CrashesAssumption DEF HistTyped
    <3>. QED
      BY <1>0, <2>0, <3>1, <3>2, <3>3 DEF Restart, HistTyped
  <2>. QED
    BY <2>1, <2>2, <2>3, <2>4, <2>5 DEF TypeInv
<1>26. CASE UNCHANGED vars
  BY <1>26, Same DEF vars, TypeInv
<1>. QED
  BY <1>1, <1>2, <1>3, <1>4, <1>5, <1>6, <1>7, <1>8, <1>9, <1>10, <1>11, <1>12, <1>13,
     <1>14, <1>15, <1>16, <1>17, <1>18, <1>19, <1>20, <1>21, <1>22, <1>23, <1>24, <1>25,
     <1>26
  DEF Next, KeypadSteps, FingerprintSteps, ServerSteps

\* Every variable has its type, whatever thread runs inside another's section of
\* open, read, write and close (Handle_code.c, Handle_flash.c, open.c, newweb.c).
THEOREM CredentialTypes == Spec => []TypeOK
  BY TypeInit, TypeStep, TypesHold, PTL DEF Spec

-----------------------------------------------------------------------------
(***************************************************************************)
(* One file object for all.  With one dialogue at a time, and commands at  *)
(* any call, the object is what the section opened, with what the section  *)
(* wrote to it, or a command closed it; every file and every password in   *)
(* RAM is of its kind.                                                     *)
(***************************************************************************)

SysContents  == {Torn} \cup {Str(s) : s \in Passwords \cup {Default, Blank}}
AuthContents == {Torn} \cup {Str(s) : s \in AuthPasswords \cup {Blank}}

\* One thread at a time is in a dialogue; the boot counts as one.
Alone == at["code"] = "keys" \/ at["fr"] = "keys"

\* A thread is between an f_open and its f_close.
InHandle(u) == at[u] \in Sections /\ step[u] # "open"

\* The object that the section of a thread holds.
Writing(s) == IF s = "new" THEN sys_password
              ELSE IF s = "anew" THEN flash_password ELSE Spent
Held(t) == IF step[t] = "close" /\ at[t] \in {"new", "anew", "spend"}
           THEN [file |-> FileOf(at[t]), dirty |-> TRUE, data |-> Writing(at[t])]
           ELSE [file |-> FileOf(at[t]), dirty |-> FALSE, data |-> Nothing]

\* Nobody but a command takes the object away.
Holding == \A t \in Threads :
              InHandle(t) => fp = Held(t) \/ (fp = Closed /\ ~CommandsBetween)
Mounted == at["fr"] # "mount" => mounted

RamKinds == /\ sys_password \in SysContents /\ rData1 \in SysContents
            /\ at["fr"] = "anew" => flash_password \in AuthContents

\* Once the boot has read it with no command in between, the authentication password in RAM is the stored
\* one; without a stored one it is the one compiled in.
Unread == \/ at["fr"] \in {"mount", "bsys"}
          \/ at["fr"] = "bauth" /\ step["fr"] # "close"
AuthKnown ==
    /\ Unread => flash_password = Str(AuthDefault)
    /\ ~Unread /\ at["fr"] # "anew" =>
          \/ flash_password = files.auth
          \/ ~Sound(files.auth) /\ flash_password = Str(AuthDefault)

Shared == /\ Alone /\ Holding /\ Mounted /\ OwnContents /\ RamKinds
          /\ CommandsBetween => AuthKnown

LEMMA WhichFile ==
  /\ FileOf("old") = "sys" /\ FileOf("new") = "sys" /\ FileOf("sys") = "sys"
  /\ FileOf("bsys") = "sys" /\ FileOf("auth") = "auth" /\ FileOf("anew") = "auth"
  /\ FileOf("bauth") = "auth" /\ FileOf("tpc") = "tpc" /\ FileOf("spend") = "tpc"
  /\ FileOf("btpc") = "tpc"
  BY DEF FileOf

\* What may begin: nobody else is in a dialogue, nor is a command inside one.
LEMMA MayAlone ==
  ASSUME OneUser, NEW t \in Threads, NEW u \in Threads, u # t, MayType(t)
  PROVE  at[u] = "keys"
  BY DEF MayType, Waits

LEMMA MayServer ==
  ASSUME MaySend, CommandsBetween, NEW u \in Threads
  PROVE  ~InHandle(u) /\ at[u] = "keys"
<1>1. "keys" \notin Sections
  BY SectionNames
<1>. QED
  BY <1>1 DEF MaySend, Waits, InHandle

\* Who is in a section is alone in one.
LEMMA OthersRest ==
  ASSUME Alone, NEW t \in Threads, at[t] \in Sections, NEW u \in Threads, u # t
  PROVE  at[u] = "keys" /\ ~InHandle(u)
<1>1. "keys" \notin Sections
  BY SectionNames
<1>. QED
  BY <1>1 DEF Alone, InHandle, Threads

\* What a section reads is what its file holds.
LEMMA GotOwn ==
  ASSUME TypeInv, Holding, NEW t \in Threads, NEW s, Io(t, s)
  PROVE  /\ s \in Sections /\ InHandle(t)
         /\ \/ fp = [file |-> FileOf(s), dirty |-> FALSE, data |-> Nothing]
               /\ Got = files[FileOf(s)]
            \/ fp = Closed /\ ~CommandsBetween /\ Got = Nothing
<1>1. /\ s \in Sections /\ InHandle(t) /\ at[t] = s /\ step[t] = "io"
  BY DEF Io, InHandle, TypeInv, PlacesTyped
<1>2. fp = Held(t) \/ (fp = Closed /\ ~CommandsBetween)
  BY <1>1 DEF Holding
<1>3. ASSUME fp = Held(t)
      PROVE  /\ fp = [file |-> FileOf(s), dirty |-> FALSE, data |-> Nothing]
             /\ Got = files[FileOf(s)]
  <2>1. fp = [file |-> FileOf(s), dirty |-> FALSE, data |-> Nothing]
    BY <1>1, <1>3 DEF Held
  <2>2. fp.file = FileOf(s) /\ fp.dirty = FALSE /\ FileOf(s) # "none"
    BY <1>1, <2>1, FileNames DEF Names
  <2>. QED
    BY <2>1, <2>2 DEF Got, f_read
<1>4. ASSUME fp = Closed PROVE Got = Nothing
  BY <1>4 DEF Got, f_read, Closed
<1>. QED
  BY <1>1, <1>2, <1>3, <1>4

\* The keypad thread goes on between two sections.
LEMMA KeypadMoves ==
  ASSUME TypeInv, Shared, OneUser, NEW p, Goto("code", p),
         at["code"] \notin Sections, at["code"] = "keys" => MayType("code"),
         UNCHANGED <<fileVars, flash_password, step>>,
         sys_password' \in SysContents, rData1' \in SysContents
  PROVE  Shared'
<1>1. /\ step["code"] = "open" /\ at'["code"] = p /\ at'["fr"] = at["fr"]
      /\ "code" \in Threads /\ "fr" \in Threads /\ at["fr"] \in FrSpots
  BY Outside DEF TypeInv, PlacesTyped, Goto, Threads
<1>2. ~InHandle("code")' /\ InHandle("fr")' = InHandle("fr")
  BY <1>1 DEF InHandle, Sections
<1>3. Alone'
  BY <1>1, MayAlone DEF Alone, Shared
<1>4. Holding'
  <2>1. Held("fr")' = Held("fr")
    BY <1>1 DEF Held, Writing, fileVars, FrSpots
  <2>. QED
    BY <1>2, <2>1 DEF Holding, Shared, Threads, fileVars
<1>5. Mounted'
  BY <1>1 DEF Mounted, Shared, fileVars
<1>6. OwnContents' /\ RamKinds' /\ (CommandsBetween => AuthKnown')
  BY <1>1 DEF OwnContents, RamKinds, AuthKnown, Unread, Shared, fileVars
<1>. QED
  BY <1>3, <1>4, <1>5, <1>6 DEF Shared

\* So does the fingerprint thread.
LEMMA FingerprintMoves ==
  ASSUME TypeInv, Shared, OneUser, NEW p, Goto("fr", p),
         at["fr"] \notin Sections, at["fr"] = "keys" => MayType("fr"),
         UNCHANGED <<files, fp, sysVars, step>>,
         mounted',
         p = "anew" => flash_password' \in AuthContents,
         CommandsBetween => AuthKnown'
  PROVE  Shared'
<1>1. /\ step["fr"] = "open" /\ at'["fr"] = p /\ at'["code"] = at["code"]
      /\ "code" \in Threads /\ "fr" \in Threads /\ at["code"] \in CodeSpots
  BY Outside DEF TypeInv, PlacesTyped, Goto, Threads
<1>2. ~InHandle("fr")' /\ InHandle("code")' = InHandle("code")
  BY <1>1 DEF InHandle, Sections
<1>3. Alone'
  BY <1>1, MayAlone DEF Alone, Shared
<1>4. Holding'
  <2>1. Held("code")' = Held("code")
    BY <1>1 DEF Held, Writing, sysVars, CodeSpots
  <2>. QED
    BY <1>2, <2>1 DEF Holding, Shared, Threads
<1>5. Mounted'
  BY DEF Mounted
<1>6. OwnContents' /\ RamKinds'
  BY <1>1 DEF OwnContents, RamKinds, Shared, sysVars
<1>. QED
  BY <1>3, <1>4, <1>5, <1>6 DEF Shared

\* The call of a section: it reads, or writes what the section is there to write.
LEMMA CallShared ==
  ASSUME TypeInv, Shared, NEW t \in Threads, NEW s, Io(t, s),
         s \notin {"new", "anew", "spend"} => UNCHANGED fp,
         s \in {"new", "anew", "spend"} =>
            /\ fp' = f_write(fp, Writing(s))
            /\ UNCHANGED <<sys_password, flash_password>>,
         RamKinds', CommandsBetween => AuthKnown'
  PROVE  Shared'
<1>1. /\ s \in Sections /\ InHandle(t) /\ at[t] = s /\ step[t] = "io"
      /\ step'[t] = "close" /\ at' = at /\ files' = files /\ mounted' = mounted
      /\ \A u \in Threads \ {t} : step'[u] = step[u] /\ ~InHandle(u)
  BY OthersRest DEF Io, InHandle, TypeInv, PlacesTyped, Shared
<1>2. \A u \in Threads : InHandle(u)' = InHandle(u)
  BY <1>1 DEF InHandle
<1>3. Alone'
  BY <1>1, <1>2 DEF Alone, Shared, Threads
<1>4. fp' = Held(t)' \/ (fp' = Closed /\ ~CommandsBetween)
  <2>1. CASE s \notin {"new", "anew", "spend"}
    <3>1. fp' = fp /\ Held(t)' = [file |-> FileOf(s), dirty |-> FALSE, data |-> Nothing]
      BY <1>1, <2>1 DEF Held
    <3>. QED
      BY <3>1, GotOwn DEF Shared
  <2>2. CASE s \in {"new", "anew", "spend"}
    <3>1. /\ fp' = f_write(fp, Writing(s)) /\ Writing(s)' = Writing(s)
          /\ Held(t)' = [file |-> FileOf(s), dirty |-> TRUE, data |-> Writing(s)']
      BY <1>1, <2>2 DEF Held, Writing
    <3>2. CASE fp = [file |-> FileOf(s), dirty |-> FALSE, data |-> Nothing]
      <4>1. FileOf(s) # "none" /\ fp.file = FileOf(s)
        BY <1>1, <3>2, FileNames DEF Names
      <4>2. fp' = [fp EXCEPT !.dirty = TRUE, !.data = Writing(s)]
        BY <3>1, <4>1 DEF f_write
      <4>. QED
        BY <3>1, <3>2, <4>2
    <3>3. CASE fp = Closed /\ ~CommandsBetween
      BY <3>1, <3>3 DEF f_write, Closed
    <3>. QED
      BY <3>2, <3>3, GotOwn DEF Shared
  <2>. QED
    BY <2>1, <2>2
<1>5. Holding'
  BY <1>1, <1>2, <1>4 DEF Holding
<1>6. Mounted' /\ OwnContents'
  BY <1>1 DEF Mounted, OwnContents, Shared
<1>. QED
  BY <1>3, <1>5, <1>6 DEF Shared

\* A section is opened, and closed.
LEMMA OpenShared ==
  ASSUME TypeInv, Shared, OneUser, NEW t \in Threads, Open(t)
  PROVE  Shared'
<1>1. /\ at[t] \in Sections /\ step[t] = "open" /\ step'[t] = "io" /\ at' = at
      /\ \A u \in Threads \ {t} : step'[u] = step[u] /\ ~InHandle(u) /\ at[u] = "keys"
  BY OthersRest DEF Open, TypeInv, PlacesTyped, Shared
<1>2. /\ \A u \in Threads \ {t} : ~InHandle(u)'
      /\ UNCHANGED <<files, mounted, sysVars, authVars>>
  BY <1>1 DEF InHandle, Open
<1>3. Alone'
  BY <1>1, <1>2 DEF Alone, Shared, Threads
<1>4. fp' = Held(t)'
  <2>1. Held(t)' = [file |-> FileOf(at[t]), dirty |-> FALSE, data |-> Nothing]
    BY <1>1 DEF Held
  <2>2. at["fr"] # "mount"
    BY <1>1, SectionNames DEF Threads
  <2>3. fp' = f_open(FileOf(at[t]), mounted) /\ mounted
    BY <2>2 DEF Open, Mounted, Shared
  <2>. QED
    BY <2>1, <2>3 DEF f_open
<1>5. Holding'
  BY <1>2, <1>4 DEF Holding
<1>6. Mounted'
  BY <1>1, <1>2 DEF Mounted, Shared
<1>7. OwnContents' /\ RamKinds'
  BY <1>1, <1>2 DEF OwnContents, RamKinds, Shared, sysVars, authVars
<1>8. CommandsBetween => AuthKnown'
  <2>1. Unread' = Unread
    BY <1>1 DEF Unread, Threads
  <2>. QED
    BY <1>1, <1>2, <2>1 DEF AuthKnown, Shared, authVars
<1>. QED
  BY <1>3, <1>5, <1>6, <1>7, <1>8 DEF Shared

\* What closing writes: the content of the section, into its file.
LEMMA Closing ==
  ASSUME TypeInv, Holding, NEW t \in Threads, Close(t)
  PROVE  /\ InHandle(t) /\ at[t] \in Sections
         /\ \/ fp = Closed /\ ~CommandsBetween /\ files' = files
            \/ at[t] \notin {"new", "anew", "spend"} /\ files' = files
            \/ /\ at[t] \in {"new", "anew", "spend"}
               /\ files' = [files EXCEPT ![FileOf(at[t])] = Writing(at[t])]
<1>1. at[t] \in Sections /\ step[t] = "close" /\ InHandle(t)
  BY DEF Close, InHandle, TypeInv, PlacesTyped
<1>2. files' = f_close(files, fp)
  BY DEF Close
<1>3. CASE fp = Closed /\ ~CommandsBetween
  BY <1>1, <1>2, <1>3 DEF f_close, Closed
<1>4. CASE fp = Held(t)
  BY <1>1, <1>2, <1>4 DEF f_close, Held
<1>. QED
  BY <1>1, <1>3, <1>4 DEF Holding

LEMMA CloseShared ==
  ASSUME TypeInv, Shared, OneUser, NEW t \in Threads, Close(t)
  PROVE  Shared'
<1>1. /\ at[t] \in Sections /\ step[t] = "close" /\ InHandle(t)
      /\ step'[t] = "open" /\ at'[t] = After[at[t]]
      /\ \A u \in Threads \ {t} : step'[u] = step[u] /\ at'[u] = at[u] /\ ~InHandle(u)
                                  /\ at[u] = "keys"
  BY Closing, OthersRest DEF Close, TypeInv, PlacesTyped, Shared, Goto
<1>2. \A u \in Threads : ~InHandle(u)'
  BY <1>1 DEF InHandle
<1>3. UNCHANGED <<mounted, sysVars, authVars>>
  BY DEF Close
<1>4. Alone'
  BY <1>1 DEF Alone, Threads
<1>5. Holding'
  BY <1>2 DEF Holding
<1>6. at["code"] \in CodeSpots /\ at["fr"] \in FrSpots /\ files \in [Names -> Contents]
  BY DEF TypeInv, PlacesTyped, FilesTyped
<1>7. Mounted'
  <2>1. at["fr"] # "mount"
    BY <1>1, SectionNames DEF Threads
  <2>. QED
    BY <1>3, <2>1 DEF Mounted, Shared
<1>8. OwnContents'
  <2>1. CASE files' = files
    BY <2>1 DEF OwnContents, Shared
  <2>2. CASE at[t] = "new" /\ files' = [files EXCEPT !["sys"] = sys_password]
    BY <1>6, <2>2 DEF OwnContents, RamKinds, SysContents, Shared, Names
  <2>3. CASE at[t] = "anew" /\ files' = [files EXCEPT !["auth"] = flash_password]
    <3>1. t = "fr"
      BY <1>6, <2>3 DEF Threads, CodeSpots
    <3>. QED
      BY <1>6, <2>3, <3>1 DEF OwnContents, RamKinds, AuthContents, Shared, Names
  <2>4. CASE at[t] = "spend" /\ files' = [files EXCEPT !["tpc"] = Spent]
    BY <1>6, <2>4 DEF OwnContents, Shared, Names
  <2>. QED
    BY <2>1, <2>2, <2>3, <2>4, Closing, WhichFile DEF Shared, Writing
<1>9. RamKinds'
  <2>1. at'["fr"] = "anew" => at["fr"] = "anew"
    BY <1>1, SectionNames DEF After, Threads
  <2>. QED
    BY <1>3, <2>1 DEF RamKinds, Shared, sysVars, authVars
<1>10. ASSUME CommandsBetween PROVE AuthKnown'
  <2>1. flash_password' = flash_password
    BY <1>3 DEF authVars
  <2>2. CASE t = "code"
    <3>1. files'.auth = files.auth
      <4>1. at["code"] # "anew"
        BY <1>6 DEF CodeSpots
      <4>. QED
        BY <1>6, <2>2, <4>1, Closing, WhichFile DEF Shared, Names
    <3>2. Unread' = Unread /\ at'["fr"] = at["fr"]
      BY <1>1, <2>2 DEF Unread, Threads
    <3>. QED
      BY <1>10, <2>1, <3>1, <3>2 DEF AuthKnown, Shared
  <2>3. CASE t = "fr" /\ at["fr"] = "anew"
    <3>1. files'.auth = flash_password
      BY <1>6, <1>10, <2>3, Closing, WhichFile DEF Shared, Writing, Names
    <3>2. ~Unread'
      BY <1>1, <2>3 DEF After, Unread
    <3>. QED
      BY <2>1, <3>1, <3>2 DEF AuthKnown
  <2>4. CASE t = "fr" /\ at["fr"] # "anew"
    <3>1. files'.auth = files.auth
      <4>1. at["fr"] \notin {"new", "spend"}
        BY <1>6 DEF FrSpots
      <4>. QED
        BY <2>4, <4>1, Closing DEF Shared
    <3>2. at["fr"] \in {"bsys", "bauth", "btpc", "auth"}
      BY <1>1, <1>6, <2>4, SectionNames DEF FrSpots
    <3>3. Unread' = Unread /\ at'["fr"] # "anew"
      BY <1>1, <2>4, <3>2 DEF After, Unread
    <3>. QED
      BY <1>10, <2>1, <2>4, <3>1, <3>3 DEF AuthKnown, Shared
  <2>. QED
    BY <2>2, <2>3, <2>4 DEF Threads
<1>. QED
  BY <1>4, <1>5, <1>7, <1>8, <1>9, <1>10 DEF Shared

\* The server's command writes one file, and leaves the object closed.
LEMMA StoresShared ==
  ASSUME TypeInv, Shared, OneUser, MaySend, UNCHANGED mounted,
         NEW file \in {"sys", "tpc"}, NEW content, Stores(file, content),
         file = "sys" => content \in SysContents,
         file = "tpc" => content \in {Code(c) : c \in Codes},
         UNCHANGED <<sysVars, authVars, at, step>>
  PROVE  Shared'
<1>1. /\ CommandsBetween => \A u \in Threads : ~InHandle(u)'
      /\ fp' = Closed
  BY MayServer DEF InHandle, Stores
<1>2. files \in [Names -> Contents] /\ mounted \in BOOLEAN
  BY DEF TypeInv, FilesTyped
<1>3. files' = files \/ files' = [files EXCEPT ![file] = content]
  <2>1. CASE mounted
    BY <2>1 DEF Stores, f_open, f_write, f_close
  <2>2. CASE ~mounted
    BY <2>2 DEF Stores, f_open, f_write, f_close, Closed
  <2>. QED
    BY <2>1, <2>2
<1>4. Alone' /\ Holding'
  BY <1>1 DEF Alone, Holding, Shared
<1>5. Mounted'
  BY DEF Mounted, Shared
<1>6. OwnContents'
  BY <1>2, <1>3 DEF OwnContents, Shared, Names, SysContents
<1>7. RamKinds'
  BY DEF RamKinds, Shared, sysVars, authVars
<1>8. CommandsBetween => AuthKnown'
  <2>1. files'.auth = files.auth
    BY <1>2, <1>3 DEF Names
  <2>. QED
    BY <2>1 DEF AuthKnown, Unread, Shared, authVars
<1>. QED
  BY <1>4, <1>5, <1>6, <1>7, <1>8 DEF Shared

\* The power just came.
Fresh == /\ PlacesTyped /\ at["code"] = "keys" /\ at["fr"] = "mount" /\ fp = Closed
         /\ \A t \in Threads : step[t] = "open"
         /\ sys_password = Str(Default) /\ rData1 = Str(Blank)
         /\ flash_password = Str(AuthDefault) /\ OwnContents

LEMMA SharedBoot == Fresh => Shared
<1> SUFFICES ASSUME Fresh PROVE Shared
  OBVIOUS
<1> USE DEF Fresh
<1>1. \A t \in Threads : ~InHandle(t)
  BY DEF InHandle
<1>2. Alone /\ Holding
  BY <1>1 DEF Alone, Holding, Threads
<1>3. Mounted
  BY DEF Mounted
<1>4. RamKinds /\ AuthKnown
  BY DEF RamKinds, AuthKnown, Unread, SysContents
<1>. QED
  BY <1>2, <1>3, <1>4 DEF Shared

LEMMA SharedInit == Init => Shared
<1> SUFFICES ASSUME Init PROVE Shared
  OBVIOUS
<1>1. PlacesTyped
  BY TypeInit DEF TypeInv
<1>2. at = [code |-> "keys", fr |-> "mount"]
  BY DEF Init
<1>3. at["code"] = "keys" /\ at["fr"] = "mount"
  BY <1>2, Pair
<1>4. \A t \in Threads : step[t] = "open"
  BY DEF Init
<1>5. OwnContents
  <2>1. files.sys \in Stored /\ files.auth = Nothing /\ files.tpc = Nothing
    BY DEF Init
  <2>. QED
    BY <2>1, StoredAssumption DEF OwnContents
<1>6. /\ fp = Closed /\ sys_password = Str(Default)
      /\ rData1 = Str(Blank) /\ flash_password = Str(AuthDefault)
  BY DEF Init
<1>. QED
  BY <1>1, <1>3, <1>4, <1>5, <1>6, SharedBoot DEF Fresh

\* The power fails: the files are of their kinds, or torn.
LEMMA CycleShared ==
  ASSUME TypeInv, TypeInv', Shared, Restart,
         files' = files \/ \E f : files' = [files EXCEPT ![f] = Torn]
  PROVE  Shared'
<1>1. at' = [code |-> "keys", fr |-> "mount"]
  BY DEF Restart
<1>2. PlacesTyped' /\ at'["code"] = "keys" /\ at'["fr"] = "mount"
  BY <1>1, Pair DEF TypeInv
<1>3. OwnContents'
  <2>1. files \in [Names -> Contents]
    BY DEF TypeInv, FilesTyped
  <2>. QED
    BY <2>1 DEF OwnContents, Shared, Names
<1>4. /\ fp' = Closed /\ sys_password' = Str(Default)
      /\ rData1' = Str(Blank) /\ flash_password' = Str(AuthDefault)
      /\ step' = [t \in Threads |-> "open"]
  BY DEF Restart
<1>5. \A t \in Threads : step'[t] = "open"
  BY <1>4
<1>6. Fresh'
  BY <1>2, <1>3, <1>4, <1>5 DEF Fresh
<1>. QED
  BY <1>6, SharedBoot, PTL

LEMMA SharedStep ==
  ASSUME OneUser
  PROVE  TypeInv /\ TypeInv' /\ Shared /\ [Next]_vars => Shared'
<1> SUFFICES ASSUME TypeInv, TypeInv', Shared, [Next]_vars PROVE Shared'
  OBVIOUS
<1>0. /\ \A x \in {"keys", "same", "gate", "match", "decide", "mount", "grant", "asame"} :
            x \notin Sections
      /\ "code" \in Threads /\ "fr" \in Threads
      /\ RamKinds /\ Holding /\ Mounted /\ OwnContents /\ (CommandsBetween => AuthKnown)
      /\ mounted \in BOOLEAN
  BY SectionNames DEF Shared, Threads, TypeInv, FilesTyped
\* What an Io that leaves them alone needs.
<1>a. UNCHANGED <<files, at, flash_password>> /\ step'["fr"] = step["fr"] =>
         (CommandsBetween => AuthKnown')
  BY <1>0 DEF AuthKnown, Unread
<1>b. \A s : Io("code", s) => step'["fr"] = step["fr"] /\ UNCHANGED <<files, at, mounted>>
  BY <1>0 DEF Io, TypeInv, PlacesTyped
<1>1. ASSUME NEW s \in Entered, EnterChange(s) \/ EnterUnlock(s)
      PROVE  Shared'
  BY <1>0, <1>1, KeypadMoves
  DEF EnterChange, EnterUnlock, RamKinds, codeVars, authVars
<1>2. ASSUME NEW s \in Passwords \cup {Blank}, EnterNew(s) PROVE Shared'
  <2>1. sys_password' \in SysContents
    BY <1>2 DEF EnterNew, SysContents
  <2>. QED
    BY <1>0, <1>2, <2>1, KeypadMoves DEF EnterNew, RamKinds, codeVars, authVars
<1>3. CASE Gate
  BY <1>0, <1>3, KeypadMoves DEF Gate, RamKinds, codeVars, authVars
<1>4. CASE Differs
  BY <1>0, <1>4, KeypadMoves DEF Differs, RamKinds, codeVars, authVars
<1>5. CASE Match
  BY <1>0, <1>5, KeypadMoves DEF Match, Spends, IsCode, RamKinds, sysVars, codeVars, authVars
<1>6. CASE Unlock \/ Refuse
  <2>0. Exit /\ at["code"] = "decide"
    BY <1>6 DEF Unlock, Refuse
  <2>. QED
    BY <1>0, <2>0, KeypadMoves DEF Exit, RamKinds, codeVars, authVars
<1>7. CASE OldIo
  <2>1. Io("code", "old") /\ UNCHANGED <<fp, rData1, codeVars, flash_password>>
        /\ sys_password' = Buffer(sys_password)
    BY <1>7 DEF OldIo
  <2>2. Got = files.sys \/ Got = Nothing
    BY <1>0, <2>1, GotOwn, WhichFile
  <2>3. Buffer(sys_password) \in SysContents
    BY <1>0, <2>2 DEF Buffer, OwnContents, RamKinds, SysContents
  <2>4. RamKinds' /\ (CommandsBetween => AuthKnown')
    BY <1>0, <1>a, <1>b, <2>1, <2>3 DEF RamKinds
  <2>. QED
    BY <1>0, <2>1, <2>4, CallShared DEF codeVars, Mounted
<1>8. CASE SysIo
  <2>1. Io("code", "sys") /\ UNCHANGED <<fp, codeVars, flash_password>>
        /\ rData1' = Buffer(rData1) /\ sys_password' = rData1'
    BY <1>8 DEF SysIo
  <2>2. Got = files.sys \/ Got = Nothing
    BY <1>0, <2>1, GotOwn, WhichFile
  <2>3. Buffer(rData1) \in SysContents
    BY <1>0, <2>2 DEF Buffer, OwnContents, RamKinds, SysContents
  <2>4. RamKinds' /\ (CommandsBetween => AuthKnown')
    BY <1>0, <1>a, <1>b, <2>1, <2>3 DEF RamKinds
  <2>. QED
    BY <1>0, <2>1, <2>4, CallShared DEF codeVars, Mounted
<1>9. CASE TpcIo
  <2>1. Io("code", "tpc") /\ UNCHANGED <<fp, sys_password, rData1, flash_password>>
    BY <1>9 DEF TpcIo
  <2>2. RamKinds' /\ (CommandsBetween => AuthKnown')
    BY <1>0, <1>a, <1>b, <2>1 DEF RamKinds
  <2>. QED
    BY <1>0, <2>1, <2>2, CallShared
<1>10. CASE NewIo \/ SpendIo
  <2>1. PICK s \in {"new", "spend"} :
           /\ Io("code", s) /\ fp' = f_write(fp, Writing(s))
           /\ UNCHANGED <<sys_password, rData1, codeVars, flash_password>>
    BY <1>10 DEF NewIo, SpendIo, Writing
  <2>2. RamKinds' /\ (CommandsBetween => AuthKnown')
    BY <1>0, <1>a, <1>b, <2>1 DEF RamKinds
  <2>. QED
    BY <1>0, <2>1, <2>2, CallShared DEF codeVars, Mounted
<1>11. CASE Mount
  <2>1. CommandsBetween => AuthKnown'
    BY <1>0, <1>11 DEF Mount, AuthKnown, Unread, Goto, authVars, TypeInv, PlacesTyped
  <2>. QED
    BY <1>0, <1>11, <2>1, FingerprintMoves DEF Mount, codeVars
<1>12. CASE BootSysIo
  <2>1. Io("fr", "bsys") /\ UNCHANGED <<fp, rData1, codeVars, flash_password>>
        /\ sys_password' = IF Sound(Got) THEN Got ELSE sys_password
    BY <1>12 DEF BootSysIo
  <2>2. Got = files.sys \/ Got = Nothing
    BY <1>0, <2>1, GotOwn, WhichFile
  <2>3. at["fr"] = "bsys" /\ at' = at
    BY <2>1 DEF Io
  <2>4. RamKinds'
    BY <1>0, <2>1, <2>2, <2>3 DEF Sound, OwnContents, RamKinds, SysContents
  <2>5. CommandsBetween => AuthKnown'
    BY <1>0, <2>1, <2>3 DEF AuthKnown, Unread
  <2>. QED
    BY <1>0, <2>1, <2>4, <2>5, CallShared DEF codeVars, Mounted
<1>13. CASE BootAuthIo
  <2>1. Io("fr", "bauth") /\ UNCHANGED <<fp, sys_password, rData1, codeVars>>
        /\ flash_password' = IF Sound(Got) THEN Got ELSE flash_password
    BY <1>13 DEF BootAuthIo
  <2>2. CommandsBetween => Got = files.auth
    BY <1>0, <2>1, GotOwn, WhichFile
  <2>3. at["fr"] = "bauth" /\ at' = at /\ files' = files
        /\ step["fr"] = "io" /\ step'["fr"] = "close"
    BY <1>0, <2>1 DEF Io, TypeInv, PlacesTyped
  <2>4. RamKinds'
    BY <1>0, <2>1, <2>3 DEF RamKinds
  <2>5. CommandsBetween => AuthKnown'
    BY <1>0, <2>1, <2>2, <2>3 DEF AuthKnown, Unread
  <2>. QED
    BY <1>0, <2>1, <2>4, <2>5, CallShared DEF codeVars, Mounted
<1>14. CASE BootTpcIo
  <2>1. Io("fr", "btpc") /\ UNCHANGED <<fp, sys_password, rData1, flash_password>>
    BY <1>14 DEF BootTpcIo
  <2>2. at["fr"] = "btpc" /\ at' = at /\ files' = files
    BY <2>1 DEF Io
  <2>3. RamKinds' /\ (CommandsBetween => AuthKnown')
    BY <1>0, <2>1, <2>2 DEF RamKinds, AuthKnown, Unread, Mounted
  <2>. QED
    BY <1>0, <2>1, <2>3, CallShared
<1>15. ASSUME NEW s \in AuthTyped, EnterAuth(s) \/ EnterAuthChange(s) PROVE Shared'
  <2>1. PICK p \in {"auth", "grant", "asame"} : Goto("fr", p)
    BY <1>15 DEF EnterAuth, EnterAuthChange
  <2>2. at["fr"] = "keys" /\ at'["fr"] = p /\ files' = files
        /\ flash_password' = flash_password
    BY <1>15, <2>1 DEF EnterAuth, EnterAuthChange, fileVars, Goto, TypeInv, PlacesTyped
  <2>3. CommandsBetween => AuthKnown'
    BY <1>0, <2>2 DEF AuthKnown, Unread
  <2>. QED
    BY <1>0, <1>15, <2>1, <2>2, <2>3, FingerprintMoves
    DEF EnterAuth, EnterAuthChange, fileVars, codeVars, Mounted
<1>16. ASSUME NEW s \in AuthPasswords \cup {Blank}, EnterNewAuth(s) PROVE Shared'
  <2>1. flash_password' \in AuthContents
    BY <1>16 DEF EnterNewAuth, AuthContents
  <2>2. at["fr"] = "asame" /\ at'["fr"] = "anew"
    BY <1>16 DEF EnterNewAuth, Goto, TypeInv, PlacesTyped
  <2>3. CommandsBetween => AuthKnown'
    BY <2>2 DEF AuthKnown, Unread
  <2>. QED
    BY <1>0, <1>16, <2>1, <2>2, <2>3, FingerprintMoves
    DEF EnterNewAuth, fileVars, codeVars, Mounted
<1>17. CASE Grant \/ Deny \/ AuthDiffers
  <2>0. AuthEnd /\ at["fr"] \in {"grant", "asame"}
    BY <1>17 DEF Grant, Deny, AuthDiffers
  <2>1. at'["fr"] = "keys" /\ files' = files /\ flash_password' = flash_password
    BY <2>0 DEF AuthEnd, fileVars, Goto, TypeInv, PlacesTyped
  <2>2. CommandsBetween => AuthKnown'
    BY <1>0, <2>0, <2>1 DEF AuthKnown, Unread
  <2>. QED
    BY <1>0, <2>0, <2>2, FingerprintMoves DEF AuthEnd, fileVars, codeVars, Mounted
<1>18. CASE AuthIo
  <2>1. Io("fr", "auth") /\ UNCHANGED <<fp, sys_password, rData1, codeVars>>
        /\ flash_password' = Buffer(flash_password)
    BY <1>18 DEF AuthIo
  <2>2. CommandsBetween => Got = files.auth
    BY <1>0, <2>1, GotOwn, WhichFile
  <2>3. at["fr"] = "auth" /\ at' = at /\ files' = files
    BY <2>1 DEF Io
  <2>4. RamKinds'
    BY <1>0, <2>1, <2>3 DEF RamKinds
  <2>5. CommandsBetween => AuthKnown'
    BY <1>0, <2>1, <2>2, <2>3 DEF AuthKnown, Unread, Buffer
  <2>. QED
    BY <1>0, <2>1, <2>4, <2>5, CallShared DEF codeVars, Mounted
<1>19. CASE NewAuthIo
  <2>1. /\ Io("fr", "anew") /\ fp' = f_write(fp, Writing("anew"))
        /\ UNCHANGED <<sys_password, rData1, codeVars, flash_password>>
    BY <1>19 DEF NewAuthIo, Writing
  <2>2. at["fr"] = "anew" /\ at' = at
    BY <2>1 DEF Io
  <2>3. RamKinds' /\ (CommandsBetween => AuthKnown')
    BY <1>0, <2>1, <2>2 DEF RamKinds, AuthKnown, Unread
  <2>. QED
    BY <1>0, <2>1, <2>3, CallShared DEF codeVars, Mounted
<1>20. ASSUME NEW c \in Codes, SetTemporaryCode(c) PROVE Shared'
  BY <1>0, <1>20, StoresShared DEF SetTemporaryCode
<1>21. ASSUME NEW p \in Passwords, ModifyPassword(p) PROVE Shared'
  BY <1>0, <1>21, StoresShared DEF ModifyPassword, SysContents, codeVars
<1>22. ASSUME NEW t \in Threads, Open(t) \/ Close(t) PROVE Shared'
  BY <1>22, OpenShared, CloseShared
<1>23. CASE PowerCycle \/ \E file \in {"sys", "tpc"} : PowerCycleInCommand(file)
  BY <1>23, CycleShared DEF PowerCycle, PowerCycleInCommand
<1>24. CASE UNCHANGED vars
  BY <1>0, <1>24 DEF vars, fileVars, sysVars, codeVars, authVars, Shared, Alone, Holding,
     Mounted, OwnContents, RamKinds, AuthKnown, Unread, InHandle, Held, Writing
<1>. QED
  BY <1>1, <1>2, <1>3, <1>4, <1>5, <1>6, <1>7, <1>8, <1>9, <1>10, <1>11, <1>12, <1>13,
     <1>14, <1>15, <1>16, <1>17, <1>18, <1>19, <1>20, <1>21, <1>22, <1>23, <1>24
  DEF Next, KeypadSteps, FingerprintSteps, ServerSteps

LEMMA SharedAlways ==
  ASSUME OneUser
  PROVE  Spec => [](TypeInv /\ Shared)
<1>1. Init => TypeInv /\ Shared
  BY TypeInit, SharedInit
<1>2. TypeInv /\ Shared /\ [Next]_vars => (TypeInv /\ Shared)'
  BY TypeStep, SharedStep
<1>. QED
  BY <1>1, <1>2, PTL DEF Spec

\* No thread writes its secret into the file of another one, though all of them
\* and the server's commands, at any call, use one fp (Handle_flash.c:10), as
\* long as the keypad serves one dialogue at a time.
THEOREM CredentialFiles ==
  ASSUME OneUser
  PROVE  Spec => []OwnContents
<1>1. Shared => OwnContents
  BY DEF Shared
<1>. QED
  BY <1>1, SharedAlways, PTL

\* What opens the fingerprint menu is the stored authentication password, or the
\* compiled one while none is stored (Handle_code.c:49).
THEOREM CredentialAuth ==
  ASSUME OneUser, CommandsBetween
  PROVE  Spec => AuthOnlyByAuth
<1>1. ASSUME Shared, Grant \/ NewAuth
      PROVE  \/ files.auth = Str(password)
             \/ ~Sound(files.auth) /\ password = AuthDefault
  <2>1. at["fr"] \in {"grant", "asame"} /\ flash_password = Str(password)
    BY <1>1 DEF Grant, NewAuth, EnterNewAuth, Authorised
  <2>2. \/ flash_password = files.auth
        \/ ~Sound(files.auth) /\ flash_password = Str(AuthDefault)
    BY <1>1, <2>1 DEF Shared, AuthKnown, Unread
  <2>3. Str(password) = Str(AuthDefault) => password = AuthDefault
    BY DEF Str
  <2>. QED
    BY <2>1, <2>2, <2>3
<1>2. Shared => [Grant \/ NewAuth => \/ files.auth = Str(password)
                                     \/ ~Sound(files.auth) /\ password = AuthDefault]_vars
  BY <1>1
<1>. QED
  BY <1>2, SharedAlways, PTL DEF AuthOnlyByAuth

-----------------------------------------------------------------------------
(***************************************************************************)
(* No command either inside an entry.  Then what a keypad entry has read of*)
(* the flash is still there when it decides, a code the server sent and    *)
(* nobody used is the one of the flash, and an entry takes the code that   *)
(* lets it in.                                                             *)
(***************************************************************************)

SysRead  == \/ at["code"] \in {"same", "tpc", "match", "spend", "decide"}
            \/ at["code"] \in {"old", "sys"} /\ step["code"] = "close"
SysKnown == /\ SysRead /\ files.sys # Nothing => sys_password = files.sys
            /\ at["code"] = "new" => sys_password = Str(chosen)

CodeRead  == at["code"] = "match" \/ (at["code"] = "tpc" /\ step["code"] = "close")
CodeKnown == CodeRead =>
                /\ tpc_code_t = "1" => files.tpc = Code(TheCode)
                /\ \A c \in Codes : files.tpc = Code(c) => TheCode = c /\ tpc_code_t = "1"

\* The code that is waiting, and the one an entry is about to spend.
Lives == /\ live # None => files.tpc = Code(live)
         /\ \A c \in Codes : files.tpc = Code(c) =>
               live = c \/ (taken /\ openinig_password = c /\ at["code"] = "spend")
Taking == /\ taken => at["code"] \in {"spend", "decide"}
          /\ at["code"] \in {"spend", "decide"} =>
                (taken <=> IsCode) /\ openinig_password # live
          /\ at["code"] = "spend" => taken /\ live = None

Entry == SysKnown /\ CodeKnown /\ Lives /\ Taking

\* Between two entries there is only the code that is waiting to know of.
Waiting == at["code"] = "keys" /\ taken = FALSE /\ Lives

LEMMA Idle == Waiting => Entry
  BY DEF Waiting, Entry, SysKnown, SysRead, CodeKnown, CodeRead, Taking

\* What only one entry at a time may do, the others leave alone.
LEMMA Resting ==
  ASSUME TypeInv, Entry, at["code"] = "keys", at'["code"] = "keys",
         UNCHANGED histVars, files'.tpc = files.tpc
  PROVE  Entry'
<1>1. taken' = FALSE
  BY DEF Entry, Taking, histVars, TypeInv, HistTyped
<1>2. Lives'
  BY DEF Entry, Lives, histVars
<1>3. Waiting'
  BY <1>1, <1>2 DEF Waiting
<1>. QED
  BY <1>3, Idle, PTL

LEMMA EntryInit == Init => Entry
<1> SUFFICES ASSUME Init PROVE Waiting
  BY Idle
<1>1. files.tpc = Nothing /\ live = None /\ taken = FALSE
  BY DEF Init
<1>2. at = [code |-> "keys", fr |-> "mount"]
  BY DEF Init
<1>3. at["code"] = "keys"
  BY <1>2, Pair
<1>. QED
  BY <1>1, <1>3, Texts DEF Waiting, Lives

\* The entry takes the code when it compares it.
LEMMA MatchEntry ==
  ASSUME TypeInv, Shared, Entry, Match
  PROVE  Entry'
<1>1. /\ at["code"] = "match" /\ at'["code"] = IF IsCode THEN "spend" ELSE "decide"
      /\ UNCHANGED <<files, sys_password, openinig_password, codeVars, chosen>>
      /\ taken' = (IsCode /\ live = openinig_password)
      /\ live' = IF taken' THEN None ELSE live
  <2>1. /\ taken' = (IsCode /\ live = openinig_password)
        /\ live' = IF taken' THEN None ELSE live
    BY Zenon DEF Match, Spends
  <2>2. /\ at["code"] = "match" /\ at'["code"] = IF IsCode THEN "spend" ELSE "decide"
        /\ UNCHANGED <<files, sys_password, openinig_password, codeVars, chosen>>
    <3>1. /\ at["code"] = "match" /\ Goto("code", IF IsCode THEN "spend" ELSE "decide")
          /\ UNCHANGED <<files, sys_password, openinig_password, codeVars, chosen>>
      BY Zenon DEF Match, Spends, fileVars, sysVars
    <3>2. \A p : Goto("code", p) => at'["code"] = p
      BY DEF Goto, TypeInv, PlacesTyped, Threads
    <3>. QED
      BY <3>1, <3>2
  <2>. QED
    BY <2>1, <2>2
<1>2. IsCode' = IsCode
  BY <1>1 DEF IsCode, TheCode, codeVars
<1>3. /\ tpc_code_t = "1" => files.tpc = Code(TheCode)
      /\ \A c \in Codes : files.tpc = Code(c) => TheCode = c /\ tpc_code_t = "1"
      /\ live # None => files.tpc = Code(live)
      /\ \A c \in Codes : files.tpc = Code(c) => live = c
      /\ live \in Codes \cup {None}
  BY <1>1 DEF Entry, CodeKnown, CodeRead, Lives, TypeInv, HistTyped
<1>4. openinig_password # None
  <2>1. None \notin {Default, Blank, Zeros}
    BY DEF None, Default, Blank, Zeros
  <2>. QED
    BY <2>1, NoneAssumption DEF TypeInv, SysTyped, Entered
<1>5. IsCode => /\ files.tpc = Code(openinig_password) /\ openinig_password \in Codes
                /\ live = openinig_password
  <2>1. SUFFICES ASSUME IsCode
        PROVE  files.tpc = Code(openinig_password) /\ openinig_password \in Codes
    BY <1>3
  <2>2. files.tpc = Code(openinig_password)
    BY <1>3, <2>1 DEF IsCode
  <2>. QED
    BY <2>2, Texts DEF OwnContents, Shared
<1>6. taken' = IsCode
  BY <1>1, <1>5 DEF IsCode
<1>7. SysKnown'
  BY <1>1 DEF SysKnown, SysRead, Entry
<1>8. CodeKnown'
  BY <1>1 DEF CodeKnown, CodeRead
<1>9. Lives'
  BY <1>1, <1>3, <1>5, <1>6 DEF Lives
<1>10. Taking'
  <2>1. CASE IsCode
    BY <1>1, <1>2, <1>4, <1>6, <2>1 DEF Taking
  <2>2. CASE ~IsCode
    <3>1. live' = live
      BY <1>1, <1>6, <2>2
    <3>2. openinig_password # live
      <4>1. SUFFICES ASSUME openinig_password = live PROVE IsCode
        BY <2>2
      <4>. QED
        BY <1>3, <1>4, <4>1 DEF IsCode
    <3>. QED
      BY <1>1, <1>2, <1>6, <2>2, <3>1, <3>2 DEF Taking
  <2>. QED
    BY <2>1, <2>2
<1>. QED
  BY <1>7, <1>8, <1>9, <1>10 DEF Entry

\* The calls of the keypad thread that read.
LEMMA ReadEntry ==
  ASSUME TypeInv, Shared, Entry, OneUser, CommandsBetween,
         OldIo \/ SysIo \/ TpcIo \/ NewIo \/ SpendIo
  PROVE  Entry'
<1>1. PICK s \in {"old", "sys", "tpc", "new", "spend"} : Io("code", s)
  BY DEF OldIo, SysIo, TpcIo, NewIo, SpendIo
<1>2. /\ at["code"] = s /\ at' = at /\ step["code"] = "io" /\ step'["code"] = "close"
      /\ UNCHANGED <<files, openinig_password, live, taken, chosen>>
  BY <1>1 DEF Io, TypeInv, PlacesTyped, Threads, histVars
<1>3. Got = files[FileOf(s)]
  BY <1>1, GotOwn DEF Shared, Threads
<1>4. Lives'
  BY <1>2 DEF Lives, Entry
<1>5. SysKnown'
  <2>1. CASE OldIo
    <3>1. s = "old" /\ sys_password' = Buffer(sys_password)
      BY <1>2, <2>1 DEF OldIo, Io
    <3>. QED
      BY <1>2, <1>3, <3>1, WhichFile DEF SysKnown, SysRead, Buffer
  <2>2. CASE SysIo
    <3>1. s = "sys" /\ sys_password' = Buffer(rData1)
      BY <1>2, <2>2 DEF SysIo, Io
    <3>. QED
      BY <1>2, <1>3, <3>1, WhichFile DEF SysKnown, SysRead, Buffer
  <2>3. CASE TpcIo \/ NewIo \/ SpendIo
    <3>1. s \notin {"old", "sys"} /\ sys_password' = sys_password
      BY <1>2, <2>3 DEF TpcIo, NewIo, SpendIo, Io
    <3>. QED
      BY <1>2, <3>1 DEF SysKnown, SysRead, Entry
  <2>. QED
    BY <2>1, <2>2, <2>3
<1>6. CodeKnown'
  <2>1. CASE TpcIo
    <3>1. /\ s = "tpc" /\ TPC_code' = "wData3"
          /\ wData3' = IF Got = Nothing THEN wData3 ELSE Got.text
          /\ tpc_code_t' = IF Got = Nothing THEN "" ELSE Got.tail
      BY <1>2, <2>1 DEF TpcIo, Io
    <3>2. Got = files.tpc /\ TheCode' = wData3'
      BY <1>3, <3>1, WhichFile DEF TheCode
    <3>3. files.tpc \in {Nothing, Torn, Spent} \cup {Code(c) : c \in Codes}
      BY DEF Shared, OwnContents
    <3>4. ASSUME tpc_code_t' = "1" PROVE files.tpc = Code(TheCode')
      <4>1. Got # Nothing /\ files.tpc.tail = "1" /\ TheCode' = files.tpc.text
        BY <3>1, <3>2, <3>4
      <4>. QED
        BY <3>3, <4>1, Texts
    <3>5. ASSUME NEW c \in Codes, files.tpc = Code(c)
          PROVE  TheCode' = c /\ tpc_code_t' = "1"
      BY <3>1, <3>2, <3>5, Texts
    <3>. QED
      BY <1>2, <3>4, <3>5 DEF CodeKnown
  <2>2. CASE ~TpcIo
    <3>1. s # "tpc"
      BY <1>2, <2>2 DEF OldIo, SysIo, NewIo, SpendIo, Io
    <3>. QED
      BY <1>2, <3>1 DEF CodeKnown, CodeRead
  <2>. QED
    BY <2>1, <2>2
<1>7. Taking'
  <2>1. CASE s = "spend"
    <3>1. UNCHANGED codeVars
      BY <1>2, <2>1 DEF SpendIo, NewIo, OldIo, SysIo, TpcIo, Io
    <3>. QED
      BY <1>2, <3>1 DEF Taking, Entry, IsCode, TheCode, codeVars
  <2>2. CASE s # "spend"
    BY <1>2, <2>2 DEF Taking, Entry
  <2>. QED
    BY <2>1, <2>2
<1>. QED
  BY <1>4, <1>5, <1>6, <1>7 DEF Entry
\* The keypad thread closes a file, and with it writes a password or spends a code.
LEMMA CloseEntry ==
  ASSUME TypeInv, Shared, Entry, OneUser, CommandsBetween, Close("code")
  PROVE  Entry'
<1>1. /\ at["code"] \in {"old", "new", "sys", "tpc", "spend"} /\ step["code"] = "close"
      /\ at'["code"] = After[at["code"]] /\ step'["code"] = "open"
      /\ UNCHANGED <<sys_password, openinig_password, codeVars, live, taken, chosen>>
  <2>1. at["code"] \in Sections \cap CodeSpots /\ step["code"] = "close"
    BY DEF Close, TypeInv, PlacesTyped, Threads
  <2>2. at'["code"] = After[at["code"]] /\ step'["code"] = "open"
    BY DEF Close, Goto, TypeInv, PlacesTyped, Threads
  <2>. QED
    BY <2>1, <2>2, SectionNames DEF Close, CodeSpots, sysVars, histVars
<1>2. /\ After["old"] = "same" /\ After["new"] = "keys" /\ After["sys"] = "tpc"
      /\ After["tpc"] = "match" /\ After["spend"] = "decide"
  BY DEF After
<1>3. /\ at["code"] = "new" => files' = [files EXCEPT !["sys"] = sys_password]
      /\ at["code"] = "spend" => files' = [files EXCEPT !["tpc"] = Spent]
      /\ at["code"] \notin {"new", "spend"} => files' = files
  BY <1>1, Closing, WhichFile DEF Shared, Threads, Writing
<1>4. files \in [Names -> Contents]
  BY DEF TypeInv, FilesTyped
<1>5. CASE at["code"] = "spend"
  <2>1. /\ files'.tpc = Spent /\ files'.sys = files.sys /\ at'["code"] = "decide"
        /\ taken /\ live = None
    BY <1>1, <1>2, <1>3, <1>4, <1>5 DEF Names, Entry, Taking
  <2>2. SysKnown' /\ CodeKnown'
    BY <1>1, <1>5, <2>1 DEF SysKnown, SysRead, CodeKnown, CodeRead, Entry
  <2>3. Lives'
    BY <1>1, <2>1, Texts DEF Lives
  <2>4. IsCode' = IsCode
    BY <1>1 DEF IsCode, TheCode, codeVars
  <2>5. Taking'
    BY <1>1, <1>5, <2>1, <2>4 DEF Taking, Entry
  <2>. QED
    BY <2>2, <2>3, <2>5 DEF Entry
<1>6. CASE at["code"] # "spend"
  <2>1. files'.tpc = files.tpc /\ (at["code"] # "new" => files' = files)
    BY <1>1, <1>3, <1>4, <1>6 DEF Names
  <2>2. at'["code"] \notin {"spend", "decide", "new"} /\ taken = FALSE
    BY <1>1, <1>2, <1>6 DEF Entry, Taking, TypeInv, HistTyped
  <2>3. Lives' /\ Taking'
    BY <1>1, <1>6, <2>1, <2>2 DEF Lives, Taking, Entry
  <2>4. CodeKnown'
    <3>1. CASE at["code"] = "tpc"
      <4>1. TheCode' = TheCode /\ CodeRead /\ files' = files
        BY <1>1, <2>1, <3>1 DEF TheCode, codeVars, CodeRead
      <4>. QED
        BY <1>1, <4>1 DEF CodeKnown, Entry, codeVars
    <3>2. CASE at["code"] # "tpc"
      BY <1>1, <1>2, <3>2 DEF CodeKnown, CodeRead
    <3>. QED
      BY <3>1, <3>2
  <2>5. SysKnown'
    <3>1. CASE at["code"] \in {"old", "sys", "tpc"}
      BY <1>1, <2>1, <2>2, <3>1 DEF SysKnown, SysRead, Entry
    <3>2. CASE at["code"] \notin {"old", "sys", "tpc"}
      BY <1>1, <1>2, <1>6, <2>2, <3>2 DEF SysKnown, SysRead
    <3>. QED
      BY <3>1, <3>2
  <2>. QED
    BY <2>3, <2>4, <2>5 DEF Entry
<1>. QED
  BY <1>5, <1>6

\* The command setTemporaryCode: the code waits, and the flash holds it.
LEMMA CodeEntry ==
  ASSUME TypeInv, Shared, Entry, OneUser, CommandsBetween, NEW c \in Codes, SetTemporaryCode(c)
  PROVE  Entry'
<1>1. at["code"] = "keys" /\ at["fr"] = "keys" /\ at' = at
  BY MayServer DEF SetTemporaryCode, Threads
<1>2. mounted
  BY <1>1 DEF Shared, Mounted
<1>3. files'.tpc = Code(c)
  <2>1. files' = [files EXCEPT !["tpc"] = Code(c)]
    BY <1>2 DEF SetTemporaryCode, Stores, f_open, f_write, f_close
  <2>. QED
    BY <2>1 DEF TypeInv, FilesTyped, Names
<1>4. live' = c /\ taken' = FALSE
  BY <1>1 DEF SetTemporaryCode, Entry, Taking, TypeInv, HistTyped
<1>5. Lives'
  BY <1>3, <1>4, Texts DEF Lives
<1>6. Waiting'
  BY <1>1, <1>4, <1>5 DEF Waiting
<1>. QED
  BY <1>6, Idle, PTL

\* The power fails: only the entry that is spending the code can tear its file, and
\* what the flash still holds then waits, for this entry or a later one.
LEMMA CycleEntry ==
  ASSUME TypeInv, Shared, Entry, OneUser, CommandsBetween,
         PowerCycle \/ \E file \in {"sys", "tpc"} : PowerCycleInCommand(file)
  PROVE  Entry'
<1>1. at' = [code |-> "keys", fr |-> "mount"] /\ taken' = FALSE
  BY DEF PowerCycle, PowerCycleInCommand, Restart
<1>2. at'["code"] = "keys"
  BY <1>1, Pair
<1>3. /\ files \in [Names -> Contents]
      /\ live # None => files.tpc = Code(live)
      /\ \A c \in Codes : files.tpc = Code(c) => live = c \/ (taken /\ openinig_password = c)
  BY DEF TypeInv, FilesTyped, Entry, Lives
<1>4. ASSUME files'.tpc = files.tpc, live' = LiveAfter
      PROVE  Lives'
  BY <1>3, <1>4, Texts DEF Lives, LiveAfter, CutShort
<1>5. ASSUME files'.tpc = Torn, live' = None PROVE Lives'
  BY <1>5, Texts DEF Lives
<1>6. ASSUME PowerCycle PROVE Lives'
  <2>1. live' = LiveAfter
    BY <1>6 DEF PowerCycle
  <2>2. CASE InClose /\ files' = [files EXCEPT ![fp.file] = Torn]
    <3>1. PICK t \in Threads : step[t] = "close" /\ fp.dirty
      BY <2>2 DEF InClose
    <3>2. at[t] \in Sections /\ fp = Held(t)
      BY <3>1 DEF TypeInv, PlacesTyped, Shared, Holding, InHandle
    <3>3. at[t] \in {"new", "anew", "spend"} /\ fp.file = FileOf(at[t])
      BY <3>1, <3>2 DEF Held
    <3>4. CASE at[t] = "spend"
      <4>1. at["code"] = "spend"
        BY <3>4 DEF TypeInv, PlacesTyped, FrSpots, Threads
      <4>2. files'.tpc = Torn
        BY <1>3, <2>2, <3>3, <3>4, WhichFile DEF Names
      <4>3. live = None /\ ~CutShort
        BY <4>1, <4>2, Texts DEF Entry, Taking, CutShort
      <4>. QED
        BY <1>5, <2>1, <4>2, <4>3 DEF LiveAfter
    <3>5. CASE at[t] # "spend"
      <4>1. files'.tpc = files.tpc
        BY <1>3, <2>2, <3>3, <3>5, WhichFile DEF Names
      <4>. QED
        BY <1>4, <2>1, <4>1
    <3>. QED
      BY <3>4, <3>5
  <2>3. CASE UNCHANGED files
    BY <1>4, <2>1, <2>3
  <2>. QED
    BY <1>6, <2>2, <2>3 DEF PowerCycle
<1>7. ASSUME NEW file \in {"sys", "tpc"}, PowerCycleInCommand(file) PROVE Lives'
  <2>1. files' = [files EXCEPT ![file] = Torn]
    BY <1>7 DEF PowerCycleInCommand
  <2>2. CASE file = "tpc"
    <3>1. live' = None
      BY <1>7, <2>2 DEF PowerCycleInCommand
    <3>2. files'.tpc = Torn
      BY <1>3, <2>1, <2>2 DEF Names
    <3>. QED
      BY <1>5, <3>1, <3>2
  <2>3. CASE file = "sys"
    <3>1. files'.tpc = files.tpc
      BY <1>3, <2>1, <2>3 DEF Names
    <3>2. live' = LiveAfter
      BY <1>7, <2>3 DEF PowerCycleInCommand
    <3>. QED
      BY <1>4, <3>1, <3>2
  <2>. QED
    BY <2>2, <2>3
<1>8. Lives'
  BY <1>6, <1>7
<1>9. Waiting'
  BY <1>1, <1>2, <1>8 DEF Waiting
<1>. QED
  BY <1>9, Idle, PTL

\* The keypad thread goes on where nothing is read or taken yet, or not any more.
LEMMA EarlyEntry ==
  ASSUME TypeInv, Entry, NEW p \in {"keys", "old", "new", "gate", "sys"}, Goto("code", p),
         at["code"] \notin Sections, UNCHANGED <<files, step, live>>,
         at["code"] = "decide" \/ UNCHANGED taken, taken' \in {taken, FALSE},
         at["code"] = "decide" => taken' = FALSE,
         p = "new" => sys_password' = Str(chosen')
  PROVE  Entry'
<1>1. at'["code"] = p /\ step'["code"] = "open" /\ at["code"] # "spend"
  BY Outside, SectionNames DEF Goto, TypeInv, PlacesTyped, Threads
<1>2. taken' = FALSE
  BY <1>1 DEF Entry, Taking, TypeInv, HistTyped
<1>3. SysKnown' /\ CodeKnown' /\ Taking'
  BY <1>1, <1>2 DEF SysKnown, SysRead, CodeKnown, CodeRead, Taking
<1>4. Lives'
  BY <1>1 DEF Lives, Entry
<1>. QED
  BY <1>3, <1>4 DEF Entry

\* The fingerprint thread does something only while no keypad entry goes on.
LEMMA FingerprintRests ==
  ASSUME TypeInv, Shared, OneUser, CommandsBetween, FingerprintSteps
  PROVE  /\ at["code"] = "keys" /\ at'["code"] = "keys"
         /\ UNCHANGED histVars /\ files' = files
<1>1. at["fr"] # "keys" \/ MayType("fr")
  BY DEF FingerprintSteps, Mount, BootSysIo, BootAuthIo, BootTpcIo, EnterAuth,
     EnterAuthChange, EnterNewAuth, Grant, Deny, AuthDiffers, AuthIo, NewAuthIo, Io
<1>2. at["code"] = "keys"
  BY <1>1, MayAlone DEF Shared, Alone, Threads
<1>3. at' = at \/ \E p : Goto("fr", p)
  BY DEF FingerprintSteps, Mount, BootSysIo, BootAuthIo, BootTpcIo, EnterAuth,
     EnterAuthChange, EnterNewAuth, Grant, Deny, AuthDiffers, AuthIo, NewAuthIo, Io, AuthEnd
<1>4. at'["code"] = at["code"]
  BY <1>3 DEF Goto, TypeInv, PlacesTyped, Threads
<1>5. UNCHANGED histVars /\ files' = files
  BY DEF FingerprintSteps, Mount, BootSysIo, BootAuthIo, BootTpcIo, EnterAuth,
     EnterAuthChange, EnterNewAuth, Grant, Deny, AuthDiffers, AuthIo, NewAuthIo, Io, AuthEnd,
     fileVars
<1>. QED
  BY <1>2, <1>4, <1>5

LEMMA EntryStep ==
  ASSUME OneUser, CommandsBetween
  PROVE  TypeInv /\ Shared /\ Entry /\ [Next]_vars => Entry'
<1> SUFFICES ASSUME TypeInv, Shared, Entry, [Next]_vars PROVE Entry'
  OBVIOUS
<1>0. \A x \in {"keys", "same", "gate", "match", "decide"} : x \notin Sections
  BY SectionNames
<1>1. ASSUME NEW s \in Entered, EnterChange(s) \/ EnterUnlock(s) PROVE Entry'
  BY <1>0, <1>1, EarlyEntry DEF EnterChange, EnterUnlock, fileVars, histVars
<1>2. ASSUME NEW s \in Passwords \cup {Blank}, EnterNew(s) PROVE Entry'
  BY <1>0, <1>2, EarlyEntry DEF EnterNew, fileVars
<1>3. CASE Differs
  BY <1>0, <1>3, EarlyEntry DEF Differs, fileVars, histVars
<1>4. CASE Gate
  BY <1>0, <1>4, EarlyEntry DEF Gate, fileVars, histVars
<1>5. CASE Match
  BY <1>5, MatchEntry
<1>6. CASE Unlock \/ Refuse
  <2>1. Exit /\ at["code"] = "decide"
    BY <1>6 DEF Unlock, Refuse
  <2>. QED
    BY <1>0, <2>1, EarlyEntry DEF Exit, fileVars
<1>7. CASE OldIo \/ NewIo \/ SysIo \/ TpcIo \/ SpendIo
  BY <1>7, ReadEntry
<1>8. CASE FingerprintSteps
  BY <1>8, FingerprintRests, Resting
<1>9. ASSUME NEW c \in Codes, SetTemporaryCode(c) PROVE Entry'
  BY <1>9, CodeEntry
<1>10. ASSUME NEW p \in Passwords, ModifyPassword(p) PROVE Entry'
  <2>1. at["code"] = "keys" /\ at' = at /\ UNCHANGED histVars
    BY <1>10, MayServer DEF ModifyPassword, Threads
  <2>2. files'.tpc = files.tpc
    BY <1>10 DEF ModifyPassword, Stores, f_open, f_write, f_close, Closed, TypeInv,
       FilesTyped, Names
  <2>. QED
    BY <2>1, <2>2, Resting
<1>11. CASE Open("code")
  <2>1. /\ at' = at /\ step'["code"] = "io" /\ step["code"] = "open"
        /\ UNCHANGED <<files, sysVars, codeVars, histVars>>
    BY <1>11 DEF Open, TypeInv, PlacesTyped, Threads
  <2>2. SysKnown' /\ CodeKnown'
    BY <2>1 DEF SysKnown, SysRead, CodeKnown, CodeRead, TheCode, Entry, sysVars, codeVars,
       histVars
  <2>3. Lives' /\ Taking'
    BY <2>1 DEF Lives, Taking, IsCode, TheCode, Entry, sysVars, codeVars, histVars
  <2>. QED
    BY <2>2, <2>3 DEF Entry
<1>12. CASE Close("code")
  BY <1>12, CloseEntry
<1>13. CASE Open("fr") \/ Close("fr")
  <2>1. at["fr"] \in Sections
    BY <1>13 DEF Open, Close, TypeInv, PlacesTyped, Threads
  <2>2. at["code"] = "keys"
    BY <1>0, <2>1 DEF Shared, Alone
  <2>3. at'["code"] = at["code"] /\ UNCHANGED histVars
    BY <1>13 DEF Open, Close, Goto, TypeInv, PlacesTyped, Threads
  <2>4. files'.tpc = files.tpc
    <3>1. CASE Close("fr")
      <4>1. at["fr"] \notin {"new", "spend"}
        BY DEF TypeInv, PlacesTyped, FrSpots
      <4>. QED
        BY <3>1, <4>1, Closing, WhichFile DEF Shared, Threads, TypeInv, FilesTyped, Names
    <3>. QED
      BY <1>13, <3>1 DEF Open
  <2>. QED
    BY <2>2, <2>3, <2>4, Resting
<1>14. CASE PowerCycle \/ \E file \in {"sys", "tpc"} : PowerCycleInCommand(file)
  BY <1>14, CycleEntry
<1>15. CASE UNCHANGED vars
  BY <1>15 DEF vars, fileVars, sysVars, codeVars, histVars, Entry, SysKnown, SysRead,
     CodeKnown, CodeRead, TheCode, Lives, Taking, IsCode
<1>. QED
  BY <1>1, <1>2, <1>3, <1>4, <1>5, <1>6, <1>7, <1>8, <1>9, <1>10, <1>11, <1>12, <1>13,
     <1>14, <1>15
  DEF Next, KeypadSteps, ServerSteps, Threads

LEMMA EntryAlways ==
  ASSUME OneUser, CommandsBetween
  PROVE  Spec => [](TypeInv /\ Shared /\ Entry)
<1>1. Init => Entry
  BY EntryInit
<1>2. TypeInv /\ Shared /\ Entry /\ [Next]_vars => Entry'
  BY EntryStep
<1>. QED
  BY <1>1, <1>2, SharedAlways, PTL DEF Spec

\* A code is used once (Handle_code.c:140): an entry that no password lets in took a code that was
\* waiting, and taking it ends its waiting (Match), whatever power failures come.
THEOREM CredentialOnce ==
  ASSUME OneUser, CommandsBetween
  PROVE  Spec => UsedOnce
<1>1. Entry => [Unlock => IsSys \/ taken]_vars
  BY DEF Entry, Taking, Unlock
<1>. QED
  BY <1>1, EntryAlways, PTL DEF UsedOnce

\* A code that nobody used stays in the flash, over power failures at any call too
\* (readme.txt:14): only the entry that spends it, or the command that replaces it,
\* writes its file, and a failure tears no file but the one that is being written.
THEOREM CredentialKept ==
  ASSUME OneUser, CommandsBetween
  PROVE  Spec => []UnusedCodeKept
<1>1. Entry => UnusedCodeKept
  BY DEF Entry, Lives, UnusedCodeKept
<1>. QED
  BY <1>1, EntryAlways, PTL

\* Once the lock has a file of its system password it always has one, if torn.
LEMMA PasswordFiled ==
  ASSUME OneUser, Nothing \notin Stored
  PROVE  Spec => [](TypeInv /\ Shared /\ files.sys # Nothing)
<1>1. Init => files.sys # Nothing
  BY DEF Init
<1>2. Nothing \notin SysContents
  BY DEF SysContents, Nothing, Torn, Str
<1>3. ASSUME TypeInv, Shared, files.sys # Nothing, [Next]_vars PROVE files'.sys # Nothing
  <2>1. files \in [Names -> Contents] /\ sys_password # Nothing
    BY <1>2, <1>3 DEF TypeInv, FilesTyped, Shared, RamKinds
  <2>2. ASSUME NEW t \in Threads, Close(t) PROVE files'.sys # Nothing
    <3>1. t = "fr" => at[t] \notin {"new", "spend"}
      BY <1>3 DEF TypeInv, PlacesTyped, FrSpots
    <3>. QED
      BY <1>3, <2>1, <2>2, <3>1, Closing, WhichFile DEF Shared, Writing, Names
  <2>3. ASSUME NEW c \in Codes, SetTemporaryCode(c) PROVE files'.sys # Nothing
    BY <1>3, <2>1, <2>3 DEF SetTemporaryCode, Stores, f_open, f_write, f_close, Closed, Names
  <2>4. ASSUME NEW p \in Passwords, ModifyPassword(p) PROVE files'.sys # Nothing
    <3>1. Str(p) # Nothing
      BY DEF Str, Nothing
    <3>2. files' = files \/ files' = [files EXCEPT !["sys"] = Str(p)]
      BY <2>4 DEF ModifyPassword, Stores, f_open, f_write, f_close, Closed
    <3>. QED
      BY <1>3, <2>1, <3>1, <3>2 DEF Names
  <2>5. CASE PowerCycle \/ \E file \in {"sys", "tpc"} : PowerCycleInCommand(file)
    <3>1. files' = files \/ \E f : files' = [files EXCEPT ![f] = Torn]
      BY <2>5 DEF PowerCycle, PowerCycleInCommand
    <3>2. Torn # Nothing
      BY DEF Torn, Nothing
    <3>. QED
      BY <1>3, <2>1, <3>1, <3>2 DEF Names
  <2>6. CASE KeypadSteps \/ FingerprintSteps \/ (\E t \in Threads : Open(t)) \/ UNCHANGED vars
    <3>1. files' = files
      BY <2>6 DEF KeypadSteps, EnterChange, EnterUnlock, EnterNew, Differs, Gate, Match,
         Unlock, Refuse, Exit, OldIo, NewIo, SysIo, TpcIo, SpendIo, FingerprintSteps, Mount,
         BootSysIo, BootAuthIo, BootTpcIo, EnterAuth, EnterAuthChange, EnterNewAuth, Grant,
         Deny, AuthDiffers, AuthEnd, AuthIo, NewAuthIo, Io, Open, fileVars, vars
    <3>. QED
      BY <1>3, <3>1
  <2>. QED
    BY <1>3, <2>2, <2>3, <2>4, <2>5, <2>6 DEF Next, ServerSteps
<1>4. TypeInv /\ Shared /\ files.sys # Nothing /\ [Next]_vars => (files.sys # Nothing)'
  BY <1>3
<1>. QED
  BY <1>1, <1>4, SharedAlways, PTL DEF Spec

\* Nobody is let in by anything that is neither the stored system password nor a
\* code that was waiting, if the lock ever got a password (Handle_code.c:139).
THEOREM CredentialOnly ==
  ASSUME OneUser, CommandsBetween, Nothing \notin Stored
  PROVE  Spec => OnlyCredentials
<1>1. ASSUME Entry, files.sys # Nothing, Unlock
      PROVE  files.sys = Str(openinig_password) \/ taken
  BY <1>1 DEF Entry, SysKnown, SysRead, Taking, Unlock, IsSys
<1>2. Entry /\ files.sys # Nothing =>
         [Unlock => files.sys = Str(openinig_password) \/ taken]_vars
  BY <1>1
<1>. QED
  BY <1>2, EntryAlways, PasswordFiled, PTL DEF OnlyCredentials

\* Nor is anybody asked for a new password who did not type the stored one
\* (Handle_code.c:169).
THEOREM CredentialOwner ==
  ASSUME OneUser, CommandsBetween, Nothing \notin Stored
  PROVE  Spec => OwnerChanges
<1>1. ASSUME Entry, files.sys # Nothing, NEW s \in Passwords \cup {Blank}, EnterNew(s)
      PROVE  files.sys = Str(openinig_password)
  BY <1>1 DEF Entry, SysKnown, SysRead, EnterNew
<1>2. Entry /\ files.sys # Nothing =>
         [(\E s \in Passwords \cup {Blank} : EnterNew(s)) => files.sys = Str(openinig_password)]_vars
  BY <1>1
<1>. QED
  BY <1>2, EntryAlways, PasswordFiled, PTL DEF OwnerChanges

\* And whoever enters one of them and gets past the test of the flags
\* (Handle_code.c:209) is not refused, also on a lock without a password.
THEOREM CredentialAccepts ==
  ASSUME OneUser, CommandsBetween
  PROVE  Spec => RightAccepted
<1>1. ASSUME Entry, Refuse
      PROVE  files.sys # Str(openinig_password) /\ openinig_password # live /\ ~taken
  <2>1. Str(openinig_password) # Nothing
    BY DEF Str, Nothing
  <2>. QED
    BY <1>1, <2>1 DEF Entry, SysKnown, SysRead, Taking, Refuse, IsSys
<1>2. Entry => [Refuse => /\ files.sys # Str(openinig_password)
                         /\ openinig_password # live /\ ~taken]_vars
  BY <1>1
<1>. QED
  BY <1>2, EntryAlways, PTL DEF RightAccepted
=============================================================================
