---------------------------- MODULE Fingerprint -----------------------------
(***************************************************************************)
(* The dialogues of the fingerprint thread (Handle_AS608.c, open.c) over   *)
(* the link of module Sensor: the hand-shake at start, unlocking           *)
(* (press_FR), looking whether a finger is known (verify_FR), enrolling    *)
(* (Add_FR) and deleting (Del_FR).  Who may enrol and delete is decided    *)
(* before, in module Credentials.  How often a loop repeats before it      *)
(* gives up is left open.                                                  *)
(***************************************************************************)
EXTENDS Sensor

CONSTANTS Fingers, NoFinger,
          PS_max        \* places in the library of the module

ASSUME PlacesAssumption == PS_max \in Nat \ {0} /\ NoFinger \notin Fingers

VARIABLES
    step,       \* the command the thread is at, or "idle"
    id,         \* the place it stores to or deletes
    open,       \* the relay is on
    image, char1, char2,    \* the module: ImageBuffer, CharBuffer1, CharBuffer2
    library     \* the module: its templates

dialogue == <<step, id, open>>
module   == <<image, char1, char2, library>>
vars     == <<linkVars, cmdVars, dialogue, module>>

Places   == 0..PS_max-1
Beyond   == PS_max      \* 0xFFFF and every number that is no place
Some     == Fingers \cup {NoFinger}
Enrolled == {library[k] : k \in Places} \ {NoFinger}

\* What each step asks the module for.
Asks == [hand |-> "hand", count0 |-> "count", para |-> "para",
         p_image |-> "image", p_gen |-> "gen1", p_search |-> "search",
         v_image |-> "image", v_gen |-> "gen1", v_search |-> "search",
         a_image1 |-> "image", a_gen1 |-> "gen1", a_image2 |-> "image",
         a_gen2 |-> "gen2", a_match |-> "match", a_reg |-> "reg",
         a_store |-> "store", a_count |-> "count",
         d_delete |-> "delete", d_empty |-> "empty", d_count |-> "count"]
Steps    == DOMAIN Asks
Commands == {Asks[s] : s \in Steps}

Init == /\ SensorInit
        /\ step = "hand" /\ id = 0 /\ open = FALSE
        /\ image = NoFinger /\ char1 = NoFinger /\ char2 = NoFinger
        /\ library \in [Places -> Some]

-----------------------------------------------------------------------------
\* The module carries out a command and says whether it succeeded.

Doing(c) == booted /\ order # <<>> /\ Head(order).cmd = c

TakeImage == /\ Doing("image")
             /\ \E f \in Some : /\ Reply(f # NoFinger)
                                /\ image' = IF f = NoFinger THEN image ELSE f
             /\ UNCHANGED <<char1, char2, library>>

\* A bad image gives no features.
GenChar == \/ /\ Doing("gen1") /\ Reply(TRUE) /\ char1' = image
              /\ UNCHANGED <<image, char2, library>>
           \/ /\ Doing("gen2") /\ Reply(TRUE) /\ char2' = image
              /\ UNCHANGED <<image, char1, library>>
           \/ /\ Doing("gen1") \/ Doing("gen2")
              /\ Reply(FALSE) /\ UNCHANGED module

Compare == \/ Doing("search") /\ Reply(char1 \in Enrolled) /\ UNCHANGED module
           \/ Doing("match") /\ Reply(char1 = char2) /\ UNCHANGED module
           \/ Doing("reg") /\ Reply(char1 = char2) /\ UNCHANGED module

ChangeLibrary ==
    /\ \/ Doing("store") /\ Reply(TRUE) /\ library' = [library EXCEPT ![id] = char2]
       \/ Doing("delete") /\ Reply(id \in Places)
             /\ library' = [k \in Places |-> IF k = id THEN NoFinger ELSE library[k]]
       \/ Doing("empty") /\ Reply(TRUE) /\ library' = [k \in Places |-> NoFinger]
    /\ UNCHANGED <<image, char1, char2>>

Tell == (Doing("count") \/ Doing("para")) /\ Reply(TRUE) /\ UNCHANGED module

Greet == Doing("hand") /\ Reply(TRUE) /\ UNCHANGED module

Module == /\ TakeImage \/ GenChar \/ Compare \/ ChangeLibrary \/ Tell \/ Greet
          /\ UNCHANGED dialogue

-----------------------------------------------------------------------------
\* The thread

\* What follows a command that was confirmed, and one that was not.
Confirmed ==
    [count0 |-> {"para"}, para |-> {"idle"},
     p_image |-> {"p_gen"}, p_gen |-> {"p_search"}, p_search |-> {"idle"},
     v_image |-> {"v_gen"}, v_gen |-> {"v_search"}, v_search |-> {"v_image", "idle"},
     a_image1 |-> {"a_gen1"}, a_gen1 |-> {"a_image2", "idle"},
     a_image2 |-> {"a_gen2"}, a_gen2 |-> {"a_match", "idle"},
     a_match |-> {"a_reg", "idle"}, a_reg |-> {"a_store", "idle"},
     a_store |-> {"a_count"}, a_count |-> {"idle"},
     d_delete |-> {"d_count"}, d_empty |-> {"d_count"}, d_count |-> {"idle"}]

\* Mutant: case 2 of Add_FR goes on to case 3 whatever PS_Match said, and case
\* 3 to case 4.
RefusedFallsThrough ==
    [count0 |-> {"para"}, para |-> {"idle"},
     p_image |-> {"idle"}, p_gen |-> {"idle"}, p_search |-> {"idle"},
     v_image |-> {"v_image", "idle"}, v_gen |-> {"idle"}, v_search |-> {"a_image1"},
     a_image1 |-> {"a_image1", "idle"}, a_gen1 |-> {"a_image1", "idle"},
     a_image2 |-> {"a_image2", "idle"}, a_gen2 |-> {"a_image2", "idle"},
     a_match |-> {"a_reg", "idle"}, a_reg |-> {"a_store", "idle"},
     a_store |-> {"a_image1", "idle"}, a_count |-> {"idle"},
     d_delete |-> {"d_count"}, d_empty |-> {"d_count"}, d_count |-> {"idle"}]

Refused ==
    [count0 |-> {"para"}, para |-> {"idle"},
     p_image |-> {"idle"}, p_gen |-> {"idle"}, p_search |-> {"idle"},
     v_image |-> {"v_image", "idle"}, v_gen |-> {"idle"}, v_search |-> {"a_image1"},
     a_image1 |-> {"a_image1", "idle"}, a_gen1 |-> {"a_image1", "idle"},
     a_image2 |-> {"a_image2", "idle"}, a_gen2 |-> {"a_image2", "idle"},
     a_match |-> {"a_image1", "idle"}, a_reg |-> {"a_image1", "idle"},
     a_store |-> {"a_image1", "idle"}, a_count |-> {"idle"},
     d_delete |-> {"d_count"}, d_empty |-> {"d_count"}, d_count |-> {"idle"}]

\* FRopen_entry: a finger, key 11 or key 12.
Begin == /\ step = "idle" /\ ~open
         /\ step' \in {"p_image", "v_image", "d_delete", "d_empty"}
         /\ id' \in IF step' = "d_delete" THEN Places \cup {Beyond} ELSE {0}
         /\ UNCHANGED <<linkVars, cmdVars, open, module>>

Ask == /\ step # "idle"
       /\ Send(Asks[step])
       /\ judge' = IF step = "hand" THEN "shake" ELSE "clear"
       /\ UNCHANGED <<dialogue, module>>

Judge == (Clear \/ TestFrame \/ Search \/ Read \/ GiveUp) /\ UNCHANGED <<dialogue, module>>

\* Handle_AS608 repeats the hand-shake until it is answered.
Greets == /\ HandShake
          /\ step' = IF Greeted THEN "count0" ELSE "hand"
          /\ UNCHANGED <<id, open, module>>

\* Mutant: press_FR does not look at the confirmation of the search.
GoOnUnlocking == /\ judge = "done" /\ judge' = "send"
                 /\ step' \in IF answer.ok THEN Confirmed[step] ELSE Refused[step]
                 /\ open' = (step = "p_search")
                 /\ id' \in IF step' = "a_store" THEN Places ELSE {id}
                 /\ answer' = Timeout
                 /\ UNCHANGED <<linkVars, module>>

GoOn == /\ judge = "done" /\ judge' = "send"
        /\ step' \in IF answer.ok THEN Confirmed[step] ELSE Refused[step]
        /\ open' = (step = "p_search" /\ answer.ok)
        /\ id' \in IF step' = "a_store" THEN Places ELSE {id}
        /\ answer' = Timeout
        /\ UNCHANGED <<linkVars, module>>

\* The second of press_FR is over.
Shut == open /\ open' = FALSE /\ UNCHANGED <<linkVars, cmdVars, step, id, module>>

Thread == ~isr /\ (Begin \/ Ask \/ Judge \/ Greets \/ GoOn \/ Shut)

Interrupts == (ReceiveTest \/ ReceiveStore \/ Tim7Isr) /\ UNCHANGED <<dialogue, module>>

Next == \/ Thread \/ Interrupts \/ Module
        \/ (PowerOnByte \/ Lose) /\ UNCHANGED <<dialogue, module>>

\* The interrupts are served and the thread goes on; the module starts, and
\* answers a hand-shake when it is asked again and again.
Spec == /\ Init /\ [][Next]_vars
        /\ WF_vars(Thread) /\ WF_vars(Interrupts)
        /\ WF_vars(PowerOnByte /\ UNCHANGED <<dialogue, module>>)
        /\ SF_vars(Greet /\ UNCHANGED dialogue)
        /\ WF_vars(Module \/ (Lose /\ UNCHANGED <<dialogue, module>>))

-----------------------------------------------------------------------------
TypeOK == /\ SensorTypeOK(Commands)
          /\ step \in Steps \cup {"idle"} /\ id \in Places \cup {Beyond}
          /\ open \in BOOLEAN
          /\ {image, char1, char2} \subseteq Some
          /\ library \in [Places -> Some]

\* The relay opens only for a finger that is enrolled and was on the sensor in
\* this press (press_FR, Handle_AS608.c:211-225).
OpensForEnrolled == open => image \in Enrolled /\ char1 = image

\* A finger is stored only if it was imaged twice and both images matched: the
\* five steps of Add_FR, each with its own way back (Handle_AS608.c:100-190).
StoresMatched ==
    [][\A k \in Places :
         library'[k] \in {library[k], NoFinger}
         \/ (char1 = char2 /\ library'[k] = char1)]_vars

\* The hand-shake ends however many times the module misses it and whatever
\* bytes its start leaves in the buffer (Handle_AS608.c:385).
HandShakeEnds == <>(step # "hand")
=============================================================================
