-------------------------------- MODULE Door --------------------------------
(***************************************************************************)
(* What the three threads do to the lock's outputs: the relay of the bolt, *)
(* the green, red and blue LEDs and the beeper.  The web handler opens on  *)
(* the app's command, the keypad thread on a password, the fingerprint     *)
(* thread on a known finger, each with its own pair of RELAY_ON and        *)
(* RELAY_OFF around a delay of 1000 ticks; nothing orders the pairs.       *)
(*                                                                         *)
(* A thread's work is the sequence of writes and delays it has still to    *)
(* do.  A thread may be preempted between any two of them, also for longer *)
(* than a tick, so a delay is a least one.                                 *)
(***************************************************************************)
EXTENDS Naturals, Sequences

CONSTANTS Second,   \* ticks of rt_thread_delay(1000)
          Tenth     \* ticks of rt_thread_delay(100), and of the shorter ones

ASSUME TicksAssumption == Second \in Nat \ {0} /\ Tenth \in Nat \ {0}

VARIABLES
    out,    \* level of each output, 1 is on
    todo    \* what each thread has still to do

vars == <<out, todo>>

Threads == {"web", "keypad", "finger"}
Outputs == {"relay", "green", "red", "blue", "beep"}

On(o)   == [op |-> "write", out |-> o, n |-> 1]
Off(o)  == [op |-> "write", out |-> o, n |-> 0]
Wait(n) == [op |-> "wait", out |-> "none", n |-> n]

-----------------------------------------------------------------------------
\* An unlock: the web handler, handle_sys and press_FR do the same.
OpensNoClose == <<On("relay"), On("green"), Wait(Second), Off("green")>> \* mutant
OpensNoGreenOff == <<On("relay"), On("green"), Wait(Second), Off("relay")>> \* mutant
Opens == <<On("relay"), On("green"), Wait(Second), Off("relay"), Off("green")>>

\* A refusal, of handle_sys and press_FR.
Refuses == <<On("beep"), On("red"), Wait(Tenth), Off("beep"), Wait(Second), Off("red")>>

\* press_FR: the beeper while the image is turned into features; no features, a
\* known finger, or an unknown one; then the rest of 600 ticks.
Features == <<On("beep"), Off("beep")>>
Rests    == <<Off("beep"), Wait(Second)>>
Presses  == {Features \o Rests, Features \o Opens \o Rests, Features \o Refuses \o Rests}

\* Add_FR: the beeper at each image.
Enrols == Features \o <<Wait(Second)>>

\* verify_FR: a finger already enrolled, with the rest of the round or without it in
\* the last one; a new one, which Add_FR takes over; or no features, and then it
\* breaks out past the line that would switch the beeper off.
Known    == Features \o <<On("beep"), On("blue"), Wait(Tenth), Off("beep"), Wait(Tenth),
                          Off("blue")>>
GivesUp  == <<On("beep")>>
Verifies == {Known \o Rests, Known, Features \o Enrols, GivesUp}

Works == [web |-> {Opens}, keypad |-> {Opens, Refuses},
          finger |-> Presses \cup Verifies \cup {Enrols}]

Init == out = [o \in Outputs |-> 0] /\ todo = [t \in Threads |-> <<>>]

Start(t) == /\ todo[t] = <<>>
            /\ \E work \in Works[t] : todo' = [todo EXCEPT ![t] = work]
            /\ UNCHANGED out

Write(t) == /\ todo[t] # <<>> /\ Head(todo[t]).op = "write"
            /\ out' = [out EXCEPT ![Head(todo[t]).out] = Head(todo[t]).n]
            /\ todo' = [todo EXCEPT ![t] = Tail(@)]

\* rt_thread_delay: a tick of the timer of each sleeping thread.
Sleeps(t) == todo[t] # <<>> /\ Head(todo[t]).op = "wait"
Slept(work) == IF Head(work).n = 1 THEN Tail(work) ELSE <<Wait(Head(work).n - 1)>> \o Tail(work)
Tick == /\ \E t \in Threads : Sleeps(t)
        /\ todo' = [t \in Threads |-> IF Sleeps(t) THEN Slept(todo[t]) ELSE todo[t]]
        /\ UNCHANGED out

Next == Tick \/ \E t \in Threads : Start(t) \/ Write(t)

Spec     == Init /\ [][Next]_vars
FairSpec == Spec /\ WF_vars(Tick) /\ \A t \in Threads : WF_vars(Write(t))

-----------------------------------------------------------------------------
\* The outputs are on or off and no delay runs below zero.
TypeOK == /\ out \in [Outputs -> {0, 1}]
          /\ \A t \in Threads : \A k \in 1..Len(todo[t]) :
                /\ todo[t][k].op \in {"write", "wait"}
                /\ todo[t][k].out \in Outputs \cup {"none"}
                /\ todo[t][k].n \in 0..Second + Tenth

\* The relay or a LED that is on has a thread that will still switch it off: however
\* the windows of the threads overlap, the bolt is not left open nor a LED on.  Of
\* the beeper this is not so (GivesUp).
WillSwitchOff(o) == \E t \in Threads : \E k \in 1..Len(todo[t]) : todo[t][k] = Off(o)
NeverLeftOn == \A o \in Outputs \ {"beep"} : out[o] = 1 => WillSwitchOff(o)

\* The bolt closes again, whatever follows.
BoltCloses == out["relay"] = 1 ~> out["relay"] = 0
=============================================================================
