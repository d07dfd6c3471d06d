-------------------------- MODULE PanelExecutable --------------------------
(***************************************************************************)
(* What a self-update keeps to about the executable of the panel: there is *)
(* one that works at every moment; an update replaces it in one step, and  *)
(* only by a version newer than the one that runs.                         *)
(*                                                                         *)
(* That is so for a program that runs from the file that the next start    *)
(* finds.  A program that has installed another one and was not restarted  *)
(* runs from elsewhere: its further updates leave that file alone, and may *)
(* replace the program that runs, but not the one that is started.         *)
(***************************************************************************)
EXTENDS Integers

CONSTANT Versions

Down == 0   \* the panel does not run

VARIABLES binary,   \* the executable there is to start
          running,  \* the version that runs, or Down
          home      \* whether it runs from that executable

execVars == <<binary, running, home>>

Init ==
    /\ binary \in Versions
    /\ running = binary /\ home = "yes"

Install(v) ==
    /\ home = "yes" /\ v > running
    /\ binary' = v /\ home' = "no"
    /\ UNCHANGED running

Overtake(v) ==
    /\ running # Down /\ home = "no" /\ v > running
    /\ running' = v
    /\ UNCHANGED <<binary, home>>

Restart ==
    /\ running' = binary /\ home' = "yes"
    /\ UNCHANGED binary

Stop ==
    /\ running' = Down /\ home' = "no"
    /\ UNCHANGED binary

(* The administrator puts another version in place while the panel is down. *)
Replace(v) ==
    /\ running = Down
    /\ binary' = v
    /\ UNCHANGED <<running, home>>

Next == (\E v \in Versions : Install(v) \/ Overtake(v) \/ Replace(v)) \/ Restart \/ Stop

Spec == Init /\ [][Next]_execVars
=============================================================================
