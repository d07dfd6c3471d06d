-------------------------- MODULE ServerLifecycle --------------------------
(***************************************************************************)
(* What one managed game server promises to whoever asks the panel for its *)
(* status: the reported phase and the operating system process behind it.  *)
(* This is the abstract specification; module Instance shows how the panel *)
(* implements it with a lock, an exit channel and one waiting goroutine    *)
(* per process.                                                            *)
(***************************************************************************)

VARIABLES phase,   \* the state the panel reports
          alive    \* TRUE while an operating system process of the server lives

lifeVars == <<phase, alive>>

Phases == {"stopped", "starting", "running", "stopping"}

Init ==
    /\ phase = "stopped"
    /\ alive = FALSE

(* A process is only ever launched when none is alive. *)
Launch ==
    /\ phase = "stopped"
    /\ ~alive
    /\ phase' = "starting"
    /\ alive' = TRUE

BecomeReady ==
    /\ phase = "starting"
    /\ phase' = "running"
    /\ UNCHANGED alive

BeginStop ==
    /\ phase \in {"starting", "running"}
    /\ phase' = "stopping"
    /\ UNCHANGED alive

(* The process ends: a crash, the stop command, a signal. *)
Die ==
    /\ alive
    /\ alive' = FALSE
    /\ UNCHANGED phase

(* The panel reports "stopped" only once the process is gone. *)
Settle ==
    /\ phase # "stopped"
    /\ ~alive
    /\ phase' = "stopped"
    /\ UNCHANGED alive

Next == Launch \/ BecomeReady \/ BeginStop \/ Die \/ Settle

Spec == Init /\ [][Next]_lifeVars
=============================================================================
