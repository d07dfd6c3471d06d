----------------------------- MODULE MCInstance -----------------------------
(* Bounds of Instance for TLC. *)
EXTENDS Instance

(* The crash limiter does not read the ready line: the run about it leaves *)
(* the line out, and has room for more crashes and a longer clock.         *)
NoReadyLine == \A i \in Incarnations : doneLine[i] = "none"
=============================================================================
