---------------------------- MODULE ApprovalGate ----------------------------
(***************************************************************************)
(* What the agent promises about the actions that need a user's consent    *)
(* (write_file and send_command): each is performed at most once, and only *)
(* when it was granted while the agent was still waiting for it.           *)
(***************************************************************************)
CONSTANT Requests   \* the approvals that are asked for

VARIABLE gate       \* where each of them stands

Standing == {"unasked", "asked", "granted", "refused", "closed", "performed"}

TypeOK == gate \in [Requests -> Standing]

Init == gate = [i \in Requests |-> "unasked"]

Move(i, from, to) ==
    /\ gate[i] \in from
    /\ gate' = [gate EXCEPT ![i] = to]

Ask(i)     == Move(i, {"unasked"}, "asked")
Grant(i)   == Move(i, {"asked"}, "granted")
Refuse(i)  == Move(i, {"asked"}, "refused")
Perform(i) == Move(i, {"granted"}, "performed")
(* Refused, too late, cancelled, or what was granted cannot be done. *)
Close(i)   == Move(i, {"asked", "granted", "refused"}, "closed")

Next == \E i \in Requests :
    Ask(i) \/ Grant(i) \/ Refuse(i) \/ Perform(i) \/ Close(i)

Spec == Init /\ [][Next]_gate
=============================================================================
