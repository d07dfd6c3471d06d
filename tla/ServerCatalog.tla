--------------------------- MODULE ServerCatalog ---------------------------
(***************************************************************************)
(* What the panel promises about the servers it keeps on disk, whatever    *)
(* handlers run at once and whenever the panel crashes and starts again:   *)
(* a server is created once, its stored configuration only ever gains      *)
(* edits, and a removed server never comes back.                           *)
(***************************************************************************)

CONSTANTS Servers, Edits

VARIABLES born,     \* servers that were created
          removed,  \* servers that were removed
          content   \* the edits the stored configuration of each one holds

catalogVars == <<born, removed, content>>

Init ==
    /\ born \subseteq Servers
    /\ removed = {}
    /\ content = [s \in Servers |-> {}]

Create(s) ==
    /\ s \notin born
    /\ born' = born \cup {s}
    /\ UNCHANGED <<removed, content>>

Write(s) ==
    /\ s \in born \ removed
    /\ \E gained \in SUBSET Edits :
         content' = [content EXCEPT ![s] = @ \cup gained]
    /\ UNCHANGED <<born, removed>>

Remove(s) ==
    /\ s \in born \ removed
    /\ removed' = removed \cup {s}
    /\ content' = [content EXCEPT ![s] = {}]
    /\ UNCHANGED born

Next == \E s \in Servers : Create(s) \/ Write(s) \/ Remove(s)

Spec == Init /\ [][Next]_catalogVars
=============================================================================
