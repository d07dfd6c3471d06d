------------------------------ MODULE MCAccess ------------------------------
(* Access with a few maps: a manager's, with a right on one server or with *)
(* one on all servers and a denial on one; an allowance on all servers;    *)
(* the empty map.  Patches set the role, the map, both, or the flag.       *)
EXTENDS Access, TLC

With(allow, deny) ==
    [e \in Rights |-> IF e \in allow THEN "allow" ELSE IF e \in deny THEN "deny" ELSE "none"]

CONSTANTS s1, u1, u2

Manager == {"panel"} \X Global
Here    == <<s1, "start">>
All     == <<"*", "start">>

Local      == With(Manager \cup {Here}, {})
Everywhere == With(Manager \cup {All}, {Here})

SomeEntries == {Local, Everywhere, With({All}, {}), Nothing}

SomePatches ==
    LET Patch(r, m, a) == [role |-> r, over |-> m, admin |-> a]
    IN  {Patch(NoRole, m, Keep) : m \in SomeEntries \ {Nothing}}
        \cup {Patch(r, Nothing, Keep) : r \in Roles}
        \cup {Patch(r, Keep, Keep) : r \in Roles}
        \cup {Patch(Keep, Nothing, Keep)}
        \cup {Patch(Keep, Keep, a) : a \in {"yes", "no"}}

Symmetry == Permutations(Requests) \cup Permutations({u1, u2})
=============================================================================
