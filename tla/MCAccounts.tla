----------------------------- MODULE MCAccounts -----------------------------
(* Accounts on a few users, sessions and overlapping requests. *)
EXTENDS Accounts, TLC

CONSTANTS u1, u2, s1, s2, r1, r2

TwoUsers    == {u1, u2}
TwoSessions == {s1, s2}
TwoRequests == {r1, r2}
Symmetry    == Permutations(Users) \cup Permutations(Sessions) \cup Permutations(Requests)
=============================================================================
