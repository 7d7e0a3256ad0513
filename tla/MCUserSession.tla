--------------------------- MODULE MCUserSession ---------------------------
(* Small instances of UserSession: an admin is registered, perhaps twice at *)
(* a time, a user comes from Google; a PUT request sets the address and the *)
(* role, or the password.                                                  *)
EXTENDS UserSession, TLC

CONSTANTS h1, h2, e1, e2, p1, p2

Account(e, p, r) == [email |-> e, password |-> p, role |-> r]

MCAccounts == {Account(e1, p1, "admin")}
MCPatches  == {Account(e1, Undefined, "user"), Account(Undefined, p2, Undefined)}

Symmetry == Permutations(Handlers)
=============================================================================
