-------------------------- MODULE MCEventInventory --------------------------
(* Small instances of EventInventory.  A PUT request takes the event from   *)
(* its owner and sets the number of available tickets, or sets neither.    *)
EXTENDS EventInventory, TLC

CONSTANTS h1, h2, u1, b1

MCTicketsOf == [b \in Bookings |-> 1]

Body(t, a, o) == [total |-> t, available |-> a, owner |-> o]

MCPatches ==
    {Body(Keep, Keep, Keep),
     Body(Keep, 1, NoOwner)}

Symmetry == Permutations(Handlers)
=============================================================================
