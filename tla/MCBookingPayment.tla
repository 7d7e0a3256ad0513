-------------------------- MODULE MCBookingPayment --------------------------
(* Small instances of BookingPayment: handlers and sessions are symmetric. *)
EXTENDS BookingPayment, TLC

CONSTANTS h1, h2, s1, s2

Symmetry == Permutations(Handlers) \union Permutations(Sessions)
=============================================================================
