---------------------------- MODULE BookingOrder -----------------------------
(***************************************************************************)
(* What the booking and the payment service promise together about one     *)
(* booking, without handlers, topics, rows or webhooks: a checkout session *)
(* the customer completed confirms it, a payment that fails voids it only  *)
(* while it is not confirmed, and what was confirmed is revoked for a      *)
(* refund.  The exceptions have names.                                     *)
(***************************************************************************)
CONSTANTS
    Sessions,
    Cancellable     \* customers cancel bookings

VARIABLES
    status,     \* of the booking
    complete,   \* the sessions the customer completed
    refunded,   \* those of them that were paid and refunded
    override    \* a client has set a status by hand

ovars == <<status, complete, refunded, override>>

Statuses == {"pending", "confirmed", "cancelled"}

Init ==
    /\ status = "pending"
    /\ complete = {}
    /\ refunded = {}
    /\ override = FALSE

Checkout(s) ==
    /\ s \notin complete
    /\ complete' = complete \union {s}
    /\ UNCHANGED <<status, refunded, override>>

Refund(s) ==
    /\ s \in complete \ refunded
    /\ refunded' = refunded \union {s}
    /\ UNCHANGED <<status, complete, override>>

Become(there) == status' = there /\ UNCHANGED <<complete, refunded, override>>

Confirm == (complete # {} \/ override) /\ Become("confirmed")
Void    == status # "confirmed" /\ Become("cancelled")
Revoke  == (refunded # {} \/ override) /\ Become("cancelled")
Cancel  == Cancellable /\ Become("cancelled")

Override ==
    /\ override' = TRUE
    /\ status' \in Statuses
    /\ UNCHANGED <<complete, refunded>>

Next ==
    \/ \E s \in Sessions : Checkout(s) \/ Refund(s)
    \/ Confirm \/ Void \/ Revoke \/ Cancel \/ Override

Spec == Init /\ [][Next]_ovars
=============================================================================
