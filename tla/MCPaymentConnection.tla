------------------------ MODULE MCPaymentConnection ------------------------
(* Small instances of PaymentConnection.                                   *)
EXTENDS PaymentConnection

CONSTANTS p1, p2, p3
=============================================================================
