-------------------------- MODULE SeatReservation ---------------------------
(***************************************************************************)
(* What the seat lock promises to the booking service, without Kafka,      *)
(* Redis commands or maps of outcomes: a seat of an event has at most one  *)
(* holder, a new one only after the old one is gone, and a booking is made *)
(* only by a client that has been a holder of that seat number.            *)
(***************************************************************************)
CONSTANTS Calls, Keys, KeyOf(_), ClaimOf(_), ValueOf(_), Nobody

VARIABLES
    holder,     \* who holds each seat of each event
    entitled,   \* the claims (client and seat) that were granted at some time
    booked      \* the calls that made a booking

avars == <<holder, entitled, booked>>

Init ==
    /\ holder = [k \in Keys |-> Nobody]
    /\ entitled = {}
    /\ booked = {}

Grant(c) ==
    /\ holder[KeyOf(c)] = Nobody
    /\ holder' = [holder EXCEPT ![KeyOf(c)] = ValueOf(c)]
    /\ entitled' = entitled \union {ClaimOf(c)}
    /\ UNCHANGED booked

Vacate(k) ==
    /\ holder' = [holder EXCEPT ![k] = Nobody]
    /\ UNCHANGED <<entitled, booked>>

Book(c) ==
    /\ ClaimOf(c) \in entitled
    /\ booked' = booked \union {c}
    /\ UNCHANGED <<holder, entitled>>

Next ==
    \/ \E c \in Calls : Grant(c) \/ Book(c)
    \/ \E k \in Keys : Vacate(k)

Spec == Init /\ [][Next]_avars
=============================================================================
