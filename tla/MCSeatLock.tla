----------------------------- MODULE MCSeatLock -----------------------------
(* Small instances of SeatLock.  Clients a1 and a2 are two sessions of the *)
(* user ua; b1 is the session of another user.                             *)
EXTENDS SeatLock

CONSTANTS a1, a2, b1, ua, ub, e1, e2, s1, c1, c2, c3, c4, i1, i2

MCUserOf == [x \in Clients |-> IF x = b1 THEN ub ELSE ua]

\* The retry reaches the other instance, or there is only one.
MCInstanceOf     == [c \in Calls |-> IF c = c2 THEN i2 ELSE i1]
SingleInstanceOf == [c \in Calls |-> i1]

MCSeatOf == [c \in Calls |-> s1]

\* a1 asks twice for the seat of e1, b1 once.
RetryClientOf == [c \in Calls |-> IF c = c3 THEN b1 ELSE a1]
RetryEventOf  == [c \in Calls |-> e1]

\* Two sessions of one user and a rival ask for the seat of e1.
TabsClientOf == [c \in Calls |-> CASE c = c1 -> a1 [] c = c2 -> a2 [] OTHER -> b1]

\* a1 asks for the seat of e1 and, with the same session, twice for that of e2;
\* b1 asks for that of e2.
CrossClientOf == RetryClientOf
CrossEventOf  == [c \in Calls |-> IF c = c1 THEN e1 ELSE e2]
=============================================================================
