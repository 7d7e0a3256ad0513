--------------------------- MODULE MCNotification ---------------------------
(* Small instances of Notification: an event is created, which concerns two *)
(* users; a booking of one of them is confirmed; a message has no address;   *)
(* another is no JSON.                                                     *)
EXTENDS Notification

CONSTANTS created, confirmed, nameless, garbage, u1, u2

MCTargetsOf  == [m \in Messages |-> IF m = created THEN <<u1, u2>>
                                    ELSE IF m \in {confirmed, nameless} THEN <<u1>> ELSE <<>>]
MCChannelsOf == [m \in Messages |-> <<"email">>]
MCKeyOf      == [m \in Messages |-> m]
MCDelays     == [c \in Channels |-> 1]
=============================================================================
