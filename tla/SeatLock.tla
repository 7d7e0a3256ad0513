------------------------------ MODULE SeatLock ------------------------------
(***************************************************************************)
(* The seat lock of the booking service: lock/seatlock.go, the part of     *)
(* CreateBooking (handlers/booking.go) that takes a lock and inserts the   *)
(* booking, and the two places of the payment service that look at a lock  *)
(* or delete it (config/lockStore.js, paymentController.js).               *)
(*                                                                         *)
(* A call to CreateBooking publishes a request on the Kafka topic          *)
(* seat.lock.requested and polls an in-memory map for the answer.  The     *)
(* consumer of ANY instance of the service may take the request; it works  *)
(* on Redis one command at a time and leaves the answer in the map of its  *)
(* OWN instance, under a key made of user, seat and session only.          *)
(***************************************************************************)
EXTENDS Integers, FiniteSets

CONSTANTS
    Calls,      \* the calls to CreateBooking
    Instances,  \* the running copies of the booking service
    Clients,    \* the pairs (user, session token)
    Users,
    Events,
    Seats,
    UserOf,     \* the user of a client
    ClientOf,   \* the client, the event and the seat a call is made for
    EventOf,
    SeatOf,
    InstanceOf, \* the instance the call is routed to
    Allowed,    \* what the environment may do
    NoLock      \* no value under a Redis key

\* Locks expire; a Redis, Kafka or database operation fails; an instance is
\* restarted; bookings are paid.
EnvironmentKinds == {"expiry", "redis", "kafka", "db", "crash", "payment"}

ASSUME ConstantsAssumption ==
    /\ UserOf   \in [Clients -> Users]
    /\ ClientOf \in [Calls -> Clients]
    /\ EventOf  \in [Calls -> Events]
    /\ SeatOf   \in [Calls -> Seats]
    /\ InstanceOf \in [Calls -> Instances]
    /\ Calls # {}
    /\ Allowed \subseteq EnvironmentKinds

-----------------------------------------------------------------------------
(* Keys and values in Redis.                                               *)

LockState == [client : Clients, event : Events, seat : Seats]

ASSUME NoLockAssumption == NoLock \notin LockState

SeatKeys == Events \X Seats
IdemKeys == Clients \X Seats

LockOf(c)    == [client |-> ClientOf[c], event |-> EventOf[c], seat |-> SeatOf[c]]
SeatKey(l)   == <<l.event, l.seat>>
IdemKey(l)   == <<l.client, l.seat>>

Verdicts == {"ok", "ALREADY_LOCKED", "INVALID_REQUEST"}

VARIABLES
    topic,      \* seat.lock.requested: the calls whose request is not taken yet
    lost,       \* history: the calls whose request was taken and not answered
    lock,       \* Redis, seat.lock:<event>:<seat>
    idem,       \* Redis, seat.lock.idempotency:<user>:<seat>:<session>
    outcomes,   \* lockOutcomes, the in-memory map of each instance
    step,       \* where the request consumer of each instance is
    msg,        \* the call whose request it works on
    prior,      \* the lock state it found under the idempotency key
    verdict,    \* the answer it is about to give
    pc,         \* where the handler of each call is
    booked,     \* the calls whose row is in the table bookings
    checkout,   \* the bookings with a Stripe checkout
    paid,       \* the bookings whose payment is completed
    granted,    \* history: every lock ever acquired
    freed       \* history: every seat key a lock was ever removed from

requestVars  == <<topic, lost>>
redisVars    == <<lock, idem>>
consumerVars == <<step, msg, prior, verdict>>
tableVars    == <<booked, checkout, paid>>
vars == <<topic, lost, lock, idem, outcomes, step, msg, prior, verdict,
          pc, booked, checkout, paid, granted, freed>>

HandlerSteps  == {"start", "waiting", "insert", "release", "done", "dead"}
ConsumerSteps == {"read", "idem", "prior", "seat", "acquire", "remember", "reply"}

TypeOK ==
    /\ topic \subseteq Calls
    /\ lost \subseteq Calls
    /\ lock \in [SeatKeys -> LockState \union {NoLock}]
    /\ idem \in [IdemKeys -> LockState \union {NoLock}]
    /\ outcomes \in [Instances -> [IdemKeys -> Verdicts \union {"none"}]]
    /\ step \in [Instances -> ConsumerSteps]
    /\ msg \in [Instances -> Calls]
    /\ prior \in [Instances -> LockState \union {NoLock}]
    /\ verdict \in [Instances -> Verdicts]
    /\ pc \in [Calls -> HandlerSteps]
    /\ booked \subseteq Calls
    /\ checkout \subseteq Calls
    /\ paid \subseteq Calls
    /\ granted \subseteq LockState
    /\ freed \subseteq SeatKeys

\* What msg holds while no request is in work; it is not read then.
AnyCall == CHOOSE c \in Calls : TRUE

Init ==
    /\ topic = {}
    /\ lost = {}
    /\ lock = [k \in SeatKeys |-> NoLock]
    /\ idem = [k \in IdemKeys |-> NoLock]
    /\ outcomes = [i \in Instances |-> [k \in IdemKeys |-> "none"]]
    /\ step = [i \in Instances |-> "read"]
    /\ msg = [i \in Instances |-> AnyCall]
    /\ prior = [i \in Instances |-> NoLock]
    /\ verdict = [i \in Instances |-> "ok"]
    /\ pc = [c \in Calls |-> "start"]
    /\ booked = {}
    /\ checkout = {}
    /\ paid = {}
    /\ granted = {}
    /\ freed = {}

May(kind) == kind \in Allowed

-----------------------------------------------------------------------------
(* The handler of one call: CreateBooking and RequestLock.                 *)

HandlerAt(c, here) == pc[c] = here
HandlerGoes(c, there) == pc' = [pc EXCEPT ![c] = there]

\* The handler's own instance and key in the map of outcomes.
Answer(c) == outcomes[InstanceOf[c]][IdemKey(LockOf(c))]

\* The checks of the request and of the other services have passed; RequestLock
\* publishes.  The writer asks for no acknowledgement and its context may end
\* before the batch is sent: a reported success may be lost, a reported error
\* may still reach the topic.
Publish(c) ==
    /\ HandlerAt(c, "start")
    /\ \E sent, acked \in BOOLEAN :
          /\ May("kafka") \/ (sent /\ acked)
          /\ topic' = IF sent THEN topic \union {c} ELSE topic
          /\ HandlerGoes(c, IF acked THEN "waiting" ELSE "done")
    /\ UNCHANGED <<lost, redisVars, outcomes, consumerVars, tableVars, granted, freed>>

\* waitForOutcome finds an answer under the key and takes it out of the map.
Poll(c) ==
    /\ HandlerAt(c, "waiting")
    /\ Answer(c) # "none"
    /\ outcomes' = [outcomes EXCEPT ![InstanceOf[c]][IdemKey(LockOf(c))] = "none"]
    /\ HandlerGoes(c, IF Answer(c) = "ok" THEN "insert" ELSE "done")
    /\ UNCHANGED <<requestVars, redisVars, consumerVars, tableVars, granted, freed>>

\* Mutant: the deadline is only looked at after an answer was found.
GiveUpAfterAnswer(c) ==
    /\ HandlerAt(c, "waiting")
    /\ Answer(c) # "none"
    /\ HandlerGoes(c, "done")
    /\ UNCHANGED <<requestVars, redisVars, outcomes, consumerVars, tableVars, granted, freed>>

\* The deadline passes.  The request stays where it is, and an answer that
\* comes after the last poll stays in the map.
GiveUp(c) ==
    /\ HandlerAt(c, "waiting")
    /\ HandlerGoes(c, "done")
    /\ UNCHANGED <<requestVars, redisVars, outcomes, consumerVars, tableVars, granted, freed>>

\* INSERT INTO bookings: no constraint relates the row to other bookings.
Insert(c) ==
    /\ HandlerAt(c, "insert")
    /\ booked' = booked \union {c}
    /\ HandlerGoes(c, "done")
    /\ UNCHANGED <<requestVars, redisVars, outcomes, consumerVars, checkout, paid, granted, freed>>

\* The statement fails, or its reply is lost after the row was stored.
InsertFails(c) ==
    /\ May("db")
    /\ HandlerAt(c, "insert")
    /\ booked' \in {booked, booked \union {c}}
    /\ HandlerGoes(c, "release")
    /\ UNCHANGED <<requestVars, redisVars, outcomes, consumerVars, checkout, paid, granted, freed>>

\* A seat key goes, by DEL or by its TTL, whoever holds it.
Drop(k) ==
    /\ lock' = [lock EXCEPT ![k] = NoLock]
    /\ freed' = IF lock[k] = NoLock THEN freed ELSE freed \union {k}

\* DeleteLock after a failed insert; its own failure is only logged.
Release(c) ==
    /\ HandlerAt(c, "release")
    /\ \/ Drop(SeatKey(LockOf(c)))
       \/ May("redis") /\ UNCHANGED <<lock, freed>>
    /\ HandlerGoes(c, "done")
    /\ UNCHANGED <<requestVars, idem, outcomes, consumerVars, tableVars, granted>>

-----------------------------------------------------------------------------
(* The payment service: a checkout is opened only while the seat is locked *)
(* for the user of the booking, and its completion, which may come at any  *)
(* later time, deletes the lock.                                           *)

\* validateSeatLock compares the session only if the caller sent a token.
ValidFor(l, c, withToken) ==
    /\ l # NoLock
    /\ UserOf[l.client] = UserOf[ClientOf[c]]
    /\ withToken => l.client = ClientOf[c]

OpenCheckout(c) ==
    /\ May("payment")
    /\ c \in booked
    /\ \E withToken \in BOOLEAN : ValidFor(lock[SeatKey(LockOf(c))], c, withToken)
    /\ checkout' = checkout \union {c}
    /\ UNCHANGED <<requestVars, redisVars, outcomes, consumerVars, pc, booked, paid, granted, freed>>

\* deleteSeatLock after the payment is completed.  Stripe may deliver the
\* completion again, so the checkout stays.
CompletePayment(c) ==
    /\ c \in checkout
    /\ paid' = paid \union {c}
    /\ Drop(SeatKey(LockOf(c)))
    /\ UNCHANGED <<requestVars, idem, outcomes, consumerVars, pc, booked, checkout, granted>>

-----------------------------------------------------------------------------
(* The request consumer of one instance: startRequestConsumer and, one     *)
(* Redis command at a time, processLockRequest.                            *)

ConsumerAt(i, here) == step[i] = here
ConsumerGoes(i, there) == step' = [step EXCEPT ![i] = there]
Requested(i) == LockOf(msg[i])

\* The local variables of processLockRequest go when it returns.
Returns(i) ==
    /\ ConsumerGoes(i, "read")
    /\ msg' = [msg EXCEPT ![i] = AnyCall]
    /\ prior' = [prior EXCEPT ![i] = NoLock]
    /\ verdict' = [verdict EXCEPT ![i] = "ok"]

\* The consumer is ready to announce and record its answer v.
Decides(i, v) ==
    /\ ConsumerGoes(i, "reply")
    /\ verdict' = [verdict EXCEPT ![i] = v]

\* ReadMessage commits the offset before it returns the message.  A failed
\* commit makes the loop skip the message, which a later commit passes over.
Receive(i) ==
    /\ ConsumerAt(i, "read")
    /\ \E c \in topic :
          /\ topic' = topic \ {c}
          /\ \/ /\ msg' = [msg EXCEPT ![i] = c]
                /\ ConsumerGoes(i, "idem")
                /\ UNCHANGED lost
             \/ /\ May("kafka")
                /\ lost' = lost \union {c}
                /\ UNCHANGED <<msg, step>>
    /\ UNCHANGED <<redisVars, outcomes, prior, verdict, pc, tableVars, granted, freed>>

\* GET of the idempotency key.
CheckIdem(i) ==
    /\ ConsumerAt(i, "idem")
    /\ LET known == idem[IdemKey(Requested(i))] IN
       \/ /\ prior' = [prior EXCEPT ![i] = known]
          /\ ConsumerGoes(i, IF known = NoLock THEN "seat" ELSE "prior")
          /\ UNCHANGED verdict
       \/ May("redis") /\ Decides(i, "INVALID_REQUEST") /\ UNCHANGED prior
    /\ UNCHANGED <<requestVars, redisVars, outcomes, msg, pc, tableVars, granted, freed>>

\* Mutant: the consumer returns when the lock found is gone, without an answer.
CheckPriorSilently(i) ==
    /\ ConsumerAt(i, "prior")
    /\ \/ /\ lock[SeatKey(prior[i])] # NoLock
          /\ Decides(i, "ok")
          /\ prior' = [prior EXCEPT ![i] = NoLock]
          /\ UNCHANGED msg
       \/ lock[SeatKey(prior[i])] = NoLock /\ Returns(i)
    /\ UNCHANGED <<requestVars, redisVars, outcomes, pc, tableVars, granted, freed>>

\* GET of the seat key of the lock state found there: whoever holds that key
\* now, the request is answered as granted.  An error counts as no value.
CheckPrior(i) ==
    /\ ConsumerAt(i, "prior")
    /\ \/ lock[SeatKey(prior[i])] # NoLock /\ Decides(i, "ok")
       \/ /\ lock[SeatKey(prior[i])] = NoLock \/ May("redis")
          /\ ConsumerGoes(i, "seat")
          /\ UNCHANGED verdict
    /\ prior' = [prior EXCEPT ![i] = NoLock]
    /\ UNCHANGED <<requestVars, redisVars, outcomes, msg, pc, tableVars, granted, freed>>

\* Mutant: an error of Redis is reported as a lock of somebody else.
CheckSeatErrorIsLock(i) ==
    /\ ConsumerAt(i, "seat")
    /\ \/ lock[SeatKey(Requested(i))] # NoLock /\ Decides(i, "ALREADY_LOCKED")
       \/ /\ lock[SeatKey(Requested(i))] = NoLock
          /\ ConsumerGoes(i, "acquire")
          /\ UNCHANGED verdict
       \/ May("redis") /\ Decides(i, "ALREADY_LOCKED")
    /\ UNCHANGED <<requestVars, redisVars, outcomes, msg, prior, pc, tableVars, granted, freed>>

\* GET of the seat key the request is for.
CheckSeat(i) ==
    /\ ConsumerAt(i, "seat")
    /\ \/ lock[SeatKey(Requested(i))] # NoLock /\ Decides(i, "ALREADY_LOCKED")
       \/ /\ lock[SeatKey(Requested(i))] = NoLock
          /\ ConsumerGoes(i, "acquire")
          /\ UNCHANGED verdict
       \/ May("redis") /\ Decides(i, "INVALID_REQUEST")
    /\ UNCHANGED <<requestVars, redisVars, outcomes, msg, prior, pc, tableVars, granted, freed>>

\* Mutant: SET without NX.
SetAnyway(l) ==
    /\ lock' = [lock EXCEPT ![SeatKey(l)] = l]
    /\ granted' = granted \union {l}

\* The effect of lockScript in Redis: the key is set only if it has no value.
SetIfFree(l) ==
    IF lock[SeatKey(l)] = NoLock
    THEN /\ lock' = [lock EXCEPT ![SeatKey(l)] = l]
         /\ granted' = granted \union {l}
    ELSE UNCHANGED <<lock, granted>>

\* Mutant: the result of the script is not looked at.
AcquireUnchecked(i) ==
    /\ ConsumerAt(i, "acquire")
    /\ SetIfFree(Requested(i))
    /\ ConsumerGoes(i, "remember")
    /\ UNCHANGED <<requestVars, idem, outcomes, msg, prior, verdict, pc, tableVars, freed>>

\* EVAL of lockScript.  When the connection fails the script may or may not
\* have run, and the client library may have sent it again: the request is
\* refused though its own lock is in place.
Acquire(i) ==
    /\ ConsumerAt(i, "acquire")
    /\ \/ /\ SetIfFree(Requested(i))
          /\ IF lock[SeatKey(Requested(i))] = NoLock
             THEN ConsumerGoes(i, "remember") /\ UNCHANGED verdict
             ELSE Decides(i, "ALREADY_LOCKED")
       \/ /\ May("redis")
          /\ SetIfFree(Requested(i))
          /\ \E v \in {"ALREADY_LOCKED", "INVALID_REQUEST"} : Decides(i, v)
       \/ May("redis") /\ Decides(i, "INVALID_REQUEST") /\ UNCHANGED <<lock, granted>>
    /\ UNCHANGED <<requestVars, idem, outcomes, msg, prior, pc, tableVars, freed>>

\* Mutant: the request is stored instead of the lock state.
RememberRequest(i) ==
    /\ ConsumerAt(i, "remember")
    /\ idem' = [idem EXCEPT ![IdemKey(Requested(i))] = msg[i]]
    /\ Decides(i, "ok")
    /\ UNCHANGED <<requestVars, lock, outcomes, msg, prior, pc, tableVars, granted, freed>>

\* SET of the idempotency key; a failure is only logged.
Remember(i) ==
    /\ ConsumerAt(i, "remember")
    /\ \/ idem' = [idem EXCEPT ![IdemKey(Requested(i))] = Requested(i)]
       \/ May("redis") /\ UNCHANGED idem
    /\ Decides(i, "ok")
    /\ UNCHANGED <<requestVars, lock, outcomes, msg, prior, pc, tableVars, granted, freed>>

\* Mutant: setOutcome with an empty reason on every path.
ReplyOk(i) ==
    /\ ConsumerAt(i, "reply")
    /\ outcomes' = [outcomes EXCEPT ![i][IdemKey(Requested(i))] = "ok"]
    /\ Returns(i)
    /\ UNCHANGED <<requestVars, redisVars, pc, tableVars, granted, freed>>

\* The announcement on seat.locked or seat.lock.failed, which no service
\* consumes and whose failure is ignored, then setOutcome: an older answer
\* under the same key is overwritten.
Reply(i) ==
    /\ ConsumerAt(i, "reply")
    /\ outcomes' = [outcomes EXCEPT ![i][IdemKey(Requested(i))] = verdict[i]]
    /\ Returns(i)
    /\ UNCHANGED <<requestVars, redisVars, pc, tableVars, granted, freed>>

-----------------------------------------------------------------------------
(* Time and crashes.  A lock may expire at any moment after it was taken.  *)

ExpireLock(k) ==
    /\ May("expiry")
    /\ lock[k] # NoLock
    /\ Drop(k)
    /\ UNCHANGED <<requestVars, idem, outcomes, consumerVars, pc, tableVars, granted>>

\* Mutant: a TTL of the idempotency key shorter than that of the lock.
ExpireIdemEarly(k) ==
    /\ May("expiry")
    /\ idem[k] # NoLock
    /\ idem' = [idem EXCEPT ![k] = NoLock]
    /\ UNCHANGED <<requestVars, lock, outcomes, consumerVars, pc, tableVars, granted, freed>>

\* The idempotency key is set after the lock and with a longer TTL (10 minutes
\* against 8): it outlives the lock it describes.
ExpireIdem(k) ==
    /\ May("expiry")
    /\ idem[k] # NoLock
    /\ lock[SeatKey(idem[k])] # idem[k]
    /\ idem' = [idem EXCEPT ![k] = NoLock]
    /\ UNCHANGED <<requestVars, lock, outcomes, consumerVars, pc, tableVars, granted, freed>>

\* An instance is restarted: its map, the request in its consumer and the calls
\* it was serving are gone; Redis, Kafka and the database are not.
Crash(i) ==
    /\ May("crash")
    /\ outcomes' = [outcomes EXCEPT ![i] = [k \in IdemKeys |-> "none"]]
    /\ Returns(i)
    /\ pc' = [c \in Calls |-> IF InstanceOf[c] = i /\ pc[c] \notin {"start", "done"}
                               THEN "dead" ELSE pc[c]]
    /\ lost' = IF ConsumerAt(i, "read") THEN lost ELSE lost \union {msg[i]}
    /\ UNCHANGED <<topic, redisVars, tableVars, granted, freed>>

-----------------------------------------------------------------------------
HandlerStep(c) == Poll(c) \/ GiveUp(c) \/ Insert(c) \/ InsertFails(c) \/ Release(c)

ConsumerStep(i) ==
    \/ Receive(i) \/ CheckIdem(i) \/ CheckPrior(i) \/ CheckSeat(i)
    \/ Acquire(i) \/ Remember(i) \/ Reply(i)

Next ==
    \/ \E c \in Calls : Publish(c) \/ OpenCheckout(c) \/ CompletePayment(c)
    \/ \E c \in Calls : HandlerStep(c)
    \/ \E i \in Instances : ConsumerStep(i) \/ Crash(i)
    \/ \E k \in SeatKeys : ExpireLock(k)
    \/ \E k \in IdemKeys : ExpireIdem(k)

Spec == Init /\ [][Next]_vars

\* Handlers and consumers are goroutines the scheduler keeps running, Kafka
\* keeps offering a message, and Redis expires every key that has a TTL.
Fairness ==
    /\ \A c \in Calls : WF_vars(HandlerStep(c))
    /\ \A i \in Instances : WF_vars(ConsumerStep(i))
    /\ \A k \in SeatKeys : WF_vars(ExpireLock(k))

FairSpec == Spec /\ Fairness

-----------------------------------------------------------------------------
(* Properties.                                                             *)

\* The calls that were told their seat is theirs.
Told(c) == c \in booked \/ pc[c] \in {"insert", "release"}

\* Whoever is told by processLockRequest that the seat is theirs, and so inserts
\* a booking, did acquire a lock of that seat number at some time, for some
\* event: no answer of another user or session is taken for one's own.
GrantsAreBacked == \A c \in Calls : Told(c) => \E g \in granted : IdemKey(g) = IdemKey(LockOf(c))

\* A booking is inserted only after the seat of THAT event was locked for the
\* caller.  The code does not see to it: MCSeatLockCross.cfg.
BookingHadLock == \A c \in booked : LockOf(c) \in granted

\* The session of the call holds, or held, a lock of the same seat number of
\* ANOTHER event.  Its idempotency key (buildLockIdempotencyKey) has no event in
\* it, so that the call is answered as granted with no lock of its own.
Crossed(c) ==
    \E g \in granted : IdemKey(g) = IdemKey(LockOf(c)) /\ SeatKey(g) # SeatKey(LockOf(c))

\* As long as no lock of a seat expired or was deleted, the bookings CreateBooking
\* inserts for it belong to one client: two racing clients never both get it,
\* unless one comes with the session of a lock of another event.
OneOwnerUntilFreed ==
    \A c, d \in booked :
        /\ SeatKey(LockOf(c)) = SeatKey(LockOf(d))
        /\ SeatKey(LockOf(c)) \notin freed
        => ClientOf[c] = ClientOf[d] \/ Crossed(c) \/ Crossed(d)

\* A seat is paid for by one client only.
OneSalePerSeat ==
    \A c, d \in paid : SeatKey(LockOf(c)) = SeatKey(LockOf(d)) => ClientOf[c] = ClientOf[d]

\* A held lock passes to nobody else before it expired or was deleted: lockScript
\* closes the gap between the GET of the seat key and the SET.
NoTakeover ==
    [][\A k \in SeatKeys : lock[k] # NoLock => lock'[k] \in {lock[k], NoLock}]_lock

\* processLockRequest answers ALREADY_LOCKED only for a seat somebody locked.
RefusalHasCause ==
    \A i \in Instances :
        step[i] = "reply" /\ verdict[i] = "ALREADY_LOCKED"
        => \E g \in granted : SeatKey(g) = SeatKey(Requested(i))

\* A client that repeats its request while it holds the lock is not told that
\* the seat is taken: the idempotency key is there as long as the lock.
OwnerNotRefused ==
    \A i \in Instances :
        step[i] = "reply" /\ verdict[i] = "ALREADY_LOCKED"
        => lock[SeatKey(Requested(i))] # Requested(i)

\* Whatever happens to its request and to the answer, a call that waits ends
\* (waitForOutcome has a deadline) unless its instance is restarted.
CallsEnd == \A c \in Calls : pc[c] = "waiting" ~> pc[c] \in {"done", "dead"}

\* Every way through processLockRequest ends in setOutcome: a published request
\* gets its answer, unless its commit failed (the reader then skips it) or the
\* instance that worked on it was restarted.
RequestsAnswered ==
    \A c \in Calls :
        c \in topic ~> c \in lost \/ \E i \in Instances : msg[i] = c /\ step[i] = "reply"

-----------------------------------------------------------------------------
(* The seat lock implements SeatReservation.                               *)

SeatKeyOf(c) == SeatKey(LockOf(c))
IdemKeyOf(c) == IdemKey(LockOf(c))

Reservation == INSTANCE SeatReservation WITH
    Keys <- SeatKeys, KeyOf <- SeatKeyOf, ClaimOf <- IdemKeyOf, ValueOf <- LockOf,
    Nobody <- NoLock,
    holder <- lock, entitled <- {IdemKey(g) : g \in granted}, booked <- booked

\* Interleaved consumers, retries, timeouts, crashes and failing stores never do
\* more to a seat than grant it when it is free, give it up, or book it for a
\* client that was granted it.
ImplementsReservation == Reservation!Spec

=============================================================================
