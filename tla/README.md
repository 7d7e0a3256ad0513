# TickBook: specifications and proofs

TickBook sells event tickets with five services (events, users, bookings,
payments, notifications) that share Kafka, Redis and one PostgreSQL database
each. What is hard to get right in it is not inside one service: a seat passes
through an in-memory map, two Redis keys, four Kafka topics, two databases and
Stripe, and each step may fail, be repeated, or come late. The TLA+ modules in
this directory model that, TLC checks them on small instances, and TLAPS proves
the main results for every number of calls, clients, seats and instances.

## 1. Inventory

| Component | State | Operations | Talks to |
|---|---|---|---|
| Seat lock manager (`booking-service/lock/seatlock.go`) | Redis `seat.lock:<event>:<seat>` and `seat.lock.idempotency:<user>:<seat>:<session>`, the in-memory map `lockOutcomes` of each instance, the consumer's position | `RequestLock`, the request consumer (`processLockRequest`), `waitForOutcome`, `DeleteLock`, the TTL watcher | topics `seat.lock.requested`, `seat.locked`, `seat.lock.failed`, `seat.lock.expired` |
| Booking handlers (`handlers/booking.go`) | table `bookings` (status pending, confirmed, cancelled) | `CreateBooking`, `UpdateBookingStatus`, `DeleteBooking`, reads | lock manager, user and event services over HTTP, topic `bookings` |
| Booking consumer and producer (`booking-service/kafka/`) | consumer position, the same table | `handlePaymentEvent` | topics `payments`, `bookings` |
| Seat-lock store (`payment-service/src/config/lockStore.js`) | the same Redis keys | `validateSeatLock`, `deleteSeatLock` | called by the payment controller |
| Payment controller (`paymentController.js`) | table `payments`, Stripe sessions | `createPayment`, `updatePaymentStatus`, Stripe checkout, success, cancel, webhook | booking service over HTTP, seat-lock store, topic `payments` |
| Payment records (`paymentService.js`) | table `payments` (status pending, completed, failed, refunded) | `createOrUpdatePendingPayment`, `setPaymentStateById`, `updatePaymentStatusByBookingId` | |
| Payment Kafka connection (`payment-service/src/config/kafka.js`) | flags `isConnecting`, `isRunning`, `isShuttingDown`, the reconnect timer, the producer's flags | `connectConsumer`, `scheduleReconnect`, `startMessageLoop`, `publishPaymentEvent`, `processBookingEvent` | topics `bookings`, `payments` |
| Event controller (`eventController.js`) | table `events` (available and total tickets), Redis caches | CRUD, availability, `reduceTicketsByBooking` | topic `events` |
| Event consumer (`event-service/src/config/kafka.js`) | consumer position | `payment.completed` reduces the tickets | topic `payments`, booking service |
| Notification router (`workers/router.js`) | consumer position, preferences | one notification per target and channel | all domain topics, the channel topics |
| Channel workers (`workers/channelWorker.js`) | in-memory `deliveryLog`, attempt number | deliver, retry, dead-letter | channel topics, Resend, Twilio |
| Users (`userService.ts`, `userRepository.ts`) | tables `users`, `profiles`, one refresh token per user | register, login, refresh, logout, update, delete | topic `users` |
| Gateway, token middleware, Swagger, CI, compose | none | routing and stateless checks | |

What is hard, and what makes each part correct:

- **Seat lock.** Concurrency between instances, a client that retries, answers
  that come after the deadline, a reader that commits before it processes,
  restarts, locks that expire under their owner. Correct means: nobody is told
  a seat is theirs unless it was locked for them; a held lock passes to nobody
  else; every call ends.
- **Booking and payment.** The status of a booking and the status of its
  payment live in two databases joined by two topics and an HTTP call; both
  sides check a status and write it later. Correct means: only what was paid is
  confirmed, what was paid is confirmed in the end, nothing is charged twice,
  what was refunded or cancelled stays so. (Not all of this holds: section 6.)
- **Payment Kafka connection.** Flags shared by asynchronous functions, a timer
  and a signal handler. Correct means: the one consumer is used by one call at a
  time until the service is shut down, a message loop that stops comes back, and no
  event is skipped without a cause.
- **Event inventory.** Read-modify-write against a concurrent decrement, a cache
  filled from a read made before an invalidation, events delivered twice. Correct
  means: the numbers of tickets stay within bounds and can be accounted for, a
  paid booking is not forgotten, nothing stale stays cached without a cause.
- **Notification.** At-least-once consumption with an in-memory record of what
  was delivered; retries that outlast the consumer's session; messages that can
  never be parsed or have no address. Correct means: nothing is committed before it
  is passed on, a user gets a notification again only for a cause, and what does not
  stand behind such a message is announced.
- **Users.** Check-then-insert on the e-mail, one refresh token per user, saved
  whole entities. Correct means: an address belongs to one account, a session
  that has ended stays ended, and what a request was answered stands.

## 2. Modules and plan

Written, in order of importance:

1. `SeatLock`, its abstraction `SeatReservation`, its proofs `SeatLockProofs`,
   its instances `MCSeatLock`.
2. `BookingPayment`: one booking, its payment rows and Stripe sessions, the
   topics `bookings` and `payments`, the consumers on both sides, the HTTP
   confirmation; its abstraction `BookingOrder`, its proofs
   `BookingPaymentProofs`, its instances `MCBookingPayment`.
3. `PaymentConnection`: how the payment service keeps its consumer and producer
   connected, and how it shuts down; its proofs `PaymentConnectionProofs`, its
   instance `MCPaymentConnection`.
4. `EventInventory`: the tickets of one event, the handlers and the consumer that
   change them, the cached answers; its proofs `EventInventoryProofs`, its
   instance `MCEventInventory`.
5. `Notification`: the router and the channel workers; its proofs
   `NotificationProofs`, its instance `MCNotification`.
6. `UserSession`: accounts and refresh tokens; its proofs `UserSessionProofs`, its
   instance `MCUserSession`.

The modules do not use each other, but for `SeatLock`, which instantiates
`SeatReservation`, and `BookingPayment`, which instantiates `BookingOrder`. Where two of them meet, each takes the other's part from its
environment: a lock that expires or goes when a booking is paid (`SeatLock`) is
a `seat lock` operation that may fail in `BookingPayment`; the messages that
`BookingPayment` puts into `results` are `Send` in `EventInventory`, which allows
up to `MaxSends` publications of one payment, and `Publish` in `Notification`.

To come, in this order:

7. An abstraction of `EventInventory`: a ledger of the tickets of one event, which
   reductions, clients and overwriting updates write to.
8. The same of `Notification`: what is owed to a user, what was given, and how often.
9. `SeatHoldExpiry`: the TTL watcher of the seat lock, which announces expired
   locks and changes none.

## 3. The modules and the code

### SeatLock

A call is one `POST /bookings`: a client (user and session token), an event, a
seat, and the instance of the booking service the call is routed to.

| Module | Code |
|---|---|
| `topic` | the requests on `seat.lock.requested` that no consumer has read; a set, since the key of a message balances it to any partition |
| `lock`, `idem` | the two Redis keys; their value is the `LockState` JSON, reduced to who locked what |
| `outcomes` | `lockOutcomes` of each instance, under user, seat and session |
| `step`, `msg`, `prior`, `verdict` | the consumer of each instance and the locals of `processLockRequest` |
| `pc` | where `RequestLock`/`CreateBooking` of each call is |
| `booked`, `checkout`, `paid` | the rows of the booking and the payment service, as far as they concern the lock |
| `granted`, `freed` | history: what was ever locked and unlocked |
| `lost` | history: the calls whose request was read and never answered, since its commit failed or its instance was restarted |
| `Publish`, `Poll`, `GiveUp` | `RequestLock` and `waitForOutcome` |
| `Insert`, `InsertFails`, `Release` | the rest of `CreateBooking` |
| `Receive` ... `Reply` | `startRequestConsumer` and `processLockRequest`, one Redis command per action |
| `OpenCheckout`, `CompletePayment` | `validateSeatLock` and `deleteSeatLock` as the payment controller uses them |
| `ExpireLock`, `ExpireIdem` | the TTLs, of which only the order is kept |
| `Crash` | a restart of one instance |

`Allowed` says what the environment may do in an instance of the model:
expiring locks, failing Redis, Kafka and database operations, restarts,
payments. A failed Redis or database operation may have taken effect.

`SeatReservation` is what the lock promises, without topics or maps: a seat has
one holder, a new one only after the old one is gone, and only who was a holder
of that seat number books. `ImplementsReservation` instantiates it with the
holder read off the Redis key and the entitlements off `granted`.

### BookingPayment

One booking and everything that can change its status or that of its payment.

| Module | Code |
|---|---|
| `booking` | `bookings.status` |
| `payments`, `latest` | the rows of `payments` with status and payment intent, and which of them `ORDER BY updated_at DESC` finds first |
| `stripe`, `rowOf`, `due` | checkout sessions, the payment id in their metadata, webhooks not yet answered; Stripe is external and modelled by what the controller relies on |
| `at`, `job` | the handlers of the payment service that run at a time, between two awaits |
| `bookings`, `event`, `reader`, `failing` | the topic `bookings` and `processBookingEvent` |
| `results`, `announcer`, `seen` | the topic `payments` and `handlePaymentEvent` |
| `byHand` | history: a client set a status of the payment or the booking itself |
| `StartRequest`, `Check`, `Select`, `Insert`, `CreateSession` | `createPayment` and `createStripeCheckoutSession`, with `createOrUpdatePendingPayment` |
| `StartPut` | `updatePaymentStatus` |
| `Deliver` | `handleStripeWebhook` |
| `OpenPage` | `handleStripeSuccess`, `handleStripeCancel` |
| `Resolve`, `Write`, `Confirm`, `Emit` | what all of these do in the end: find the row, update it, confirm the booking and delete the lock, publish |
| `ReadEvent` ... `ReaderFails` | `processBookingEvent` |
| `HandleResult`, `ReadBooking`, `Announce`, `AnnouncerFails` | `handlePaymentEvent`, `confirmBookingIfNotCancelled` |
| `CancelBooking`, `SetBooking` | `DeleteBooking`, `UpdateBookingStatus` |
| `Restart` | a restart of the payment service; that of the booking service is in `HandleResult` and `AnnouncerFails` |

The handlers share the four last actions because the functions behind them do
the same with a session, a row and a status; `job` carries what differs: the
kind of request, the webhook it came with, the session, the row, the status.

`BookingOrder` is what the two services promise about one booking: it is confirmed
for a checkout session that the customer completed, voided by a payment that fails
only while it is not confirmed, and revoked only for a refund. It does not promise
that the completed session is paid: with a delayed method it may never be, and the
webhook does not look (section 6). What the code excepts from the rest are a
parameter and an action of it: cancellations by the customer (`Cancellable`) and
statuses set by hand (`Override`). `ImplementsOrder` instantiates it with the status
of the booking and with the sessions that are completed and refunded read off
`stripe`. It says nothing of the rows of `payments`: what may be written there is
`RecordsBacked`. That a completed row stays completed is not so (`CompletedStays`,
section 6).

Two clauses are about the build rather than the text. `InsertRow` may leave the
latest row the latest, because `updated_at` is the start of the inserting
transaction. `Offered` lets events of one booking overtake each other
("partitions"): the booking service's writer balances by load and the payment
service keys by event type, so neither keeps one booking in one partition.

### PaymentConnection

An asynchronous JavaScript function runs at once to its next `await`; what waits
there is a call, and an action ends the wait of one call.

| Module | Code |
|---|---|
| `isConnecting` ... `isProducerConnected`, `reconnectTimer` | the variables of `payment-service/src/config/kafka.js` with these names |
| `calls` | how many calls wait in `connectConsumer` (for `connect`, `subscribe` or the `disconnect` after a failure), in `startMessageLoop` (for `run` or the `disconnect` after it) and in `disconnectConsumer` of the shutdown |
| `at` | where each `publishPaymentEvent`, and the first `connectProducer`, is |
| `shutdown` | where the handler of SIGTERM in `index.js` is |
| `failures` | bound of the connections and loops that fail |
| `connectFailed`, `refused`, `overlapped`, `skipped` | history: what has gone wrong so far, and the events that were not published |

`scheduleReconnect` looks at the flags as they are when it is called: this is
why a first connection that fails is final (section 6) and a message loop that
stops is not. A crash inside kafkajs after a successful start is not reported to
this code and is left out.

### EventInventory

One event: its row, the answers about it in Redis, the bookings of it.

| Module | Code |
|---|---|
| `row`, `born` | the row of `events`, reduced to the two numbers of tickets and the owner |
| `cache` | `events:all`, `events:<id>`, a page of `events:upcoming`, `events:user:<id>` |
| `at`, `seen`, `key`, `patch`, `todo` | the handlers and the consumer between two commands |
| `booked`, `sent` | the bookings made and the publications of `payment.completed` |
| `inbox`, `resolved`, `taken` | the messages that are not handled, those handled in a batch not committed, the one in hand |
| `deducted`, `givenUp`, `lapsed`, `takenOff`, `adrift` | history: what was subtracted, what was given up, what stays stale with a cause, when a number was set by a client or overwritten |
| `Get`, `Select`, `Fill`, `NotFound` | `getAllEvents`, `getUpcomingEvents`, `getEventsByUserId`, `getEventById` |
| `Create`, `ReadForUpdate`, `Update`, `Delete` | `createEvent`, `updateEvent`, `deleteEvent` |
| `Sweep`, `FindPages`, `DeletePages` | the DEL commands and `invalidateUpcomingCaches` |
| `Book`, `Send` | `checkAvailability`, and what the other services do with its answer |
| `FetchBooking`, `Reduce`, `Finish`, `Commit` | the consumer, `reduceTicketsByBooking`, the end of a handler and of a batch |
| `Expire`, `Restart` | the TTLs, a restart of the service |

### Notification

| Module | Code |
|---|---|
| `log`, `queue` | the topics of the other services and the topic of each channel |
| `rdone`, `rat`, `rtries`, `rnext` | the router: its offset, where `eachMessage` is, the attempt to get the users, the next notification to publish |
| `wdone`, `wat`, `wtries` | the same of the worker of each channel; "late" is a worker that commits after it has waited for an attempt |
| `delivered`, `dead` | `deliveryLog`, the dead-letter topics |
| `accepted`, `misreported` | history: what the providers accepted, and what they then reported as failed |
| `Route`, `Resolve`, `ResolveFails`, `SendNotification`, `CommitRouted` | `workers/router.js` |
| `Take`, `Deliver`, `DeadLetter`, `CommitWork` | `workers/channelWorker.js` |
| `Restart` | a restart of the service: offsets stay, memory does not |

Whom a message concerns and which channels its type goes to are the constants
`TargetsOf` and `ChannelsOf`: `buildTargets`, the preferences and the templates
compute them from the message alone. `Unaddressed` are the messages whose payload has
no e-mail, telephone or device: every attempt for them throws
(`channelWorker.js:53`).

A worker waits 30 s or more before it tries again and sends no heartbeat meanwhile
(`channelWorker.js:98`), so that its group has dropped it when it commits. The model
takes the default session of kafkajs, 30 s, at its word: a commit after an attempt
that was repeated ("late"), which every dead letter is, always fails, and the
message comes again, as often as it takes. Only a first attempt that the provider
accepts, or a key that `deliveryLog` knows, is committed. These failures are not
counted by `MaxFaults`.

### UserSession

| Module | Code |
|---|---|
| `users`, `given` | the table `users`, reduced to address, password, role and refresh token, and the ids the sequence has given out |
| `at`, `who`, `ent`, `patch`, `want`, `asked` | the handlers between two commands: the entity in hand, the columns its UPDATE writes, what its request asks for |
| `handed`, `issued` | the refresh tokens and the access tokens clients were answered |
| `minted`, `doubled`, `ended`, `wanted`, `overtaken`, `lost` | history |
| `Loaded`, `Saves`, `Changed`, `Free` | the repository: `select: false` columns, the two commands of TypeORM's `save`, the unique constraint |
| `Register`, `Insert`, `UpdateUser`, `DeleteUser` | accounts |
| `Login`, `GoogleLogin`, `CreateSession`, `Refresh`, `Logout` | sessions |
| `Select`, `Update`, `Revive` | what `save` does: look the row up, write the columns that differ, or insert a row that is gone |
| `Fail` | a command fails, or the service restarts |

## 4. What the runs check

| Run | Instance | Question |
|---|---|---|
| `lock_race` | 3 calls (a client, its retry, a rival), 2 instances; crashes, Kafka, database, expiry | types; no answer without a lock; one owner until a lock goes; no takeover; the implementation of `SeatReservation` |
| `lock_owner` | 4 calls on the same seat number of 2 events, the one instance docker-compose starts; Kafka, expiry, payments | the holder of a lock who retries is not told that the seat is taken; one owner until a lock goes, also beside a session that crosses the events |
| `lock_answered` | 2 calls on 2 instances; Redis and Kafka fail, restarts, locks expire, payments; fairness | no answer without a lock; every call ends, every request that is not lost is answered, refusals have a cause |
| `pay_race` | 2 handlers, 1 session; declines, expiry, pages, repeated webhooks, HTTP, Redis, Kafka and database failures | only what was paid is recorded; a late failure takes no confirmation back; the implementation of `BookingOrder`, hence nothing unpaid is confirmed |
| `pay_cancel` | 1 handler, topics of 2; cancellations, refunds, delayed methods, restarts, reordering | only a completed checkout is recorded and confirms; the implementation of `BookingOrder` with refunds and cancellations |
| `pay_manual` | 1 handler; statuses set by clients | types |
| `pay_kafka_lost` | 1 handler; Kafka and Redis fail, declines, expiry, delayed methods, repeated webhooks; fairness | a paid booking is confirmed in the end and stays so |
| `payment_connection` | 3 publications, 3 failures of a connection or a loop, a shutdown at any time; fairness | but for the disconnect of the shutdown, the consumer is used once at a time; it rests, and events are skipped, only with a cause; the loop comes back |
| `event_inventory` | 2 requests and the consumer, 1 booking; Redis, database and HTTP failures, a restart | tickets within bounds and accounted for; a paid booking is not lost and subtracted once for each delivery; stale answers have a cause |
| `notification` | 2 messages of 4 kinds (for all users, for one, without an address, not JSON), 1 channel, 1 restart, 1 failed request, late commits; fairness | nothing is committed before it is passed on or accepted; a second delivery has a cause; what does not stand behind a message that can never be committed is announced in the end |
| `user_session` | 2 requests at a time, 6 in all, 2 accounts, 2 seconds | addresses are unique; ended sessions stay ended; what was answered stands unless an overlapping request is named |
| `seat_resold` | | a statement of the repository that does not hold, see section 6 |

**Bounds.** The seat lock has no counter: three calls are a client, its retry
and a rival, which is every role a call can have towards another one for one seat;
the fourth of `lock_owner` is the same session at another event. Two
instances are "the own" and "another one". `MaxQueue` bounds a topic; with 1,
a publication waits until the consumer has taken the one before, which hides no
loss (that is "kafka") and no order (that is "partitions", checked with 2).
Two handlers interleave any two of a checkout, a page, two webhooks; with three
or with two sessions the state space is beyond a few minutes, and the properties
concerned are proved for every number of them (section 5). Each run
takes the faults its question is about: all together they multiply.

`EventInventory`: two requests and the consumer are any three of a reader that
fills, an update that overwrites and a reduction; one PUT body takes the owner
away and sets a number, the other has neither (a new title), so that what an update
overwrites and which list it clears differ. One booking is enough for two deliveries of
it, since a restart repeats one. `MaxSends` bounds publications and is 1: two of them
are beyond five minutes, and `DeductedOncePerDelivery` is proved for every number.
`Totals` includes zero, which validation refuses. An instance with three bodies (no owner; a new
number; a new total and number) passes too, with 4 137 337 states. `Notification`: two messages are
one behind another; one has two notifications, so that a failure can come between
them; each retry loop has two rounds, one that repeats and one that gives up.
`UserSession`: two requests are the one
that is overtaken and the other; six in all are enough for two accounts that log
in and are then changed, logged out or deleted beside each other; seven pass too,
with 4 348 091 states. `PaymentConnection`: three failures are one for each of the
consumer's connection, its loop and the producer, in any order; three publications
are one that connects, one beside it and one after it.

**Deadlock** is checked for the payment and the event models, whose handlers can
always take another request. The seat lock model stops when its finitely many
calls ended, the user model when its requests are used up, the notification model
when all messages are worked on, the connection model after the shutdown.

**Fairness.** `SeatLock`: weak fairness of each handler and of each consumer,
which are goroutines that sleep at most on a ticker, and of each key's expiry,
since every key is set with a TTL. `BookingPayment`: weak fairness of each
handler (Node.js runs every callback), of both consumers (they poll for ever),
strong fairness of each webhook's delivery (Stripe repeats it until it is
answered with 2xx, and a handler that is busy now is free again) and of the
booking service being found again by a request that is repeated. No fairness is
assumed of customers, of new requests, or of any fault. `Notification`: weak
fairness of the router and of each worker (kafkajs fetches for ever and Node.js
runs every callback), and strong fairness of getting the users, i.e. the user
service answers now and then, and of a provider accepting: one that is asked again and
again accepts. `PaymentConnection`: weak fairness of every call
that waits (each `await` there ends, with a result or an error) and of the timer,
as long as the process lives.
`RequestsAnswered` relies on the expiry only where a lock is to go away.

**What the runs do not reach**: `ConfirmedStays` is stated for environments
without cancellations, refunds and hand-set statuses, each of which changes a
confirmed booking by design. `OneOwnerUntilFreed` says nothing about a seat
whose lock went, be it by its TTL, a payment or the `DeleteLock` of a failed
insertion: the code does not either, see `seat_resold`. `PaidIsConfirmed` is stated
for HTTP that does not fail while Kafka does; with both it does not hold (section 6).
Some properties name what they except in a history variable: `adrift`, `lapsed` and
`givenUp` of `EventInventory`, `lost` of `UserSession`, `connectFailed` of
`PaymentConnection`, `Crossed` of `SeatLock`. They show that nothing else goes wrong in
that way; that what they name does go wrong is section 6.

## 5. What is proved

All theorems hold for every set of calls, clients, instances, handlers and
sessions, every topic bound and every `Allowed`, under the assumptions named
in the modules: `ConstantsAssumption` (the constants have their types) and
`NoLockAssumption` (`NoLock` is not a lock).

**SeatLockProofs.** `LockInv` strengthens the properties to something every step
keeps: whatever says "ok" about an idempotency key, be it the value in Redis, a
consumer about to answer, an entry of a map or a handler that was told, rests on a
lock acquired under that key (`RedisInv`, `ConsumerInv`, `AnswerInv`), and a seat
key holds each lock it was given until one is removed from it (`HeldUntilFreed`).
From it follow `GrantsBacked`, `OneOwner`, `LockNotTakenOver` and `Implementation`,
none of them with a hypothesis. A booking rests on a lock granted under its
idempotency key; if that is not the lock of its own seat it is one of another event
(`Crossed`), which `OneOwner` names as its exception and section 6 describes.
`RefusalsHaveCause` has none either: the consumer learns that a seat is taken from a
lock, and `granted` keeps every lock there was. `OwnerIsNotRefused` assumes one
instance, a Redis that answers and no restart. Its invariant, `OwnerInv`, says that
a lock that is held is under its idempotency key or the consumer is about to set
that key, and that a consumer at work on a request knows of a lock held under the
request's own key: two instances, a lost reply or a restart between the two commands
break it, and the property with it.

**BookingPaymentProofs.** `IInv` follows a completed payment backwards. A
webhook to deliver reports what happened to its session (`DueBacked`). A
handler works with a status its session justifies and, when it writes, on the
row of that session; whoever confirms or publishes a completed payment knows of
a completed session or of a client who said so (`WorkBacked`). A row's payment
intent is a session opened for that row (`IntentsFit`), which a refund relies
on. The booking, the events published and the rows then are what they should be
(`ConfirmedKnown`, `ResultsKnown`, `RecordsBacked`). `GrowsStep` shows that none
of the grounds is ever lost: a session that was opened, completed or refunded remains
so for the same row. `WhoChanges` lists for each variable the actions that
change it, so that each conjunct is proved against those only. The results are
`TypeCorrect`, `ConfirmedOnlyForCheckout` and `RecordsOnlyIfBacked`. They hold for
every environment, delayed payment methods included, because they speak of what the
code looks at, the completion of a session, and not of the money; section 6 says what
that leaves open.

`RefundInv` follows a refund backwards in the same way: who publishes one has
stored it, for a session that was refunded or by hand, so that the UPDATE of the
booking service cancels a confirmed booking only after a refund that was made. From
it follow `ConfirmedLeftForCause`, which has no hypothesis and names each cause for
which a booking stops being confirmed, and the step of `Implementation`, the
refinement of `BookingOrder` for every environment: `WhoOrders` says which
actions concern the booking, the completed sessions and the refunds at all, `StatusOrders`
what they make of the status. `ConfirmedStaysConfirmed` removes the causes: without
cancellations, refunds and hand-set statuses (`QuietInv`: then only checkouts and plain POSTs
are requested, which store nothing but 'pending') a confirmed booking stays so.

**PaymentConnectionProofs.** Where the one call that connects or runs the consumer
waits determines the flags and the timer (`FlagsAgree`): this is what makes `OneUse`
inductive, since a timer is only set when no call is left and its checks are those
of the flags. `ShutdownFlag` adds that the shutdown disconnects once, with its flag
set, by which no timer is set any more. `SomeoneConnects` and `ChecksKnown` say of the producer that its flag
is set only while a call connects it and that whoever finds it unconnected knows
why; from them follows `SkippedHasCause`. Results: `TypeCorrect`,
`UsesConsumerOnce`, `OfflineOnlyWithCause`, `SkippedOnlyWithCause`.

**EventInventoryProofs.** What an update is about to write has passed the checks
(`WritesAcceptable`), on which `WithinTotal` rests. An id that was not given out
has no row, nothing taken off and no answer of its own (`Unborn`), with which
`TicketsAccounted` starts when the event is created. Only a process that deletes
keys has keys left to delete (`TodoFits`), so that a key leaves `todo` only when it
is deleted or `lapsed`, which is `StaleHasCause`. The consumer works on a message
of the inbox and, when it deletes keys, has taken the tickets off
(`ConsumerBusy`), which `PaidIsNotLost` needs when the message is finished.
`Deliveries` counts: a message is held once, and each of its deliveries, of which
there are at most `sent * (1 + restarts)`, takes tickets off once. Results: `TypeCorrect`,
`TicketsWithinTotal`, `TicketsAreAccounted`, `PaidNotLost`,
`DeductedOncePerDelivery`, `StaleOnlyWithCause`.

**NotificationProofs.** The topics are only appended to (`TopicsGrow`), so what was
published stays published. `SentSoFar` says that the router has published all it
has gone past of the message in hand, which makes `RoutedIsPublished` inductive.
`WorkersKnow` says that a worker about to commit in time holds a notification a
provider accepted, and that one about to deliver holds one the log does not know; a
worker that is late commits nothing; a key carries
its channel, so that the workers of other channels do not disturb it.
`AcceptedCounted` sharpens `DeliveriesHaveCause` by whether the log still knows the
key. Results: `TypeCorrect`, `RoutedArePublished`, `WorkedAreDone`,
`DeliveriesOnlyWithCause`.

**UserSessionProofs.** Three invariants, each on top of the one before. `TypedInv`
says that a row has an id that was given out and that the entity in a handler's hand
is complete enough for what it is about to do; with the constraint that INSERT and
UPDATE check (`Free`), it gives `AddressesUnique`: the lookups before them do not
matter. `TokenInv` says where a refresh token can be: in the row of its account,
ended, in the hands of a logout, or on its way into a row after it was signed, and
that one signed only once is nowhere else while it is on its way (`FreshInv`). Without
that, a save could bring an ended token back; with it, `LogoutStands` holds, though
entities are saved that were read before the token ended. `CurrentInv` says
what a handler knows of its row: unless it counts as overtaken, the row is as it
was read, so that what it writes is what its request asks for and nothing else
(`Agree`). From it follow `ChangesHold` and `SessionsStand`. The results are those,
with `TypeCorrect`.

All the inductive invariants were model-checked on small instances before they
were proved.

**Only model-checked**: the liveness properties (`CallsEnd`,
`RequestsAnswered`, `PaidIsConfirmed`, `LoopComesBack`, `EventuallyNotified`),
since the prover treats neither fairness nor `ENABLED`. Every other property of a
passing run is the conclusion of a theorem: under the hypotheses named above for
`OwnerNotRefused` and `ConfirmedStays`, for every instance of the model the others.

## 6. Where the code and its documentation disagree

One of these has a run that ends in a counterexample, listed with its quotes under
`findings` in `PROJECT.json`:

1. `seat_resold`: a paid seat can be locked, booked and paid again
   (`paymentController.js:167`).

Seven have a configuration that ends in one, kept beside the runs:

2. `MCSeatLockCross.cfg`: a session token used for the same seat number of two
   events books the second without a lock (`lock/seatlock.go:462`).
3. `MCBookingPaymentDeclined.cfg`: a declined card, then a paid one and one failing
   HTTP call leave a paid booking cancelled (`kafka/consumer.go:109`).
4. `MCBookingPaymentAnnounced.cfg`: `booking.confirmed` is published for a
   cancelled booking (`kafka/consumer.go:126`).
5. `MCBookingPaymentMarkedFailed.cfg`: a completed payment is marked as failed
   (`payment-service/src/config/kafka.js:85`; the same at
   `paymentController.js:177` and `:202`, with two requests that overlap).
6. `MCBookingPaymentReset.cfg`: a `POST /payments` with no status, which is 'pending'
   then (`paymentController.js:256`, `:286-294`), makes a completed payment pending
   again, with no overlap. So does the 'pending' that `createStripeCheckoutSession`
   stores after it waited for Stripe (`paymentController.js:460`), though the route
   documents 409 "Payment already completed" (`paymentRoutes.js:230`).
7. `MCBookingPaymentDelayed.cfg`: with a delayed payment method
   `checkout.session.completed` comes before the money (`paymentController.js:585`):
   the webhook does not look at `payment_status`, which the success page does
   (`paymentController.js:509`). The booking is confirmed, and stays so if the
   payment fails.
8. `MCPaymentConnectionShutdown.cfg`: the `disconnect` of the shutdown
   (`payment-service/src/config/kafka.js:160`) does not wait for a `connect`,
   `subscribe`, `run` or `disconnect` that is under way.

Further ones that `MCBookingPayment` shows with other constants, some with an
invariant written for the purpose:

9. A booking that is cancelled while its checkout is open is confirmed again by
   the HTTP request of the payment service, which has no guard
   (`paymentController.js:72`), though a checkout says "Cannot pay for a
   cancelled booking" (`paymentController.js:402`). `Allowed = {"cancel"}`.
10. Two checkout sessions of one booking can both be charged: the check for a
    completed payment is made when a session is opened
    (`paymentController.js:421`), not when it is paid.
11. Two first requests insert two rows: `SELECT ... FOR UPDATE` locks nothing
    while there is no row (`paymentService.js:118`), though the route documents
    "Create or sync a payment record for a booking" (`paymentRoutes.js:327`).
12. A refund delivered before the completion of its session finds no payment
    intent and is dropped (`paymentController.js:600`); the completion then
    confirms the booking for good, though payment status updates are said to
    "confirm or cancel bookings" (README.md:82 of the repository).
13. A `booking.cancelled` whose processing fails is logged and its offset
    committed (`payment-service/src/config/kafka.js:106`): the payment stays
    pending and can still be completed.

What the other modules show of the code, each a cause that their properties name
or an exception they make:

14. Seat lock: a restart, or a lost reply of Redis, between the script and the SET of
    the idempotency key (`lock/seatlock.go:292`, `:304`) leaves a lock its client is
    not told of, and refuses it, until the TTL has passed: this is why
    `OwnerNotRefused` is stated without them. `DeleteLock` after a failed INSERT
    (`handlers/booking.go:174`) deletes the key without looking whose lock it is by then.
15. Connection: the first connection of the consumer, if it fails, is never tried
    again, because `scheduleReconnect` is called while `isConnecting` is still set
    (`kafka.js:148`). It is `connectFailed` in
    `OfflineHasCause` and `LoopComesBack`.
16. Connection: an event that is published while another call connects the
    producer is skipped, not delayed (`kafka.js:203`): `overlapped` in
    `SkippedHasCause`. A message loop may start after the shutdown began.
17. Events: an update that read the event before a payment's reduction writes back
    the tickets it read (`eventController.js:346-383`): `adrift` in
    `TicketsAccounted`.
18. Events: `payment.completed` that is published or delivered twice takes the
    tickets of its booking off twice (`event-service/src/config/kafka.js:57`); a
    booking for which too few are left is already paid, and the error is only
    logged (`eventController.js:480`).
19. Events: an answer read before a write and cached after it, the pages after a
    payment, and the list of an owner set by an overlapping update stay stale until
    they expire: `lapsed` in `StaleHasCause`. An event that is deleted during an
    update of it is answered with 200 and no body (`eventController.js:385`).
20. Notification: a message that is not JSON is never committed and holds up its
    partition (`router.js:93`): the condition of `EventuallyNotified`.
21. Notification: an attempt that is repeated waits longer than the consumer's session
    (`channelWorker.js:6-11`, `:98`), so that the commit after it fails
    (`channelWorker.js:144`) and the message comes again. If a later round finds
    the provider at its first attempt, or an earlier one delivered it, it is committed.
    If no provider ever accepts, as for a message with no destination
    (`channelWorker.js:53`), it never is: it is put into the dead-letter topic in each
    round and blocks its partition for ever. `Reached` in `EventuallyNotified` stops at
    the first such message.
22. Notification: messages with the same type and `eventId` (for instance a second
    `payment.failed` of a booking) count as delivered; the destination of a text
    message is the e-mail address, if there is one (`channelWorker.js:51`).
23. Users: a login, logout or update that overlaps another one writes back what it
    read (`userService.ts:228`), so that a role, an address or a password falls
    back and a newer session is logged out; a login that overlaps a deletion
    inserts the account again. This is `lost` in `ChangesStick` and `HandedStands`.
24. Users: two registrations of one address at a time end in 500 instead of 409
    (`userService.ts:75`); two logins in one second have the same refresh token, so
    that logging one out logs out the other: `doubled` in `LogoutHolds`.

The other way round, `PaidIsConfirmed` also holds with `Allowed = {"http"}`:
a failing HTTP confirmation alone is made up for by the topic.

## 7. What is not modelled

- The TTL watcher of the seat lock (`startTTLWatcher`, `scanExpiringLocks`): it
  announces expired locks and changes none.
- Event service: a consumer that fails to start, or that starts without a committed
  offset; the publication of `event.*`, which is not waited for; the validation of
  fields other than the numbers of tickets; pages with other filters; the COUNT
  query beside a page, whose answer is cached with it.
- User service: profiles and names, the expiry of tokens, the Kafka producer, which
  keeps nothing a handler reads, and the migration, of which only the constraints
  are modelled.
- Notification service: the content of preferences and templates; what a provider
  does with a notification; a consumer that starts without a committed offset.
- kafkajs and TypeORM themselves, beyond what the code relies on; among the former,
  crashes it recovers from without telling the code.
- Prices, currencies, e-mails, names, pagination, logging and the wording of
  errors: no property depends on them.
- Authentication: the middleware checks one request at a time and keeps no
  state; on the routes of the booking service it is commented out
  (`booking-service/main.go:65`), so that any client may set a status, which is
  what "manual" stands for.
- Time: deadlines and TTLs may pass at any moment. That the TTL of an
  idempotency key is longer than that of the lock is kept, as the guard of
  `ExpireIdem`.
- Reads (`GetBookings`, `getPayments`, the profile integrations): they change
  nothing.
- The gateway, Swagger documents, CI and compose files.

## 8. Running

    tlc -workers 2 -config MCSeatLockRace.cfg MCSeatLock
    tlc -workers 2 -config MCBookingPaymentRace.cfg MCBookingPayment
    tlc -workers 2 -config MCPaymentConnection.cfg MCPaymentConnection
    tlc -workers 2 -config MCEventInventory.cfg MCEventInventory
    tlc -workers 2 -config MCNotification.cfg MCNotification
    tlc -workers 2 -config MCUserSession.cfg MCUserSession
    tlapm SeatLockProofs.tla
    tlapm BookingPaymentProofs.tla
    tlapm PaymentConnectionProofs.tla
    tlapm EventInventoryProofs.tla
    tlapm NotificationProofs.tla
    tlapm UserSessionProofs.tla

`PROJECT.json` lists the runs with their properties, the theorems, the hazards
with the properties that watch them, for every definition the lines it models,
and for every property a mutation of the model that breaks it; the mutated
operators stand beside the originals and are marked "Mutant".
