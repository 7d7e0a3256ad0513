--------------------------- MODULE BookingPayment ---------------------------
(***************************************************************************)
(* One booking and its payment: the status of the booking in the booking   *)
(* service (handlers/booking.go, kafka/consumer.go), the rows of the table *)
(* payments (paymentService.js), the requests, redirects and webhooks of   *)
(* paymentController.js, the two Kafka topics between the services, and    *)
(* Stripe as the payment service uses it.                                  *)
(*                                                                         *)
(* Every handler is a Node.js function that lets others run at each await; *)
(* an action is what happens between two of them.                          *)
(***************************************************************************)
EXTENDS Integers, Sequences, FiniteSets

CONSTANTS
    Handlers,   \* the HTTP requests the payment service serves at a time
    Sessions,   \* the Stripe checkout sessions
    NoSession,
    MaxQueue,   \* bound: messages waiting in one topic
    Allowed     \* what the environment may do

\* Customers decline, let a session expire, reload the redirect pages, pay with
\* a delayed method, cancel; Stripe refunds, delivers twice; clients set a status
\* by hand; HTTP calls, Redis, Kafka and the database fail; topics have
\* partitions; the payment service restarts.
EnvironmentKinds ==
    {"decline", "expire", "pages", "delayed", "cancel", "refund", "twice", "manual",
     "http", "redis", "kafka", "db", "partitions", "crash"}

ASSUME ConstantsAssumption ==
    /\ NoSession \notin Sessions
    /\ MaxQueue \in Nat
    /\ Allowed \subseteq EnvironmentKinds

BookingStatuses == {"pending", "confirmed", "cancelled"}
PaymentStatuses == {"pending", "completed", "failed", "refunded"}
SessionStates   == {"none", "open", "processing", "paid", "expired", "lapsed", "refunded"}

\* What the bookings topic and the payments topic carry.
BookingEvents == [type : {"created", "cancelled", "confirmed"}, status : BookingStatuses]
PaymentEvents == {"completed", "failed", "refunded"}   \* EMITTED_PAYMENT_STATUSES

Hooks == {"completed", "expired", "declined", "refunded"}
Rows  == [status : PaymentStatuses, intent : Sessions \union {NoSession}]

\* What a handler works on: the request, the webhook it came with, the Stripe
\* session, the payment row and the status it is going to store.
Jobs == [kind : {"checkout", "post", "put", "stripe"}, hook : Hooks \union {"none"},
         session : Sessions \union {NoSession}, row : Nat, status : PaymentStatuses]

VARIABLES
    booking,    \* the status of the booking
    payments,   \* the rows for the booking, in the order they were inserted
    latest,     \* the row updated last, 0 if there is none
    stripe,     \* the state of each session
    rowOf,      \* the payment row in the metadata of a session
    due,        \* the webhooks Stripe has to deliver
    at,         \* where each handler is
    job,        \* and what it works on
    bookings,   \* the topic bookings, as the payment service has not taken it
    event,      \* the booking event the payment service works on
    reader,     \* where its consumer is
    failing,    \* the row that consumer is going to mark as failed
    results,    \* the topic payments, as the booking service has not taken it
    announcer,  \* where the consumer of the booking service is
    seen,       \* the booking status it has read
    byHand      \* history: a client set a status of the payment or the booking

handlerVars == <<at, job>>
rowVars     == <<payments, latest>>
stripeVars  == <<stripe, rowOf, due>>
readerVars  == <<bookings, event, reader, failing>>
resultVars  == <<results, announcer, seen>>
vars == <<booking, payments, latest, stripe, rowOf, due, at, job, bookings, event,
          reader, failing, results, announcer, seen, byHand>>

NoJob   == [kind |-> "stripe", hook |-> "none", session |-> NoSession, row |-> 0,
            status |-> "pending"]
NoEvent == [type |-> "confirmed", status |-> "pending"]

HandlerSteps == {"idle", "check", "select", "insert", "session", "resolve", "write",
                 "confirm", "emit"}

TypeOK ==
    /\ booking \in BookingStatuses
    /\ payments \in Seq(Rows)
    /\ latest \in 0..Len(payments)
    /\ stripe \in [Sessions -> SessionStates]
    /\ rowOf \in [Sessions -> 0..Len(payments)]
    /\ due \subseteq Hooks \X Sessions
    /\ at \in [Handlers -> HandlerSteps]
    /\ job \in [Handlers -> Jobs]
    /\ \A h \in Handlers : job[h].row \in 0..Len(payments)
    /\ bookings \in Seq(BookingEvents)
    /\ event \in BookingEvents
    /\ reader \in {"idle", "insert", "lookup", "fail", "emit"}
    /\ failing \in 0..Len(payments)
    /\ results \in Seq(PaymentEvents)
    /\ announcer \in {"idle", "read", "publish"}
    /\ seen \in BookingStatuses
    /\ byHand \in BOOLEAN

May(kind) == kind \in Allowed

\* CreateBooking has inserted the booking and published booking.created, or
\* failed to and only logged it.
Init ==
    /\ booking = "pending"
    /\ payments = <<>>
    /\ latest = 0
    /\ stripe = [s \in Sessions |-> "none"]
    /\ rowOf = [s \in Sessions |-> 0]
    /\ due = {}
    /\ at = [h \in Handlers |-> "idle"]
    /\ job = [h \in Handlers |-> NoJob]
    /\ bookings \in {<<[type |-> "created", status |-> "pending"]>>}
                    \union (IF May("kafka") THEN {<<>>} ELSE {})
    /\ event = NoEvent
    /\ reader = "idle"
    /\ failing = 0
    /\ results = <<>>
    /\ announcer = "idle"
    /\ seen = "pending"
    /\ byHand = FALSE

\* Publishing: a failure is logged and the event is lost.
Publish(topic, e) ==
    \/ Len(topic) < MaxQueue /\ topic' = Append(topic, e)
    \/ May("kafka") /\ UNCHANGED topic

\* The events that may be taken next: the first, unless the topic has partitions
\* (the booking service balances by load, the payment service keys by event type).
Offered(topic) == {i \in 1..Len(topic) : i = 1 \/ May("partitions")}

Without(topic, i) == [j \in 1..(Len(topic) - 1) |-> IF j < i THEN topic[j] ELSE topic[j + 1]]

-----------------------------------------------------------------------------
(* The table payments.                                                     *)

UpdateRow(r, status, intent) ==
    /\ payments' = [payments EXCEPT ![r] = [status |-> status, intent |-> intent]]
    /\ latest' = r

\* Mutant: the values of two columns are swapped.
InsertSwapped ==
    /\ payments' = Append(payments, [status |-> "pending_selection", intent |-> NoSession])
    /\ latest' \in {latest, Len(payments) + 1} \ {0}

\* The INSERT of createOrUpdatePendingPayment.  updated_at is the time its
\* transaction began, which may be before the last update of another row.
InsertRow ==
    /\ payments' = Append(payments, [status |-> "pending", intent |-> NoSession])
    /\ latest' \in {latest, Len(payments) + 1} \ {0}

-----------------------------------------------------------------------------
(* Stripe and the customer.                                                *)

StripeStep(s, from, to, hooks) ==
    /\ stripe[s] = from
    /\ stripe' = [stripe EXCEPT ![s] = to]
    /\ due' = due \union (hooks \X {s})
    /\ UNCHANGED <<booking, rowVars, rowOf, handlerVars, readerVars, resultVars, byHand>>

Pay(s) == StripeStep(s, "open", "paid", {"completed"})

\* A delayed payment method: the session is completed before it is paid.
PayLater(s) == May("delayed") /\ StripeStep(s, "open", "processing", {"completed"})
Settle(s)   == StripeStep(s, "processing", "paid", {"completed"})

\* A card is declined, and the customer may try another one in the same session;
\* a session expires, or its delayed payment fails; a charge is refunded.
Decline(s) == May("decline") /\ StripeStep(s, "open", "open", {"declined"})
Expire(s)  == May("expire") /\ StripeStep(s, "open", "expired", {"expired"})
Lapse(s)   == StripeStep(s, "processing", "lapsed", {"declined"})
Refund(s)  == May("refund") /\ StripeStep(s, "paid", "refunded", {"refunded"})

\* The sessions whose payment_status is 'paid', refunded or not.
Charged == {s \in Sessions : stripe[s] \in {"paid", "refunded"}}

\* Those whose status is 'complete': the customer went through with the checkout,
\* though a delayed payment may still be due, or have failed since.
Complete == Charged \union {s \in Sessions : stripe[s] \in {"processing", "lapsed"}}

-----------------------------------------------------------------------------
(* The handlers of the payment service.                                    *)

HandlerAt(h, here) == at[h] = here
HandlerGoes(h, there) == at' = [at EXCEPT ![h] = there]

Starts(h, here, work) ==
    /\ HandlerAt(h, "idle")
    /\ HandlerGoes(h, here)
    /\ job' = [job EXCEPT ![h] = work]

\* The response is sent.
Ends(h) ==
    /\ HandlerGoes(h, "idle")
    /\ job' = [job EXCEPT ![h] = NoJob]

\* The response is an error: Stripe delivers a webhook again.
Fails(h) ==
    /\ Ends(h)
    /\ due' = IF job[h].hook = "none" THEN due
              ELSE due \union {<<job[h].hook, job[h].session>>}

\* POST /booking/:bookingId/checkout-session, and POST / without a status, which
\* is 'pending' then, or with one chosen by hand.
StartRequest(h) ==
    /\ \/ Starts(h, "check", [NoJob EXCEPT !.kind = "checkout"])
       \/ \E status \in PaymentStatuses :
             /\ status = "pending" \/ May("manual")
             /\ Starts(h, "check", [NoJob EXCEPT !.kind = "post", !.status = status])
    /\ UNCHANGED <<booking, rowVars, stripeVars, readerVars, resultVars, byHand>>

\* PUT /:id/status, with any status.
StartPut(h) ==
    /\ May("manual")
    /\ \E r \in DOMAIN payments, status \in PaymentStatuses :
          Starts(h, "write", [NoJob EXCEPT !.kind = "put", !.row = r, !.status = status])
    /\ UNCHANGED <<booking, rowVars, stripeVars, readerVars, resultVars, byHand>>

\* The status handleStripeWebhook stores for a webhook.  It does not look at the
\* payment_status of a completed session.
StatusOf(hook) ==
    CASE hook = "completed" -> "completed"
      [] hook = "refunded"  -> "refunded"
      [] OTHER              -> "failed"

\* handleStripeWebhook.  Stripe may deliver what it delivered already.
Deliver(h, hook, s) ==
    /\ <<hook, s>> \in due
    /\ Starts(h, "resolve", [NoJob EXCEPT !.hook = hook, !.session = s,
                                          !.status = StatusOf(hook)])
    /\ due' \in {due \ {<<hook, s>>}} \union (IF May("twice") THEN {due} ELSE {})
    /\ UNCHANGED <<booking, rowVars, stripe, rowOf, readerVars, resultVars, byHand>>

\* Mutant: the success page trusts the redirect.
OpenPageUnchecked(h) ==
    /\ May("pages")
    /\ \E s \in Sessions, status \in {"completed", "failed"} :
          /\ stripe[s] # "none"
          /\ Starts(h, "resolve", [NoJob EXCEPT !.session = s, !.status = status])
    /\ UNCHANGED <<booking, rowVars, stripeVars, readerVars, resultVars, byHand>>

\* handleStripeSuccess and handleStripeCancel: the customer opens one of the
\* redirect pages of a session, which the handler retrieves from Stripe.
OpenPage(h) ==
    /\ May("pages")
    /\ \E s \in Sessions, page \in {"success", "cancel"} :
          /\ stripe[s] # "none"
          /\ Starts(h, "resolve", [NoJob EXCEPT !.session = s, !.status =
                IF page = "success" /\ s \in Charged THEN "completed" ELSE "failed"])
    /\ UNCHANGED <<booking, rowVars, stripeVars, readerVars, resultVars, byHand>>

\* GET of the booking and of its seat lock, which may be gone.
Check(h) ==
    /\ HandlerAt(h, "check")
    /\ \/ booking # "cancelled" /\ HandlerGoes(h, "select") /\ UNCHANGED job
       \/ Ends(h)
    /\ UNCHANGED <<booking, rowVars, stripeVars, readerVars, resultVars, byHand>>

\* Where createOrUpdatePendingPayment returns to with row r.
HasRow(h, r) ==
    /\ job' = [job EXCEPT ![h].row = r]
    /\ HandlerGoes(h, IF job[h].kind = "post" THEN "write" ELSE "session")

\* SELECT ... FOR UPDATE of the latest row.  If there is one it is locked until
\* the UPDATE, which leaves its status alone; if there is none, nothing is.
Select(h) ==
    /\ HandlerAt(h, "select")
    /\ \/ latest = 0 /\ HandlerGoes(h, "insert") /\ UNCHANGED job
       \/ /\ latest # 0
          /\ IF job[h].kind = "checkout" /\ payments[latest].status = "completed"
             THEN Ends(h)
             ELSE HasRow(h, latest)
    /\ UNCHANGED <<booking, rowVars, stripeVars, readerVars, resultVars, byHand>>

Insert(h) ==
    /\ HandlerAt(h, "insert")
    /\ InsertRow
    /\ HasRow(h, Len(payments) + 1)
    /\ UNCHANGED <<booking, stripeVars, readerVars, resultVars, byHand>>

\* stripe.checkout.sessions.create, then setPaymentStateById as 'pending'.
CreateSession(h) ==
    /\ HandlerAt(h, "session")
    /\ \/ \E s \in Sessions :
            /\ stripe[s] = "none"
            /\ stripe' = [stripe EXCEPT ![s] = "open"]
            /\ rowOf' = [rowOf EXCEPT ![s] = job[h].row]
            /\ HandlerGoes(h, "write")
            /\ UNCHANGED job
       \/ Ends(h) /\ UNCHANGED <<stripe, rowOf>>
    /\ UNCHANGED <<booking, rowVars, due, readerVars, resultVars, byHand>>

\* Mutant: any session stands for the latest payment of its booking.
RowsForBooking(h) == {latest}

\* The row a Stripe session stands for: resolvePaymentFromStripeSession takes it
\* from the metadata, a refund is looked up by the payment intent.
RowsFor(h) ==
    IF job[h].status = "refunded"
    THEN {r \in DOMAIN payments : payments[r].intent = job[h].session}
    ELSE {rowOf[job[h].session]}

\* The reads before the UPDATE: a failure is not stored over a completed payment,
\* a refund of an unknown payment intent is ignored, and for a completed session
\* the booking must be found.
Resolve(h) ==
    /\ HandlerAt(h, "resolve")
    /\ \/ \E r \in RowsFor(h) :
            /\ job[h].status = "failed" => payments[r].status # "completed"
            /\ job' = [job EXCEPT ![h].row = r]
            /\ HandlerGoes(h, "write")
            /\ UNCHANGED due
       \/ /\ job[h].status # "completed"
          /\ \A r \in RowsFor(h) : job[h].status = "failed" /\ payments[r].status = "completed"
          /\ Ends(h)
          /\ UNCHANGED due
       \/ May("http") /\ job[h].status = "completed" /\ Fails(h)
    /\ UNCHANGED <<booking, rowVars, stripe, rowOf, readerVars, resultVars, byHand>>

\* The payment intent the UPDATE stores: that of the session, if it has one yet.
Intents(h) ==
    LET old == payments[job[h].row].intent IN
    IF job[h].kind # "stripe" \/ job[h].status = "refunded" THEN {old}
    ELSE {job[h].session} \union
         (IF job[h].status = "completed" \/ job[h].hook = "declined" THEN {} ELSE {old})

\* Mutant: the booking is confirmed whatever status was stored.
WriteAndConfirm(h) ==
    /\ HandlerAt(h, "write")
    /\ \E intent \in Intents(h) : UpdateRow(job[h].row, job[h].status, intent)
    /\ HandlerGoes(h, "confirm")
    /\ UNCHANGED <<booking, job, stripeVars, readerVars, resultVars, byHand>>

\* UPDATE payments SET status = ...: the status found before is not looked at.
Write(h) ==
    /\ HandlerAt(h, "write")
    /\ \/ /\ \E intent \in Intents(h) : UpdateRow(job[h].row, job[h].status, intent)
          /\ byHand' = (byHand \/ (job[h].kind # "stripe" /\ job[h].status # "pending"))
          /\ CASE job[h].status = "pending"   -> Ends(h)
               [] job[h].status = "completed" -> HandlerGoes(h, "confirm") /\ UNCHANGED job
               [] OTHER                       -> HandlerGoes(h, "emit") /\ UNCHANGED job
          /\ UNCHANGED due
       \/ May("db") /\ Fails(h) /\ UNCHANGED <<rowVars, byHand>>
    /\ UNCHANGED <<booking, stripe, rowOf, readerVars, resultVars>>

\* Mutant: the booking is left to the payments topic.
ConfirmByTopic(h) ==
    /\ HandlerAt(h, "confirm")
    /\ HandlerGoes(h, "emit")
    /\ UNCHANGED <<booking, job, rowVars, stripeVars, readerVars, resultVars, byHand>>

\* syncBookingConfirmation, whose failure is only logged: UpdateBookingStatus has
\* no guard.  Then deleteSeatLock, before which updatePaymentStatus fetches the
\* booking again; a failure of these ends the request.
Confirm(h) ==
    /\ HandlerAt(h, "confirm")
    /\ \/ booking' = "confirmed"
       \/ May("http") /\ UNCHANGED booking
    /\ \/ HandlerGoes(h, "emit") /\ UNCHANGED <<job, due>>
       \/ (May("redis") \/ (May("http") /\ job[h].kind = "put")) /\ Fails(h)
    /\ UNCHANGED <<rowVars, stripe, rowOf, readerVars, resultVars, byHand>>

\* publishPaymentEvent.
Emit(h) ==
    /\ HandlerAt(h, "emit")
    /\ Publish(results, job[h].status)
    /\ Ends(h)
    /\ UNCHANGED <<booking, rowVars, stripeVars, readerVars, announcer, seen, byHand>>

-----------------------------------------------------------------------------
(* The consumer of the payment service: processBookingEvent.               *)

ReaderGoes(there) == reader' = there

\* eachMessage has returned, and swallowed whatever was thrown.
ReaderDone ==
    /\ reader' = "idle"
    /\ event' = NoEvent
    /\ failing' = 0

\* Where processBookingEvent is after its first query.
AfterRead(e) ==
    CASE e.type = "created" /\ latest = 0 -> "insert"
      [] /\ e.type = "cancelled"
         /\ latest # 0
         /\ payments[latest].status \notin {"completed", "refunded"} -> "lookup"
      [] OTHER -> "idle"

\* An event is taken and the latest payment read.  The offset is committed some
\* time later: after a restart an event may come again.
ReadEvent ==
    /\ reader = "idle"
    /\ \E i \in Offered(bookings) :
          /\ \/ bookings' = Without(bookings, i)
             \/ May("crash") /\ UNCHANGED bookings
          /\ ReaderGoes(AfterRead(bookings[i]))
          /\ event' = IF AfterRead(bookings[i]) = "idle" THEN NoEvent ELSE bookings[i]
    /\ UNCHANGED <<booking, rowVars, stripeVars, handlerVars, failing, resultVars, byHand>>

\* booking.created: the INSERT of createOrUpdatePendingPayment.
ReaderInsert ==
    /\ reader = "insert"
    /\ InsertRow
    /\ ReaderDone
    /\ UNCHANGED <<booking, stripeVars, handlerVars, bookings, resultVars, byHand>>

\* booking.cancelled: updatePaymentStatusByBookingId looks for the latest payment
\* a second time ...
ReaderLookup ==
    /\ reader = "lookup"
    /\ failing' = latest
    /\ ReaderGoes("fail")
    /\ UNCHANGED <<booking, rowVars, stripeVars, handlerVars, bookings, event, resultVars, byHand>>

\* ... and marks that one as failed, whatever its status is now.
ReaderFail ==
    /\ reader = "fail"
    /\ UpdateRow(failing, "failed", payments[failing].intent)
    /\ ReaderGoes("emit")
    /\ UNCHANGED <<booking, stripeVars, handlerVars, bookings, event, failing, resultVars, byHand>>

ReaderEmit ==
    /\ reader = "emit"
    /\ Publish(results, "failed")
    /\ ReaderDone
    /\ UNCHANGED <<booking, rowVars, stripeVars, handlerVars, bookings, announcer, seen, byHand>>

\* A query fails: the error is logged and the event is over.
ReaderFails ==
    /\ May("db")
    /\ reader \in {"insert", "lookup", "fail"}
    /\ ReaderDone
    /\ UNCHANGED <<booking, rowVars, stripeVars, handlerVars, bookings, resultVars, byHand>>

-----------------------------------------------------------------------------
(* The consumer of the booking service: handlePaymentEvent.                *)

\* Mutant: cancelBooking for a failed payment too.
HandleFailedAsRefund(result) ==
    CASE result = "completed" -> IF booking = "cancelled" THEN booking ELSE "confirmed"
      [] OTHER                -> "cancelled"

\* The UPDATE of the booking, with its guard on the current status.
StatusAfter(result) ==
    CASE result = "completed" -> IF booking = "cancelled" THEN booking ELSE "confirmed"
      [] result = "failed"    -> IF booking = "confirmed" THEN booking ELSE "cancelled"
      [] result = "refunded"  -> "cancelled"

\* ReadMessage commits before it returns: an event whose UPDATE fails, or that is
\* in hand when the service stops, is lost.
HandleResult ==
    /\ announcer = "idle"
    /\ \E i \in Offered(results) :
          /\ results' = Without(results, i)
          /\ \/ /\ booking' = StatusAfter(results[i])
                /\ announcer' = IF results[i] = "completed" THEN "read" ELSE "idle"
             \/ (May("db") \/ May("crash")) /\ UNCHANGED <<booking, announcer>>
    /\ UNCHANGED <<rowVars, stripeVars, handlerVars, readerVars, seen, byHand>>

\* confirmBookingIfNotCancelled goes on whether or not the UPDATE found the
\* booking to be cancelled: getBookingEventPayload ...
ReadBooking ==
    /\ announcer = "read"
    /\ seen' = booking
    /\ announcer' = "publish"
    /\ UNCHANGED <<booking, rowVars, stripeVars, handlerVars, readerVars, results, byHand>>

\* ... and booking.confirmed with the status that was read.
Announce ==
    /\ announcer = "publish"
    /\ Publish(bookings, [type |-> "confirmed", status |-> seen])
    /\ announcer' = "idle"
    /\ seen' = "pending"
    /\ UNCHANGED <<booking, rowVars, stripeVars, handlerVars, event, reader, failing,
                   results, byHand>>

\* The booking cannot be read, or the service stops: nothing is announced.
AnnouncerFails ==
    /\ \/ May("db") /\ announcer = "read"
       \/ May("crash") /\ announcer # "idle"
    /\ announcer' = "idle"
    /\ seen' = "pending"
    /\ UNCHANGED <<booking, rowVars, stripeVars, handlerVars, readerVars, results, byHand>>

-----------------------------------------------------------------------------
(* The booking service's own requests, and restarts.                       *)

\* DeleteBooking.  It publishes after the UPDATE; the topic delays the event anyway.
CancelBooking ==
    /\ May("cancel")
    /\ booking' = "cancelled"
    /\ Publish(bookings, [type |-> "cancelled", status |-> "cancelled"])
    /\ UNCHANGED <<rowVars, stripeVars, handlerVars, event, reader, failing, resultVars, byHand>>

\* UpdateBookingStatus by a client.
SetBooking ==
    /\ May("manual")
    /\ \E status \in BookingStatuses :
          /\ booking' = status
          /\ byHand' = TRUE
    /\ UNCHANGED <<rowVars, stripeVars, handlerVars, readerVars, resultVars>>

\* The payment service restarts: its requests end without a response, Stripe
\* delivers their webhooks again, and Kafka the event that was not committed.
Restart ==
    /\ May("crash")
    /\ at' = [h \in Handlers |-> "idle"]
    /\ job' = [h \in Handlers |-> NoJob]
    /\ due' = due \union {<<job[h].hook, job[h].session>> :
                            h \in {g \in Handlers : job[g].hook # "none"}}
    /\ \/ reader = "idle" /\ UNCHANGED bookings
       \/ /\ reader # "idle"
          /\ Len(bookings) < MaxQueue
          /\ bookings' = <<event>> \o bookings
    /\ ReaderDone
    /\ UNCHANGED <<booking, rowVars, stripe, rowOf, resultVars, byHand>>

-----------------------------------------------------------------------------
StripeActs(s) ==
    Pay(s) \/ PayLater(s) \/ Settle(s) \/ Lapse(s) \/ Decline(s) \/ Expire(s) \/ Refund(s)

Begin(h) == StartRequest(h) \/ StartPut(h) \/ OpenPage(h)

HandlerStep(h) ==
    \/ Check(h) \/ Select(h) \/ Insert(h) \/ CreateSession(h)
    \/ Resolve(h) \/ Write(h) \/ Confirm(h) \/ Emit(h)

ReaderStep ==
    \/ ReadEvent \/ ReaderInsert \/ ReaderLookup \/ ReaderFail \/ ReaderEmit \/ ReaderFails

AnnouncerStep == HandleResult \/ ReadBooking \/ Announce \/ AnnouncerFails

Next ==
    \/ \E s \in Sessions : StripeActs(s)
    \/ \E h \in Handlers : Begin(h) \/ HandlerStep(h)
    \/ \E h \in Handlers, hook \in Hooks, s \in Sessions : Deliver(h, hook, s)
    \/ ReaderStep
    \/ AnnouncerStep
    \/ CancelBooking
    \/ SetBooking
    \/ Restart

Spec == Init /\ [][Next]_vars

\* Node.js runs every callback, both consumers poll, Stripe delivers a webhook
\* until it is answered, and the booking service does not fail for ever.
Fairness ==
    /\ \A h \in Handlers : WF_vars(HandlerStep(h))
    /\ \A h \in Handlers : SF_vars(Resolve(h) /\ HandlerGoes(h, "write"))
    /\ \A hook \in Hooks, s \in Sessions : SF_vars(\E h \in Handlers : Deliver(h, hook, s))
    /\ WF_vars(ReaderStep)
    /\ WF_vars(AnnouncerStep)

FairSpec == Spec /\ Fairness

-----------------------------------------------------------------------------
(* Properties.                                                             *)

\* A booking is confirmed only if the customer completed a checkout session of it,
\* or a client said so: neither redirect pages nor failures, repetitions or
\* reordered events suffice.
ConfirmedHasCheckout == booking = "confirmed" => Complete # {} \/ byHand

\* A payment is recorded as completed only if a session opened for that very row
\* was completed, and as refunded only if such a session was refunded.
RecordsBacked ==
    byHand \/ \A r \in DOMAIN payments :
        /\ payments[r].status = "completed" => \E s \in Complete : rowOf[s] = r
        /\ payments[r].status = "refunded" =>
              \E s \in Sessions : stripe[s] = "refunded" /\ rowOf[s] = r

\* No booking is confirmed for a delayed payment that is not made yet, or has
\* failed.  It may be: MCBookingPaymentDelayed.cfg.
ConfirmedWasPaid == booking = "confirmed" => Charged # {} \/ byHand

\* Once confirmed, a booking is not cancelled by a failed payment that comes late:
\* a declined card, an expired session, a cancel page, in any order.
ConfirmedStays == [][booking = "confirmed" => booking' = "confirmed"]_booking

\* The two services implement BookingOrder: the sessions completed and refunded
\* are read off Stripe, the status off the booking.  A late failure voids nothing
\* that was confirmed, and a confirmation is revoked only for a refund that was made.
Order == INSTANCE BookingOrder WITH
    status <- booking, complete <- Complete, override <- byHand,
    refunded <- {s \in Sessions : stripe[s] = "refunded"},
    Cancellable <- May("cancel")

ImplementsOrder == Order!Spec

\* The booking of a paid session becomes confirmed and stays so.
PaidIsConfirmed == \A s \in Sessions : stripe[s] = "paid" ~> [](booking = "confirmed")

\* What booking.confirmed announces is confirmed.
AnnouncedIsConfirmed ==
    \A i \in DOMAIN bookings : bookings[i].type = "confirmed" => bookings[i].status = "confirmed"

\* A completed payment stays completed until it is refunded.  It does not: a later
\* POST / stores 'pending', a late failure 'failed' (MCBookingPaymentReset.cfg and
\* MCBookingPaymentMarkedFailed.cfg).
CompletedStays ==
    [][\A r \in DOMAIN payments :
          payments[r].status = "completed" => payments'[r].status \in {"completed", "refunded"}]_payments
=============================================================================
