------------------------ MODULE BookingPaymentProofs ------------------------
(* Proofs about BookingPayment, for all handlers, sessions and environments. *)
EXTENDS BookingPayment, TLAPS

-----------------------------------------------------------------------------
(* Topics and rows.                                                        *)

\* What is left of a topic when one event was taken are events of that topic.
LEMMA WithoutIsSeq ==
    ASSUME NEW S, NEW q \in Seq(S), NEW i \in 1..Len(q)
    PROVE  /\ Without(q, i) \in Seq(S)
           /\ \A j \in DOMAIN Without(q, i) : \E k \in DOMAIN q : Without(q, i)[j] = q[k]
<1> DEFINE w == Without(q, i)
<1>1. Len(q) \in Nat /\ DOMAIN q = 1..Len(q)
    OBVIOUS
<1>2. \A j \in 1..(Len(q) - 1) : j \in 1..Len(q) /\ j + 1 \in 1..Len(q)
    BY <1>1
<1>3. w = [j \in 1..(Len(q) - 1) |-> IF j < i THEN q[j] ELSE q[j + 1]]
    BY DEF Without
<1>4. ASSUME NEW j \in 1..(Len(q) - 1)
      PROVE  w[j] \in S /\ \E k \in DOMAIN q : w[j] = q[k]
    <2>1. w[j] = IF j < i THEN q[j] ELSE q[j + 1]
        BY <1>3
    <2>2. q[j] \in S /\ q[j + 1] \in S
        BY <1>2
    <2> QED
        BY <1>1, <1>2, <2>1, <2>2
<1>5. Len(q) - 1 \in Nat
    BY <1>1
<1>6. w \in Seq(S)
    BY <1>3, <1>4, <1>5
<1> QED
    BY <1>3, <1>4, <1>6

\* An event added at either end belongs to the topic.
LEMMA WithIsSeq ==
    ASSUME NEW S, NEW q \in Seq(S), NEW e \in S
    PROVE  /\ Append(q, e) \in Seq(S)
           /\ <<e>> \o q \in Seq(S)
OBVIOUS

\* An INSERT appends a row.
LEMMA InsertRowType ==
    ASSUME payments \in Seq(Rows), latest \in 0..Len(payments), InsertRow
    PROVE  /\ payments' \in Seq(Rows)
           /\ Len(payments') = Len(payments) + 1
           /\ latest' \in 1..Len(payments')
           /\ \A r \in DOMAIN payments : payments'[r] = payments[r]
           /\ payments'[Len(payments) + 1] = [status |-> "pending", intent |-> NoSession]
BY DEF InsertRow, Rows, PaymentStatuses

\* An UPDATE changes one row, or none.
LEMMA UpdateRowType ==
    ASSUME payments \in Seq(Rows), NEW r \in 0..Len(payments), NEW status, NEW intent,
           UpdateRow(r, status, intent),
           r \in DOMAIN payments =>
              status \in PaymentStatuses /\ intent \in Sessions \union {NoSession}
    PROVE  /\ payments' \in Seq(Rows)
           /\ Len(payments') = Len(payments)
           /\ latest' \in 0..Len(payments')
           /\ \A k \in DOMAIN payments :
                 payments'[k] = IF k = r THEN [status |-> status, intent |-> intent]
                                ELSE payments[k]
<1> DEFINE row == [status |-> status, intent |-> intent]
<1>1. payments' = [payments EXCEPT ![r] = row] /\ latest' = r
    BY DEF UpdateRow
<1>2. CASE r \in DOMAIN payments
    <2>1. row \in Rows
        BY <1>2 DEF Rows
    <2> QED
        BY <1>1, <1>2, <2>1
<1>3. CASE r \notin DOMAIN payments
    <2>1. payments' = payments
        BY <1>1, <1>3
    <2> QED
        BY <1>1, <1>3, <2>1
<1> QED
    BY <1>2, <1>3

-----------------------------------------------------------------------------
(* Types.                                                                  *)

\* Whoever works on a webhook or a redirect page works on a session, and only a
\* status that was stored is confirmed or published.
Fits(h) ==
    /\ job[h].hook # "none" \/ at[h] = "resolve" => job[h].session \in Sessions
    /\ at[h] = "confirm" => job[h].status = "completed"
    /\ at[h] = "emit" => job[h].status \in PaymentEvents

WorkFits == \A h \in Handlers : Fits(h)

\* No job, no event and the status of a webhook are of their types.
LEMMA ConstantTypes ==
    /\ NoJob \in Jobs /\ NoJob.row = 0 /\ NoJob.hook = "none"
    /\ NoEvent \in BookingEvents
    /\ \A hook \in Hooks : StatusOf(hook) \in PaymentStatuses
<1>1. NoJob \in Jobs /\ NoJob.row = 0 /\ NoJob.hook = "none"
    BY DEF NoJob, Jobs, PaymentStatuses
<1>2. NoEvent \in BookingEvents
    BY DEF NoEvent, BookingEvents, BookingStatuses
<1>3. \A hook \in Hooks : StatusOf(hook) \in PaymentStatuses
    BY DEF Hooks, PaymentStatuses, StatusOf
<1> QED
    BY <1>1, <1>2, <1>3

HandlersType ==
    /\ at \in [Handlers -> HandlerSteps]
    /\ job \in [Handlers -> Jobs]
    /\ \A h \in Handlers : job[h].row \in 0..Len(payments)

\* Beginning and ending a job keep the handlers in their types.
LEMMA StartsType ==
    ASSUME HandlersType, NEW h \in Handlers, NEW here \in HandlerSteps, NEW work \in Jobs,
           work.row \in 0..Len(payments), Starts(h, here, work), UNCHANGED payments
    PROVE  HandlersType'
BY DEF HandlersType, Starts, HandlerGoes

LEMMA EndsType ==
    ASSUME HandlersType, payments \in Seq(Rows), NEW h \in Handlers, Ends(h), UNCHANGED payments
    PROVE  HandlersType'
BY ConstantTypes DEF HandlersType, Ends, HandlerGoes, HandlerSteps

\* A handler goes on with the row r.
LEMMA HasRowType ==
    ASSUME HandlersType, payments \in Seq(Rows), NEW h \in Handlers, NEW r \in 0..Len(payments'),
           payments' \in Seq(Rows), Len(payments) <= Len(payments'),
           NEW there \in HandlerSteps, HandlerGoes(h, there), job' = [job EXCEPT ![h].row = r]
    PROVE  HandlersType'
<1>1. job' \in [Handlers -> Jobs] /\ \A g \in Handlers : job'[g].row = IF g = h THEN r ELSE job[g].row
    <2> DEFINE work == [job[h] EXCEPT !.row = r]
    <2>1. job[h] \in Jobs /\ r \in Nat
        BY DEF HandlersType
    <2>2. work \in Jobs /\ work.row = r
        BY <2>1 DEF Jobs
    <2>3. job' = [job EXCEPT ![h] = work]
        OBVIOUS
    <2> HIDE DEF work
    <2> QED
        BY <2>2, <2>3 DEF HandlersType
<1> QED
    BY <1>1 DEF HandlersType, HandlerGoes

\* An error gives a webhook back to Stripe.
LEMMA FailsType ==
    ASSUME TypeOK, WorkFits, NEW h \in Handlers, Fails(h)
    PROVE  due' \subseteq Hooks \X Sessions
BY DEF TypeOK, WorkFits, Fits, Fails, Jobs

\* Every step keeps the variables in their types.
LEMMA TypeStep == TypeOK /\ WorkFits /\ [Next]_vars => TypeOK'
<1> SUFFICES ASSUME TypeOK, WorkFits, [Next]_vars PROVE TypeOK'
    OBVIOUS
<1> DEFINE Others == /\ booking \in BookingStatuses
                     /\ payments \in Seq(Rows)
                     /\ latest \in 0..Len(payments)
                     /\ stripe \in [Sessions -> SessionStates]
                     /\ rowOf \in [Sessions -> 0..Len(payments)]
                     /\ due \subseteq Hooks \X Sessions
                     /\ bookings \in Seq(BookingEvents)
                     /\ event \in BookingEvents
                     /\ reader \in {"idle", "insert", "lookup", "fail", "emit"}
                     /\ failing \in 0..Len(payments)
                     /\ results \in Seq(PaymentEvents)
                     /\ announcer \in {"idle", "read", "publish"}
                     /\ seen \in BookingStatuses
                     /\ byHand \in BOOLEAN
<1>a. Others /\ HandlersType
    BY DEF TypeOK, HandlersType
<1>b. Others' /\ HandlersType' => TypeOK'
    BY DEF TypeOK, HandlersType
<1> USE DEF rowVars, stripeVars, handlerVars, readerVars, resultVars
<1>1. ASSUME NEW s \in Sessions, StripeActs(s) PROVE TypeOK'
    <2>1. PICK from, to, hooks : StripeStep(s, from, to, hooks) /\ to \in SessionStates /\ hooks \subseteq Hooks
        BY <1>1 DEF StripeActs, Pay, PayLater, Settle, Lapse, Decline, Expire, Refund, SessionStates, Hooks
    <2>2. Others'
        BY <1>a, <2>1 DEF StripeStep
    <2>3. HandlersType'
        BY <1>a, <2>1 DEF StripeStep, HandlersType
    <2> QED
        BY <1>b, <2>2, <2>3
<1>2. ASSUME NEW h \in Handlers, Begin(h) PROVE TypeOK'
    <2>1. CASE StartRequest(h)
        <3>1. PICK work \in Jobs : work.row = 0 /\ Starts(h, "check", work)
            BY <2>1, ConstantTypes DEF StartRequest, NoJob, Jobs
        <3>2. UNCHANGED payments /\ "check" \in HandlerSteps /\ 0 \in 0..Len(payments)
            <4>1. UNCHANGED rowVars
                BY <2>1, Zenon DEF StartRequest
            <4> QED
                BY <1>a, <4>1 DEF HandlerSteps
        <3>3. HandlersType'
            BY <1>a, <3>1, <3>2, StartsType
        <3> QED
            BY <1>a, <1>b, <2>1, <3>3 DEF StartRequest
    <2>2. CASE StartPut(h)
        <3>1. PICK r \in DOMAIN payments, status \in PaymentStatuses :
                 Starts(h, "write", [NoJob EXCEPT !.kind = "put", !.row = r, !.status = status])
            BY <2>2 DEF StartPut
        <3> DEFINE work == [NoJob EXCEPT !.kind = "put", !.row = r, !.status = status]
        <3>2. r \in 0..Len(payments) /\ r \in Nat
            BY <1>a
        <3>3. work \in Jobs /\ work.row = r
            BY <3>2, ConstantTypes DEF NoJob, Jobs
        <3> QED
            BY <1>a, <1>b, <2>2, <3>1, <3>2, <3>3, StartsType DEF StartPut, HandlerSteps
    <2>3. CASE OpenPage(h)
        <3>1. PICK work \in Jobs : work.row = 0 /\ Starts(h, "resolve", work)
            BY <2>3, ConstantTypes DEF OpenPage, NoJob, Jobs, PaymentStatuses
        <3> QED
            BY <1>a, <1>b, <2>3, <3>1, StartsType DEF OpenPage, HandlerSteps
    <2> QED
        BY <1>2, <2>1, <2>2, <2>3 DEF Begin
<1>3. ASSUME NEW h \in Handlers, NEW hook \in Hooks, NEW s \in Sessions, Deliver(h, hook, s)
      PROVE  TypeOK'
    <2> DEFINE work == [NoJob EXCEPT !.hook = hook, !.session = s, !.status = StatusOf(hook)]
    <2>1. work \in Jobs /\ work.row = 0
        BY ConstantTypes DEF NoJob, Jobs
    <2>a. /\ UNCHANGED payments /\ Starts(h, "resolve", work)
          /\ "resolve" \in HandlerSteps /\ 0 \in 0..Len(payments)
        BY <1>3, <1>a DEF Deliver, HandlerSteps
    <2>2. HandlersType'
        BY <1>a, <2>1, <2>a, StartsType
    <2>3. Others'
        BY <1>3, <1>a DEF Deliver
    <2> QED
        BY <1>b, <2>2, <2>3
<1>4. ASSUME NEW h \in Handlers, HandlerStep(h) PROVE TypeOK'
    <2>1. CASE Check(h)
        <3>1. HandlersType'
            BY <2>1, <1>a, EndsType DEF Check, HandlersType, HandlerGoes, HandlerSteps
        <3> QED
            BY <1>a, <1>b, <2>1, <3>1 DEF Check
    <2>2. CASE Select(h)
        <3>1. CASE HandlerGoes(h, "insert") /\ UNCHANGED job
            BY <1>a, <1>b, <2>2, <3>1 DEF Select, HandlersType, HandlerGoes, HandlerSteps
        <3>2. CASE Ends(h)
            BY <1>a, <1>b, <2>2, <3>2, EndsType DEF Select
        <3>3. CASE HasRow(h, latest)
            <4>1. UNCHANGED payments
                BY <2>2 DEF Select
            <4>2. PICK there \in HandlerSteps : HandlerGoes(h, there)
                BY <3>3 DEF HasRow, HandlerSteps
            <4>3. /\ payments' \in Seq(Rows) /\ Len(payments) <= Len(payments')
                  /\ latest \in 0..Len(payments') /\ job' = [job EXCEPT ![h].row = latest]
                BY <1>a, <3>3, <4>1 DEF HasRow
            <4>4. HandlersType'
                BY <1>a, <4>2, <4>3, HasRowType
            <4> QED
                BY <1>a, <1>b, <2>2, <4>4 DEF Select
        <3> QED
            BY <2>2, <3>1, <3>2, <3>3 DEF Select
    <2>3. CASE Insert(h)
        <3>1. /\ payments' \in Seq(Rows) /\ Len(payments') = Len(payments) + 1
              /\ latest' \in 1..Len(payments')
            BY <1>a, <2>3, InsertRowType DEF Insert
        <3>2. PICK there \in HandlerSteps : HandlerGoes(h, there)
            BY <2>3 DEF Insert, HasRow, HandlerSteps
        <3>a. /\ Len(payments) <= Len(payments') /\ Len(payments) + 1 \in 0..Len(payments')
              /\ job' = [job EXCEPT ![h].row = Len(payments) + 1]
            BY <1>a, <2>3, <3>1 DEF Insert, HasRow
        <3>3. HandlersType'
            BY <1>a, <3>1, <3>2, <3>a, HasRowType
        <3>4. Others'
            <4>1. \A n \in 0..Len(payments) : n \in 0..Len(payments')
                BY <1>a, <3>1
            <4> QED
                BY <1>a, <2>3, <3>1, <4>1 DEF Insert
        <3> QED
            BY <1>b, <3>3, <3>4
    <2>4. CASE CreateSession(h)
        <3>1. HandlersType'
            BY <1>a, <2>4, EndsType DEF CreateSession, HandlersType, HandlerGoes, HandlerSteps
        <3>2. Others'
            BY <1>a, <2>4 DEF CreateSession, HandlersType, SessionStates
        <3> QED
            BY <1>b, <3>1, <3>2
    <2>5. CASE Resolve(h)
        <3>1. due' \subseteq Hooks \X Sessions
            BY <1>a, <2>5, FailsType DEF Resolve
        <3>2. HandlersType'
            <4>1. CASE \E r \in RowsFor(h) : job' = [job EXCEPT ![h].row = r] /\ HandlerGoes(h, "write")
                <5>1. job[h].session \in Sessions
                    BY <2>5 DEF Resolve, HandlerAt, WorkFits, Fits
                <5>2. RowsFor(h) \subseteq 0..Len(payments)
                    BY <1>a, <5>1 DEF RowsFor
                <5>3. PICK r \in RowsFor(h) : job' = [job EXCEPT ![h].row = r] /\ HandlerGoes(h, "write")
                    BY <4>1
                <5>4. /\ payments' \in Seq(Rows) /\ Len(payments) <= Len(payments')
                      /\ r \in 0..Len(payments') /\ "write" \in HandlerSteps
                    BY <1>a, <2>5, <5>2, <5>3 DEF Resolve, HandlerSteps
                <5> QED
                    BY <1>a, <5>3, <5>4, HasRowType
            <4>2. CASE Ends(h)
                BY <1>a, <2>5, <4>2, EndsType DEF Resolve
            <4> QED
                BY <2>5, <4>1, <4>2 DEF Resolve, Fails
        <3> QED
            BY <1>a, <1>b, <2>5, <3>1, <3>2 DEF Resolve
    <2>6. CASE Write(h)
        <3>1. CASE Fails(h) /\ UNCHANGED <<rowVars, byHand>>
            <4>1. HandlersType'
                BY <1>a, <3>1, EndsType DEF Fails
            <4>2. due' \subseteq Hooks \X Sessions
                BY <3>1, FailsType
            <4> QED
                BY <1>a, <1>b, <2>6, <3>1, <4>1, <4>2 DEF Write
        <3>2. CASE \E intent \in Intents(h) : UpdateRow(job[h].row, job[h].status, intent)
            <4>1. PICK intent \in Intents(h) : UpdateRow(job[h].row, job[h].status, intent)
                BY <3>2
            <4>2. job[h].row \in 0..Len(payments) /\ job[h] \in Jobs
                BY <1>a DEF HandlersType
            <4>3. job[h].row \in DOMAIN payments =>
                     job[h].status \in PaymentStatuses /\ intent \in Sessions \union {NoSession}
                <5> SUFFICES ASSUME job[h].row \in DOMAIN payments
                             PROVE  intent \in Sessions \union {NoSession}
                    BY <4>2 DEF Jobs
                <5>1. payments[job[h].row] \in Rows
                    BY <1>a
                <5>2. payments[job[h].row].intent \in Sessions \union {NoSession}
                    BY <5>1 DEF Rows
                <5>3. job[h].session \in Sessions \union {NoSession}
                    BY <4>2 DEF Jobs
                <5> QED
                    BY <4>1, <5>2, <5>3 DEF Intents
            <4>4. /\ payments' \in Seq(Rows) /\ Len(payments') = Len(payments)
                  /\ latest' \in 0..Len(payments')
                BY <1>a, <4>1, <4>2, <4>3, UpdateRowType
            <4>5. HandlersType' /\ due' \subseteq Hooks \X Sessions /\ byHand' \in BOOLEAN
                <5>1. CASE Ends(h) /\ UNCHANGED due /\ byHand' \in BOOLEAN
                    BY <1>a, <4>4, <5>1, ConstantTypes DEF HandlersType, Ends, HandlerGoes, HandlerSteps
                <5>2. CASE /\ HandlerGoes(h, "confirm") \/ HandlerGoes(h, "emit")
                           /\ UNCHANGED <<job, due>> /\ byHand' \in BOOLEAN
                    BY <1>a, <4>4, <5>2 DEF HandlersType, HandlerGoes, HandlerSteps
                <5>3. CASE Fails(h) /\ UNCHANGED <<rowVars, byHand>>
                    BY <1>a, <5>3, EndsType, FailsType DEF Fails
                <5> QED
                    BY <2>6, <1>a, <5>1, <5>2, <5>3 DEF Write
            <4> QED
                BY <1>a, <1>b, <2>6, <4>4, <4>5 DEF Write
        <3> QED
            BY <2>6, <3>1, <3>2 DEF Write
    <2>7. CASE Confirm(h)
        <3>1. HandlersType'
            BY <1>a, <2>7, EndsType DEF Confirm, Fails, HandlersType, HandlerGoes, HandlerSteps
        <3>2. due' \subseteq Hooks \X Sessions
            BY <1>a, <2>7, FailsType DEF Confirm
        <3> QED
            BY <1>a, <1>b, <2>7, <3>1, <3>2 DEF Confirm, BookingStatuses
    <2>8. CASE Emit(h)
        <3>1. HandlersType'
            BY <1>a, <2>8, EndsType DEF Emit
        <3>2. results' \in Seq(PaymentEvents)
            <4>1. job[h].status \in PaymentEvents
                BY <2>8 DEF Emit, HandlerAt, WorkFits, Fits
            <4>2. results' = Append(results, job[h].status) \/ UNCHANGED results
                BY <2>8 DEF Emit, Publish
            <4> QED
                BY <1>a, <4>1, <4>2, WithIsSeq
        <3> QED
            BY <1>a, <1>b, <2>8, <3>1, <3>2 DEF Emit
    <2> QED
        BY <1>4, <2>1, <2>2, <2>3, <2>4, <2>5, <2>6, <2>7, <2>8 DEF HandlerStep
<1>5. ASSUME ReaderStep PROVE TypeOK'
    <2>1. CASE ReadEvent
        <3>1. PICK i \in Offered(bookings) :
                 /\ bookings' = Without(bookings, i) \/ UNCHANGED bookings
                 /\ ReaderGoes(AfterRead(bookings[i]))
                 /\ event' = IF AfterRead(bookings[i]) = "idle" THEN NoEvent ELSE bookings[i]
            BY <2>1 DEF ReadEvent
        <3>2. i \in 1..Len(bookings) /\ bookings[i] \in BookingEvents
            BY <1>a DEF Offered
        <3>3. bookings' \in Seq(BookingEvents)
            BY <1>a, <3>1, <3>2, WithoutIsSeq
        <3>4. event' \in BookingEvents
            BY <3>1, <3>2, ConstantTypes
        <3>5. reader' \in {"idle", "insert", "lookup", "fail", "emit"}
            BY <3>1 DEF ReaderGoes, AfterRead
        <3> QED
            BY <1>a, <1>b, <2>1, <3>3, <3>4, <3>5 DEF ReadEvent, HandlersType
    <2>2. CASE ReaderInsert
        <3>1. /\ payments' \in Seq(Rows) /\ Len(payments') = Len(payments) + 1
              /\ latest' \in 1..Len(payments')
            BY <1>a, <2>2, InsertRowType DEF ReaderInsert
        <3>2. \A n \in 0..Len(payments) : n \in 0..Len(payments')
            BY <1>a, <3>1
        <3>3. 0 \in 0..Len(payments')
            BY <1>a, <3>2
        <3>4. HandlersType'
            BY <1>a, <2>2, <3>2 DEF ReaderInsert, HandlersType
        <3> QED
            BY <1>a, <1>b, <2>2, <3>1, <3>2, <3>3, <3>4, ConstantTypes DEF ReaderInsert, ReaderDone
    <2>3. CASE ReaderLookup
        BY <1>a, <1>b, <2>3 DEF ReaderLookup, ReaderGoes, HandlersType
    <2>4. CASE ReaderFail
        <3>1. failing \in DOMAIN payments => payments[failing].intent \in Sessions \union {NoSession}
            <4>1. failing \in DOMAIN payments => payments[failing] \in Rows
                BY <1>a
            <4> QED
                BY <4>1 DEF Rows
        <3>2. /\ payments' \in Seq(Rows) /\ Len(payments') = Len(payments)
              /\ latest' \in 0..Len(payments')
            BY <1>a, <2>4, <3>1, UpdateRowType DEF ReaderFail, PaymentStatuses
        <3> QED
            BY <1>a, <1>b, <2>4, <3>2 DEF ReaderFail, ReaderGoes, HandlersType
    <2>5. CASE ReaderEmit
        <3>1. results' \in Seq(PaymentEvents)
            <4>1. results' = Append(results, "failed") \/ UNCHANGED results
                BY <2>5 DEF ReaderEmit, Publish
            <4>2. "failed" \in PaymentEvents
                BY DEF PaymentEvents
            <4> QED
                BY <1>a, <4>1, <4>2, WithIsSeq
        <3>2. 0 \in 0..Len(payments)
            BY <1>a
        <3> QED
            BY <1>a, <1>b, <2>5, <3>1, <3>2, ConstantTypes DEF ReaderEmit, ReaderDone, HandlersType
    <2>6. CASE ReaderFails
        <3>1. 0 \in 0..Len(payments)
            BY <1>a
        <3> QED
            BY <1>a, <1>b, <2>6, <3>1, ConstantTypes DEF ReaderFails, ReaderDone, HandlersType
    <2> QED
        BY <1>5, <2>1, <2>2, <2>3, <2>4, <2>5, <2>6 DEF ReaderStep
<1>6. ASSUME AnnouncerStep PROVE TypeOK'
    <2>1. CASE HandleResult
        <3>1. PICK i \in Offered(results) :
                 /\ results' = Without(results, i)
                 /\ \/ /\ booking' = StatusAfter(results[i])
                       /\ announcer' = IF results[i] = "completed" THEN "read" ELSE "idle"
                    \/ UNCHANGED <<booking, announcer>>
            BY <2>1 DEF HandleResult
        <3>2. i \in 1..Len(results) /\ results[i] \in PaymentEvents
            BY <1>a DEF Offered
        <3>3. results' \in Seq(PaymentEvents)
            BY <1>a, <3>1, <3>2, WithoutIsSeq
        <3>4. StatusAfter(results[i]) \in BookingStatuses
            BY <1>a, <3>2 DEF StatusAfter, PaymentEvents, BookingStatuses
        <3> QED
            BY <1>a, <1>b, <2>1, <3>1, <3>3, <3>4 DEF HandleResult, HandlersType
    <2>2. CASE ReadBooking
        BY <1>a, <1>b, <2>2 DEF ReadBooking, HandlersType
    <2>3. CASE Announce
        <3>1. bookings' \in Seq(BookingEvents)
            <4>1. [type |-> "confirmed", status |-> seen] \in BookingEvents
                BY <1>a DEF BookingEvents
            <4>2. \/ bookings' = Append(bookings, [type |-> "confirmed", status |-> seen])
                  \/ UNCHANGED bookings
                BY <2>3 DEF Announce, Publish
            <4> QED
                BY <1>a, <4>1, <4>2, WithIsSeq
        <3> QED
            BY <1>a, <1>b, <2>3, <3>1 DEF Announce, HandlersType, BookingStatuses
    <2>4. CASE AnnouncerFails
        BY <1>a, <1>b, <2>4 DEF AnnouncerFails, HandlersType, BookingStatuses
    <2> QED
        BY <1>6, <2>1, <2>2, <2>3, <2>4 DEF AnnouncerStep
<1>7. CASE CancelBooking
    <2>1. bookings' \in Seq(BookingEvents)
        <3>1. [type |-> "cancelled", status |-> "cancelled"] \in BookingEvents
            BY DEF BookingEvents, BookingStatuses
        <3>2. \/ bookings' = Append(bookings, [type |-> "cancelled", status |-> "cancelled"])
              \/ UNCHANGED bookings
            BY <1>7 DEF CancelBooking, Publish
        <3> QED
            BY <1>a, <3>1, <3>2, WithIsSeq
    <2> QED
        BY <1>a, <1>b, <1>7, <2>1 DEF CancelBooking, HandlersType, BookingStatuses
<1>8. CASE SetBooking
    BY <1>a, <1>b, <1>8 DEF SetBooking, HandlersType
<1>9. CASE Restart
    <2>1. HandlersType'
        BY <1>a, <1>9, ConstantTypes DEF Restart, HandlersType, HandlerSteps
    <2>2. due' \subseteq Hooks \X Sessions
        <3>1. \A h \in Handlers : job[h].hook # "none" => <<job[h].hook, job[h].session>> \in Hooks \X Sessions
            BY <1>a DEF HandlersType, WorkFits, Fits, Jobs
        <3> QED
            BY <1>a, <1>9, <3>1 DEF Restart
    <2>3. bookings' \in Seq(BookingEvents)
        <3>1. bookings' = bookings \/ bookings' = <<event>> \o bookings
            BY <1>9 DEF Restart
        <3> QED
            BY <1>a, <3>1, WithIsSeq
    <2>4. 0 \in 0..Len(payments)
        BY <1>a
    <2> QED
        BY <1>a, <1>b, <1>9, <2>1, <2>2, <2>3, <2>4, ConstantTypes DEF Restart, ReaderDone
<1>10. CASE UNCHANGED vars
    BY <1>a, <1>b, <1>10 DEF vars, HandlersType
<1> QED
    BY <1>1, <1>2, <1>3, <1>4, <1>5, <1>6, <1>7, <1>8, <1>9, <1>10 DEF Next
-----------------------------------------------------------------------------
(* The inductive invariant.                                                *)

\* A checkout session was completed, or something set by hand.
Justified == Complete # {} \/ byHand

\* What Stripe reports did happen to the session.
HookBacked(hook, s) ==
    /\ s \in Sessions
    /\ stripe[s] # "none"
    /\ hook = "completed" => s \in Complete
    /\ hook = "refunded" => stripe[s] = "refunded"

DueBacked == \A hook \in Hooks, s \in Sessions : <<hook, s>> \in due => HookBacked(hook, s)

\* A handler of Stripe's calls stores only what its session justifies, in the row
\* of that session; whoever confirms or publishes a completed payment knows of one.
WorkBacked(h) ==
    /\ job[h].kind = "checkout" => job[h].status = "pending"
    /\ job[h].hook # "none" => HookBacked(job[h].hook, job[h].session)
    /\ at[h] \in {"check", "select", "insert", "session"} => job[h].kind # "stripe"
    /\ at[h] = "resolve" => job[h].kind = "stripe"
    /\ at[h] # "idle" /\ job[h].kind = "stripe" =>
          HookBacked(job[h].status, job[h].session) /\ job[h].status # "pending"
    /\ at[h] = "write" /\ job[h].kind = "stripe" => rowOf[job[h].session] = job[h].row
    /\ at[h] \in {"confirm", "emit"} /\ job[h].status = "completed" => Justified

\* A row has the payment intent of a session opened for it only.
IntentsFit ==
    \A r \in DOMAIN payments :
        payments[r].intent # NoSession =>
            stripe[payments[r].intent] # "none" /\ rowOf[payments[r].intent] = r

ConfirmedKnown == booking = "confirmed" => Justified
ResultsKnown   == \A i \in DOMAIN results : results[i] = "completed" => Justified

IInv ==
    /\ TypeOK
    /\ WorkFits
    /\ DueBacked
    /\ \A h \in Handlers : WorkBacked(h)
    /\ IntentsFit
    /\ ConfirmedKnown
    /\ ResultsKnown
    /\ RecordsBacked

-----------------------------------------------------------------------------
(* What a step leaves alone.                                               *)

\* The steps that change the sessions, the rows, the booking, the two topics'
\* results, the webhooks and the handlers.
Changes ==
    /\ UNCHANGED <<stripe, rowOf>> \/ (\E s \in Sessions : StripeActs(s))
                                   \/ (\E h \in Handlers : CreateSession(h))
    /\ UNCHANGED payments \/ (\E h \in Handlers : Insert(h) \/ Write(h))
                          \/ ReaderInsert \/ ReaderFail
    /\ UNCHANGED booking \/ (\E h \in Handlers : Confirm(h))
                         \/ HandleResult \/ CancelBooking \/ SetBooking
    /\ UNCHANGED results \/ (\E h \in Handlers : Emit(h)) \/ ReaderEmit \/ HandleResult
    /\ UNCHANGED <<at, job, due>> \/ (\E s \in Sessions : StripeActs(s))
                                  \/ (\E h \in Handlers : Begin(h) \/ HandlerStep(h))
                                  \/ (\E h \in Handlers, hook \in Hooks, s \in Sessions :
                                         Deliver(h, hook, s))
                                  \/ Restart
    /\ UNCHANGED byHand \/ (\E h \in Handlers : Write(h)) \/ SetBooking

LEMMA WhoChanges == ASSUME [Next]_vars PROVE Changes
<1> USE DEF rowVars, stripeVars, handlerVars, readerVars, resultVars
<1>1. ASSUME NEW s \in Sessions, StripeActs(s) PROVE Changes
    <2>1. UNCHANGED <<booking, payments, results, byHand>>
        BY <1>1 DEF StripeActs, Pay, PayLater, Settle, Lapse, Decline, Expire, Refund, StripeStep
    <2> QED
        BY <1>1, <2>1 DEF Changes
<1>2. ASSUME NEW h \in Handlers, Begin(h) PROVE Changes
    <2>1. UNCHANGED <<booking, payments, results, stripe, rowOf, byHand>>
        <3>1. CASE StartRequest(h)
            BY <3>1 DEF StartRequest
        <3>2. CASE StartPut(h)
            BY <3>2 DEF StartPut
        <3>3. CASE OpenPage(h)
            BY <3>3 DEF OpenPage
        <3> QED
            BY <1>2, <3>1, <3>2, <3>3 DEF Begin
    <2> QED
        BY <1>2, <2>1 DEF Changes
<1>3. ASSUME NEW h \in Handlers, HandlerStep(h) PROVE Changes
    <2>1. CASE Check(h)
        BY <1>3, <2>1 DEF Check, Changes
    <2>2. CASE Select(h)
        BY <1>3, <2>2 DEF Select, Changes
    <2>3. CASE Insert(h)
        <3>1. UNCHANGED <<stripe, rowOf, booking, results, byHand>>
            BY <2>3 DEF Insert
        <3> QED
            BY <1>3, <2>3, <3>1 DEF Changes
    <2>4. CASE CreateSession(h)
        <3>1. UNCHANGED <<payments, booking, results, byHand>>
            BY <2>4 DEF CreateSession
        <3> QED
            BY <1>3, <2>4, <3>1 DEF Changes
    <2>5. CASE Resolve(h)
        <3>1. UNCHANGED <<stripe, rowOf, payments, booking, results, byHand>>
            BY <2>5 DEF Resolve
        <3> QED
            BY <1>3, <3>1 DEF Changes
    <2>6. CASE Write(h)
        <3>1. UNCHANGED <<stripe, rowOf, booking, results>>
            BY <2>6 DEF Write
        <3> QED
            BY <1>3, <2>6, <3>1 DEF Changes
    <2>7. CASE Confirm(h)
        <3>1. UNCHANGED <<stripe, rowOf, payments, results, byHand>>
            BY <2>7 DEF Confirm
        <3> QED
            BY <1>3, <2>7, <3>1 DEF Changes
    <2>8. CASE Emit(h)
        <3>1. UNCHANGED <<stripe, rowOf, payments, booking, byHand>>
            BY <2>8 DEF Emit
        <3> QED
            BY <1>3, <2>8, <3>1 DEF Changes
    <2> QED
        BY <1>3, <2>1, <2>2, <2>3, <2>4, <2>5, <2>6, <2>7, <2>8 DEF HandlerStep
<1>4. ASSUME NEW h \in Handlers, NEW hook \in Hooks, NEW s \in Sessions, Deliver(h, hook, s)
      PROVE  Changes
    <2>1. UNCHANGED <<stripe, rowOf, payments, booking, results, byHand>>
        BY <1>4 DEF Deliver
    <2> QED
        BY <1>4, <2>1 DEF Changes
<1>5. CASE ReaderStep
    <2>a. UNCHANGED <<stripe, rowOf, due, at, job, booking, byHand>>
        BY <1>5 DEF ReaderStep, ReadEvent, ReaderInsert, ReaderLookup, ReaderFail,
                    ReaderEmit, ReaderFails
    <2>b. UNCHANGED payments \/ ReaderInsert \/ ReaderFail
        BY <1>5 DEF ReaderStep, ReadEvent, ReaderLookup, ReaderEmit, ReaderFails
    <2>c. UNCHANGED results \/ ReaderEmit
        BY <1>5 DEF ReaderStep, ReadEvent, ReaderInsert, ReaderLookup, ReaderFail, ReaderFails
    <2> QED
        BY <2>a, <2>b, <2>c DEF Changes
<1>6. CASE AnnouncerStep
    <2>1. UNCHANGED <<stripe, rowOf, due, at, job, payments, byHand>>
        BY <1>6 DEF AnnouncerStep, HandleResult, ReadBooking, Announce, AnnouncerFails
    <2>2. UNCHANGED <<booking, results>> \/ HandleResult
        BY <1>6 DEF AnnouncerStep, ReadBooking, Announce, AnnouncerFails
    <2> QED
        BY <2>1, <2>2 DEF Changes
<1>7. CASE CancelBooking
    <2>1. UNCHANGED <<stripe, rowOf, due, at, job, payments, results, byHand>>
        BY <1>7 DEF CancelBooking
    <2> QED
        BY <1>7, <2>1 DEF Changes
<1>8. CASE SetBooking
    <2>1. UNCHANGED <<stripe, rowOf, due, at, job, payments, results>>
        BY <1>8 DEF SetBooking
    <2> QED
        BY <1>8, <2>1 DEF Changes
<1>9. CASE Restart
    <2>1. UNCHANGED <<stripe, rowOf, payments, booking, results, byHand>>
        BY <1>9 DEF Restart
    <2> QED
        BY <1>9, <2>1 DEF Changes
<1>10. CASE UNCHANGED vars
    BY <1>10 DEF vars, Changes
<1> QED
    BY <1>1, <1>2, <1>3, <1>4, <1>5, <1>6, <1>7, <1>8, <1>9, <1>10 DEF Next

-----------------------------------------------------------------------------
(* What a step never takes back.                                           *)

\* Sessions stay opened for their row, paid and refunded; what is known is kept.
SessionsGrow ==
    \A s \in Sessions :
        /\ stripe[s] # "none" => stripe'[s] # "none" /\ rowOf'[s] = rowOf[s]
        /\ s \in Complete => s \in Complete'
        /\ stripe[s] = "refunded" => stripe'[s] = "refunded"

Grows ==
    /\ SessionsGrow
    /\ byHand => byHand'
    /\ Justified => Justified'

\* Neither is a hand-set status forgotten, nor does a session lose its state.
LEMMA GrowsStep == TypeOK /\ [Next]_vars => Grows
<1> SUFFICES ASSUME TypeOK, [Next]_vars PROVE Grows
    OBVIOUS
<1>1. byHand => byHand'
    <2>1. ASSUME NEW h \in Handlers, Write(h) PROVE byHand => byHand'
        <3>1. \/ byHand' = (byHand \/ (job[h].kind # "stripe" /\ job[h].status # "pending"))
              \/ byHand' = byHand
            BY <2>1 DEF Write
        <3> QED
            BY <3>1, Zenon
    <2>2. CASE SetBooking
        BY <2>2, Zenon DEF SetBooking
    <2>3. CASE UNCHANGED byHand
        BY <2>3, Zenon
    <2> QED
        BY <2>1, <2>2, <2>3, WhoChanges DEF Changes
<1>2. SessionsGrow
    <2>1. CASE UNCHANGED <<stripe, rowOf>>
        BY <2>1 DEF Complete, Charged, SessionsGrow
    <2>2. ASSUME NEW s \in Sessions, StripeActs(s) PROVE SessionsGrow
        <3>1. PICK from, to, hooks :
                 /\ StripeStep(s, from, to, hooks)
                 /\ from # "none" /\ to # "none"
                 /\ from \in {"paid", "processing"} => to \in {"paid", "lapsed", "refunded"}
                 /\ from \notin {"refunded", "lapsed"}
            BY <2>2 DEF StripeActs, Pay, PayLater, Settle, Lapse, Decline, Expire, Refund
        <3>2. /\ stripe[s] = from /\ stripe' = [stripe EXCEPT ![s] = to]
              /\ UNCHANGED rowOf
            BY <3>1 DEF StripeStep
        <3>3. \A t \in Sessions : stripe'[t] = IF t = s THEN to ELSE stripe[t]
            BY <3>2 DEF TypeOK
        <3> QED
            BY <3>1, <3>2, <3>3 DEF Complete, Charged, SessionsGrow
    <2>3. ASSUME NEW h \in Handlers, CreateSession(h) PROVE SessionsGrow
        <3>1. \/ UNCHANGED <<stripe, rowOf>>
              \/ \E s \in Sessions : /\ stripe[s] = "none"
                                     /\ stripe' = [stripe EXCEPT ![s] = "open"]
                                     /\ rowOf' = [rowOf EXCEPT ![s] = job[h].row]
            BY <2>3 DEF CreateSession
        <3>2. ASSUME NEW s \in Sessions, stripe[s] = "none",
                     stripe' = [stripe EXCEPT ![s] = "open"],
                     rowOf' = [rowOf EXCEPT ![s] = job[h].row]
              PROVE  SessionsGrow
            <4>1. \A t \in Sessions : t # s => stripe'[t] = stripe[t] /\ rowOf'[t] = rowOf[t]
                BY <3>2 DEF TypeOK
            <4> QED
                BY <3>2, <4>1 DEF Complete, Charged, SessionsGrow
        <3> QED
            BY <2>1, <3>1, <3>2
    <2> QED
        BY <2>1, <2>2, <2>3, WhoChanges DEF Changes
<1>3. Justified => Justified'
    <2>1. Complete # {} => Complete' # {}
        BY <1>2 DEF Complete, Charged, SessionsGrow
    <2> QED
        BY <1>1, <2>1, Zenon DEF Justified
<1> QED
    BY <1>1, <1>2, <1>3, Zenon DEF Grows

-----------------------------------------------------------------------------
(* What Stripe reports.                                                    *)

\* What happened to a session did happen to it ever after.
LEMMA HookKept ==
    ASSUME Grows, NEW hook, NEW s, HookBacked(hook, s)
    PROVE  HookBacked(hook, s)'
BY DEF Grows, SessionsGrow, HookBacked

\* A step of Stripe reports what it did.
LEMMA StripeReports ==
    ASSUME TypeOK, NEW t \in Sessions, StripeActs(t), NEW hook \in Hooks, NEW s \in Sessions,
           <<hook, s>> \in due', <<hook, s>> \notin due
    PROVE  HookBacked(hook, s)'
<1>1. PICK from, to, hooks :
         /\ StripeStep(t, from, to, hooks)
         /\ to # "none"
         /\ "completed" \in hooks => to \in {"paid", "processing"}
         /\ "refunded" \in hooks => to = "refunded"
    BY DEF StripeActs, Pay, PayLater, Settle, Lapse, Decline, Expire, Refund
<1>2. s = t /\ hook \in hooks
    BY <1>1 DEF StripeStep
<1>3. stripe'[t] = to
    BY <1>1 DEF StripeStep, TypeOK
<1> QED
    BY <1>1, <1>2, <1>3 DEF HookBacked, Complete, Charged

\* Every webhook to deliver is about something that happened.
LEMMA DueStep == IInv /\ [Next]_vars => DueBacked'
<1> SUFFICES ASSUME IInv, [Next]_vars, NEW hook \in Hooks, NEW s \in Sessions,
                    <<hook, s>> \in due'
             PROVE  HookBacked(hook, s)'
    BY DEF DueBacked
<1>a. Grows
    BY GrowsStep DEF IInv
<1>1. CASE <<hook, s>> \in due
    BY <1>1, <1>a, HookKept DEF IInv, DueBacked
<1>2. CASE \E h \in Handlers : job[h].hook = hook /\ job[h].session = s
    <2>1. hook # "none"
        BY DEF Hooks
    <2>2. HookBacked(hook, s)
        BY <1>2, <2>1 DEF IInv, WorkBacked
    <2> QED
        BY <1>a, <2>2, HookKept
<1>3. CASE \E t \in Sessions : StripeActs(t)
    BY <1>1, <1>3, StripeReports DEF IInv
<1>4. ASSUME NEW h \in Handlers, HandlerStep(h), <<hook, s>> \notin due
      PROVE  job[h].hook = hook /\ job[h].session = s
    <2>1. Fails(h) \/ UNCHANGED due
        BY <1>4 DEF HandlerStep, Check, Select, Insert, CreateSession, Resolve, Write, Confirm,
                    Emit, stripeVars
    <2> QED
        BY <1>4, <2>1 DEF Fails
<1>5. ASSUME NEW h \in Handlers, Begin(h) PROVE UNCHANGED due
    BY <1>5 DEF Begin, StartRequest, StartPut, OpenPage, stripeVars
<1>6. ASSUME NEW h \in Handlers, NEW k \in Hooks, NEW t \in Sessions, Deliver(h, k, t)
      PROVE  due' \subseteq due
    BY <1>6 DEF Deliver
<1>7. CASE Restart
    BY <1>1, <1>2, <1>7 DEF Restart
<1> QED
    BY <1>1, <1>2, <1>3, <1>4, <1>5, <1>6, <1>7, WhoChanges DEF Changes

-----------------------------------------------------------------------------
(* The handlers.                                                           *)

\* What justifies a job goes on to justify it.
LEMMA WorkKept ==
    ASSUME Grows, NEW g \in Handlers, WorkBacked(g), Fits(g), at'[g] = at[g], job'[g] = job[g]
    PROVE  WorkBacked(g)' /\ Fits(g)'
BY DEF Grows, SessionsGrow, WorkBacked, Fits, HookBacked

\* A handler without a job needs no justification.
LEMMA IdleBacked ==
    ASSUME NEW g \in Handlers, at'[g] = "idle", job'[g] = NoJob
    PROVE  WorkBacked(g)' /\ Fits(g)'
BY DEF WorkBacked, Fits, NoJob

\* What a handler begins is justified by the request or by Stripe.
LEMMA BeginBacked ==
    ASSUME IInv, Grows, NEW g \in Handlers,
           \/ Begin(g)
           \/ \E hook \in Hooks, s \in Sessions : Deliver(g, hook, s)
    PROVE  WorkBacked(g)' /\ Fits(g)'
<1>a. at \in [Handlers -> HandlerSteps] /\ job \in [Handlers -> Jobs]
    BY DEF IInv, TypeOK
<1>1. CASE StartRequest(g)
    <2>1. /\ at'[g] = "check" /\ job'[g].hook = "none" /\ job'[g].kind \in {"checkout", "post"}
          /\ job'[g].kind = "checkout" => job'[g].status = "pending"
        BY <1>1, <1>a DEF StartRequest, Starts, HandlerGoes, NoJob
    <2> QED
        BY <2>1 DEF WorkBacked, Fits
<1>2. CASE StartPut(g)
    <2>1. at'[g] = "write" /\ job'[g].hook = "none" /\ job'[g].kind = "put"
        BY <1>2, <1>a DEF StartPut, Starts, HandlerGoes, NoJob
    <2> QED
        BY <2>1 DEF WorkBacked, Fits
<1>3. CASE OpenPage(g)
    <2>1. PICK s \in Sessions, page \in {"success", "cancel"} :
             /\ stripe[s] # "none"
             /\ Starts(g, "resolve", [NoJob EXCEPT !.session = s, !.status =
                   IF page = "success" /\ s \in Charged THEN "completed" ELSE "failed"])
        BY <1>3 DEF OpenPage
    <2>2. /\ at'[g] = "resolve" /\ job'[g].hook = "none" /\ job'[g].kind = "stripe"
          /\ job'[g].session = s /\ job'[g].status \in {"completed", "failed"}
          /\ job'[g].status = "completed" => s \in Complete
        BY <2>1, <1>a DEF Starts, HandlerGoes, NoJob, Complete
    <2>3. stripe'[s] # "none" /\ (s \in Complete => s \in Complete')
        BY <2>1 DEF Grows, SessionsGrow
    <2> QED
        BY <2>2, <2>3 DEF WorkBacked, Fits, HookBacked
<1>4. ASSUME NEW hook \in Hooks, NEW s \in Sessions, Deliver(g, hook, s)
      PROVE  WorkBacked(g)' /\ Fits(g)'
    <2>1. /\ at'[g] = "resolve" /\ job'[g].hook = hook /\ job'[g].kind = "stripe"
          /\ job'[g].session = s /\ job'[g].status = StatusOf(hook)
        BY <1>4, <1>a DEF Deliver, Starts, HandlerGoes, NoJob
    <2>2. HookBacked(hook, s)'
        BY <1>4, HookKept DEF IInv, DueBacked, Deliver
    <2>3. /\ StatusOf(hook) \in {"completed", "refunded", "failed"}
          /\ StatusOf(hook) = "completed" => hook = "completed"
          /\ StatusOf(hook) = "refunded" => hook = "refunded"
        BY DEF StatusOf, Hooks
    <2> QED
        BY <2>1, <2>2, <2>3 DEF WorkBacked, Fits, HookBacked
<1> QED
    BY <1>1, <1>2, <1>3, <1>4 DEF Begin

\* Every step of a handler is justified by the step before.
LEMMA StepBacked ==
    ASSUME IInv, Grows, NEW g \in Handlers, HandlerStep(g)
    PROVE  WorkBacked(g)' /\ Fits(g)'
<1>a. at \in [Handlers -> HandlerSteps] /\ job \in [Handlers -> Jobs]
    BY DEF IInv, TypeOK
<1>b. WorkBacked(g) /\ Fits(g)
    BY DEF IInv, WorkFits
<1>c. ASSUME Ends(g) PROVE WorkBacked(g)' /\ Fits(g)'
    <2>1. at'[g] = "idle" /\ job'[g] = NoJob
        BY <1>a, <1>c DEF Ends, HandlerGoes
    <2> QED
        BY <2>1, IdleBacked
<1>d. \A hook, s : HookBacked(hook, s) => HookBacked(hook, s)'
    BY HookKept
<1>1. CASE Check(g)
    <2>1. Ends(g) \/ (at[g] = "check" /\ at'[g] = "select" /\ job'[g] = job[g])
        BY <1>1, <1>a DEF Check, HandlerAt, HandlerGoes
    <2> QED
        BY <2>1, <1>b, <1>c DEF WorkBacked, Fits, Grows, SessionsGrow, HookBacked
<1>2. CASE Select(g) \/ Insert(g)
    <2>1. \/ Ends(g)
          \/ /\ job[g].kind # "stripe" /\ at'[g] \in {"insert", "write", "session"}
             /\ job'[g].kind = job[g].kind /\ job'[g].hook = job[g].hook
             /\ job'[g].session = job[g].session /\ job'[g].status = job[g].status
        <3>1. job[g].kind # "stripe"
            BY <1>2, <1>b DEF Select, Insert, HandlerAt, WorkBacked
        <3>2. \/ Ends(g)
              \/ HandlerGoes(g, "insert") /\ UNCHANGED job
              \/ HasRow(g, latest) \/ HasRow(g, Len(payments) + 1)
            BY <1>2 DEF Select, Insert
        <3>n. latest \in Nat /\ Len(payments) + 1 \in Nat
            BY DEF IInv, TypeOK
        <3>3. ASSUME HandlerGoes(g, "insert"), UNCHANGED job PROVE <2>1
            BY <3>1, <3>3, <1>a DEF HandlerGoes
        <3>4. ASSUME NEW r \in Nat, HasRow(g, r) PROVE <2>1
            BY <3>1, <3>4, <1>a DEF HasRow, HandlerGoes, Jobs
        <3> QED
            BY <3>2, <3>n, <3>3, <3>4
    <2> QED
        BY <2>1, <1>b, <1>c DEF WorkBacked, Fits, Grows, SessionsGrow, HookBacked
<1>3. CASE CreateSession(g)
    <2>1. \/ Ends(g)
          \/ at[g] = "session" /\ at'[g] = "write" /\ job'[g] = job[g]
        BY <1>3, <1>a DEF CreateSession, HandlerAt, HandlerGoes
    <2> QED
        BY <2>1, <1>b, <1>c DEF WorkBacked, Fits, Grows, SessionsGrow, HookBacked
<1>4. CASE Resolve(g)
    <2>1. ASSUME NEW r \in RowsFor(g), job' = [job EXCEPT ![g].row = r],
                 HandlerGoes(g, "write")
          PROVE  WorkBacked(g)' /\ Fits(g)'
        <3>1. /\ at[g] = "resolve" /\ job[g].kind = "stripe" /\ job[g].session \in Sessions
              /\ stripe[job[g].session] # "none"
            BY <1>4, <1>b DEF Resolve, HandlerAt, WorkBacked, HookBacked
        <3>2. /\ at'[g] = "write" /\ job'[g].row = r
              /\ job'[g].kind = "stripe" /\ job'[g].hook = job[g].hook
              /\ job'[g].session = job[g].session /\ job'[g].status = job[g].status
            BY <1>a, <2>1, <3>1 DEF HandlerGoes, Jobs
        <3>3. rowOf[job[g].session] = r
            BY <2>1, <3>1, ConstantsAssumption DEF RowsFor, IInv, IntentsFit
        <3>4. rowOf' = rowOf
            BY <1>4 DEF Resolve
        <3> QED
            BY <1>b, <3>1, <3>2, <3>3, <3>4
            DEF WorkBacked, Fits, Grows, SessionsGrow, HookBacked
    <2>2. Ends(g) \/ \E r \in RowsFor(g) : job' = [job EXCEPT ![g].row = r] /\ HandlerGoes(g, "write")
        BY <1>4 DEF Resolve, Fails
    <2> QED
        BY <1>c, <2>1, <2>2
<1>5. CASE Write(g)
    <2>1. CASE Fails(g)
        BY <1>c, <2>1 DEF Fails
    <2>2. CASE ~Fails(g)
        <3>1. /\ at[g] = "write"
              /\ byHand' = (byHand \/ (job[g].kind # "stripe" /\ job[g].status # "pending"))
              /\ CASE job[g].status = "pending"   -> Ends(g)
                   [] job[g].status = "completed" -> HandlerGoes(g, "confirm") /\ UNCHANGED job
                   [] OTHER                       -> HandlerGoes(g, "emit") /\ UNCHANGED job
            BY <1>5, <2>2 DEF Write, HandlerAt
        <3>2. CASE job[g].status = "pending"
            BY <3>1, <3>2, <1>c
        <3>3. CASE job[g].status = "completed"
            <4>1. at'[g] = "confirm" /\ job' = job
                BY <3>1, <3>3, <1>a DEF HandlerGoes
            <4>2. job[g].kind # "stripe" => byHand'
                <5>1. job[g].status # "pending"
                    BY <3>3
                <5> QED
                    BY <3>1, <5>1, Zenon
            <4>3. job[g].kind = "stripe" => Complete # {}
                BY <3>1, <3>3, <1>b DEF WorkBacked, HookBacked
            <4>4. Complete # {} => Complete' # {}
                BY DEF Grows, SessionsGrow, Complete, Charged
            <4>5. Justified'
                BY <4>2, <4>3, <4>4, Zenon DEF Justified
            <4> QED
                BY <1>b, <3>1, <3>3, <4>1, <4>5
                DEF WorkBacked, Fits, Grows, SessionsGrow, HookBacked
        <3>4. CASE job[g].status \notin {"pending", "completed"}
            <4>1. at'[g] = "emit" /\ job' = job
                BY <3>1, <3>4, <1>a DEF HandlerGoes
            <4>2. job[g].status \in PaymentEvents
                BY <3>4, <1>a DEF Jobs, PaymentStatuses, PaymentEvents
            <4> QED
                BY <1>b, <3>1, <3>4, <4>1, <4>2
                DEF WorkBacked, Fits, Grows, SessionsGrow, HookBacked
        <3> QED
            BY <3>2, <3>3, <3>4
    <2> QED
        BY <2>1, <2>2
<1>6. CASE Confirm(g)
    <2>1. Ends(g) \/ (at[g] = "confirm" /\ at'[g] = "emit" /\ job'[g] = job[g])
        BY <1>6, <1>a DEF Confirm, HandlerAt, HandlerGoes, Fails
    <2>2. at[g] = "confirm" => job[g].status \in PaymentEvents
        BY <1>b DEF Fits, PaymentEvents
    <2> QED
        BY <2>1, <2>2, <1>b, <1>c DEF WorkBacked, Fits, Grows, SessionsGrow, HookBacked
<1>7. CASE Emit(g)
    BY <1>7, <1>c DEF Emit
<1> QED
    BY <1>1, <1>2, <1>3, <1>4, <1>5, <1>6, <1>7 DEF HandlerStep

\* A step is one of one handler, of all, or of none.
LEMMA OtherHandlers ==
    ASSUME TypeOK, NEW h \in Handlers, NEW g \in Handlers, g # h,
           \/ Begin(h) \/ HandlerStep(h)
           \/ \E hook \in Hooks, s \in Sessions : Deliver(h, hook, s)
    PROVE  at'[g] = at[g] /\ job'[g] = job[g]
<1>a. at \in [Handlers -> HandlerSteps] /\ job \in [Handlers -> Jobs]
    BY DEF TypeOK
<1>1. CASE Begin(h) \/ \E hook \in Hooks, s \in Sessions : Deliver(h, hook, s)
    <2>1. \E here, work : Starts(h, here, work)
        BY <1>1 DEF Begin, StartRequest, StartPut, OpenPage, Deliver
    <2> QED
        BY <1>a, <2>1 DEF Starts, HandlerGoes
<1>2. CASE HandlerStep(h)
    <2>1. /\ Ends(h) \/ \E there : HandlerGoes(h, there)
          /\ Ends(h) \/ UNCHANGED job \/ \E r : job' = [job EXCEPT ![h].row = r]
        BY <1>2 DEF HandlerStep, Check, Select, HasRow, Insert, CreateSession, Resolve, Write,
                    Confirm, Emit, Fails
    <2> QED
        BY <1>a, <2>1 DEF Ends, HandlerGoes
<1> QED
    BY <1>1, <1>2

LEMMA JobsStep ==
    ASSUME IInv, [Next]_vars, NEW g \in Handlers
    PROVE  WorkBacked(g)' /\ Fits(g)'
<1>a. Grows
    BY GrowsStep DEF IInv
<1>1. CASE at'[g] = at[g] /\ job'[g] = job[g]
    BY <1>1, <1>a, WorkKept DEF IInv, WorkFits
<1>2. CASE Restart
    BY <1>2, IdleBacked DEF Restart
<1>3. CASE Begin(g) \/ HandlerStep(g) \/ \E hook \in Hooks, s \in Sessions : Deliver(g, hook, s)
    BY <1>3, <1>a, BeginBacked, StepBacked
<1>4. ASSUME NEW h \in Handlers, h # g,
             \/ Begin(h) \/ HandlerStep(h)
             \/ \E hook \in Hooks, s \in Sessions : Deliver(h, hook, s)
      PROVE  at'[g] = at[g] /\ job'[g] = job[g]
    BY <1>4, OtherHandlers DEF IInv
<1>5. ASSUME NEW s \in Sessions, StripeActs(s) PROVE UNCHANGED <<at, job>>
    BY <1>5 DEF StripeActs, Pay, PayLater, Settle, Lapse, Decline, Expire, Refund, StripeStep,
                handlerVars
<1> QED
    BY <1>1, <1>2, <1>3, <1>4, <1>5, WhoChanges DEF Changes

-----------------------------------------------------------------------------
(* The rows.                                                               *)

\* The payment intent and the status a row may have.
IntentFits(r, intent) ==
    intent # NoSession => intent \in Sessions /\ stripe[intent] # "none" /\ rowOf[intent] = r

StatusFits(r, status) ==
    \/ byHand
    \/ /\ status = "completed" => \E s \in Complete : rowOf[s] = r
       /\ status = "refunded" => \E s \in Sessions : stripe[s] = "refunded" /\ rowOf[s] = r

RowFits(r, row) == IntentFits(r, row.intent) /\ StatusFits(r, row.status)

\* The invariants on rows, one row at a time.
LEMMA RowsAreFit ==
    TypeOK => (IntentsFit /\ RecordsBacked <=> \A r \in DOMAIN payments : RowFits(r, payments[r]))
<1> SUFFICES ASSUME TypeOK
             PROVE  IntentsFit /\ RecordsBacked <=> \A r \in DOMAIN payments : RowFits(r, payments[r])
    OBVIOUS
<1>1. \A r \in DOMAIN payments : payments[r].intent # NoSession => payments[r].intent \in Sessions
    <2>1. \A r \in DOMAIN payments : payments[r] \in Rows
        BY DEF TypeOK
    <2> QED
        BY <2>1 DEF Rows
<1>2. IntentsFit <=> \A r \in DOMAIN payments : IntentFits(r, payments[r].intent)
    BY <1>1 DEF IntentsFit, IntentFits
<1>3. RecordsBacked <=> \A r \in DOMAIN payments : StatusFits(r, payments[r].status)
    BY Zenon DEF RecordsBacked, StatusFits
<1> QED
    BY <1>2, <1>3 DEF RowFits

LEMMA RowKept ==
    ASSUME Grows, NEW r, NEW intent, NEW status
    PROVE  /\ IntentFits(r, intent) => IntentFits(r, intent)'
           /\ StatusFits(r, status) => StatusFits(r, status)'
<1>1. IntentFits(r, intent) => IntentFits(r, intent)'
    BY DEF Grows, SessionsGrow, IntentFits
<1>2. StatusFits(r, status) => StatusFits(r, status)'
    <2> SUFFICES ASSUME StatusFits(r, status), ~byHand
                 PROVE  /\ status = "completed" => \E s \in Complete' : rowOf'[s] = r
                        /\ status = "refunded" =>
                              \E s \in Sessions : stripe'[s] = "refunded" /\ rowOf'[s] = r
        BY Zenon DEF StatusFits, Grows
    <2>1. /\ status = "completed" => \E s \in Complete : rowOf[s] = r
          /\ status = "refunded" => \E s \in Sessions : stripe[s] = "refunded" /\ rowOf[s] = r
        BY Zenon DEF StatusFits
    <2>2. \A s \in Complete : s \in Sessions /\ stripe[s] # "none"
        BY DEF Complete, Charged
    <2> QED
        BY <2>1, <2>2 DEF Grows, SessionsGrow
<1> QED
    BY <1>1, <1>2

\* What UPDATE payments stores fits its row: Stripe has reported it, or it is the
\* pending payment of a new session, or a client has decided it.
LEMMA WriteFits ==
    ASSUME IInv, Grows, NEW h \in Handlers, at[h] = "write",
           NEW r \in DOMAIN payments, r = job[h].row, NEW status, status = job[h].status,
           NEW intent \in Intents(h),
           byHand' = (byHand \/ (job[h].kind # "stripe" /\ job[h].status # "pending"))
    PROVE  IntentFits(r, intent)' /\ StatusFits(r, status)'
<1> DEFINE s == job[h].session
<1>a. TypeOK /\ WorkBacked(h) /\ RowFits(r, payments[r])
    BY RowsAreFit DEF IInv
<1>1. CASE job[h].kind = "stripe"
    <2>1. HookBacked(status, s) /\ rowOf[s] = r
        BY <1>1, <1>a DEF WorkBacked
    <2>2. IntentFits(r, intent)
        <3>1. intent \in {payments[r].intent, s}
            BY DEF Intents
        <3>2. IntentFits(r, s)
            BY <2>1 DEF HookBacked, IntentFits
        <3> QED
            BY <1>a, <3>1, <3>2 DEF RowFits
    <2>3. StatusFits(r, status)
        <3>1. status = "completed" => s \in Complete
            BY <2>1 DEF HookBacked
        <3>2. status = "refunded" => s \in Sessions /\ stripe[s] = "refunded"
            BY <2>1 DEF HookBacked
        <3> QED
            BY <2>1, <3>1, <3>2, Zenon DEF StatusFits
    <2> QED
        BY <2>2, <2>3, RowKept
<1>2. CASE job[h].kind # "stripe"
    <2>1. intent = payments[r].intent
        BY <1>2 DEF Intents
    <2>2. IntentFits(r, intent)'
        BY <1>a, <2>1, RowKept DEF RowFits
    <2>3. CASE status = "pending"
        <3>1. StatusFits(r, status)'
            BY <2>3 DEF StatusFits
        <3> QED
            BY <2>2, <3>1
    <2>4. CASE status # "pending"
        <3>1. job[h].status # "pending"
            BY <2>4
        <3>2. byHand'
            BY <1>2, <3>1, Zenon
        <3>3. StatusFits(r, status)'
            BY <3>2, Zenon DEF StatusFits
        <3> QED
            BY <2>2, <3>3
    <2> QED
        BY <2>3, <2>4
<1> QED
    BY <1>1, <1>2

\* A new row is pending, and so fits.
LEMMA InsertFits ==
    ASSUME IInv, Grows, InsertRow, NEW r \in DOMAIN payments'
    PROVE  RowFits(r, payments[r])' 
<1>a. TypeOK /\ \A k \in DOMAIN payments : RowFits(k, payments[k])
    BY RowsAreFit DEF IInv
<1>1. /\ \A k \in DOMAIN payments : payments'[k] = payments[k]
      /\ payments'[Len(payments) + 1] = [status |-> "pending", intent |-> NoSession]
      /\ r \in DOMAIN payments \/ r = Len(payments) + 1
    <2>1. payments \in Seq(Rows) /\ latest \in 0..Len(payments)
        BY <1>a DEF TypeOK
    <2>2. /\ payments' \in Seq(Rows) /\ Len(payments') = Len(payments) + 1
          /\ \A k \in DOMAIN payments : payments'[k] = payments[k]
          /\ payments'[Len(payments) + 1] = [status |-> "pending", intent |-> NoSession]
        BY <2>1, InsertRowType
    <2> QED
        BY <2>1, <2>2
<1>2. CASE r \in DOMAIN payments
    <2>1. PICK intent, status : intent = payments[r].intent /\ status = payments[r].status
        OBVIOUS
    <2>2. IntentFits(r, intent)' /\ StatusFits(r, status)'
        BY <1>2, <1>a, <2>1, RowKept DEF RowFits
    <2>3. payments'[r].intent = intent /\ payments'[r].status = status
        BY <1>1, <1>2, <2>1
    <2> QED
        BY <2>2, <2>3 DEF RowFits
<1>3. CASE r = Len(payments) + 1
    BY <1>1, <1>3 DEF RowFits, IntentFits, StatusFits
<1> QED
    BY <1>1, <1>2, <1>3

\* An UPDATE leaves the other rows as they are.
LEMMA UpdateFits ==
    ASSUME IInv, Grows, NEW k \in 0..Len(payments), NEW status, NEW intent,
           UpdateRow(k, status, intent),
           k \in DOMAIN payments => /\ status \in PaymentStatuses
                                    /\ intent \in Sessions \union {NoSession}
                                    /\ IntentFits(k, intent)' /\ StatusFits(k, status)',
           NEW r \in DOMAIN payments'
    PROVE  RowFits(r, payments[r])'
<1>a. /\ payments \in Seq(Rows) /\ latest \in 0..Len(payments)
      /\ \A j \in DOMAIN payments : RowFits(j, payments[j])
    BY RowsAreFit DEF IInv, TypeOK
<1>1. /\ r \in DOMAIN payments
      /\ payments'[r] = IF r = k THEN [status |-> status, intent |-> intent] ELSE payments[r]
    <2>1. /\ payments' \in Seq(Rows) /\ Len(payments') = Len(payments)
          /\ \A j \in DOMAIN payments :
                payments'[j] = IF j = k THEN [status |-> status, intent |-> intent]
                               ELSE payments[j]
        BY <1>a, UpdateRowType
    <2> QED
        BY <1>a, <2>1
<1>2. CASE r # k
    <2>1. PICK i, st : i = payments[r].intent /\ st = payments[r].status
        OBVIOUS
    <2>2. IntentFits(r, i)' /\ StatusFits(r, st)'
        BY <1>1, <1>a, <2>1, RowKept DEF RowFits
    <2>3. payments'[r].intent = i /\ payments'[r].status = st
        BY <1>1, <1>2, <2>1
    <2> QED
        BY <2>2, <2>3 DEF RowFits
<1>3. CASE r = k
    BY <1>1, <1>3 DEF RowFits
<1> QED
    BY <1>2, <1>3

LEMMA RowsStep == IInv /\ [Next]_vars => IntentsFit' /\ RecordsBacked'
<1>a. (TypeOK => (IntentsFit /\ RecordsBacked <=>
                     \A r \in DOMAIN payments : RowFits(r, payments[r])))'
    BY RowsAreFit, PTL
<1> SUFFICES ASSUME IInv, [Next]_vars, NEW r \in DOMAIN payments'
             PROVE  RowFits(r, payments[r])'
    BY <1>a, TypeStep DEF IInv
<1>b. Grows /\ TypeOK
    BY GrowsStep DEF IInv
<1>1. CASE UNCHANGED payments
    <2>1. RowFits(r, payments[r])
        BY <1>1, <1>b, RowsAreFit DEF IInv
    <2>2. PICK intent, status : intent = payments[r].intent /\ status = payments[r].status
        OBVIOUS
    <2>3. IntentFits(r, intent)' /\ StatusFits(r, status)'
        BY <1>b, <2>1, <2>2, RowKept DEF RowFits
    <2> QED
        BY <1>1, <2>2, <2>3 DEF RowFits
<1>2. CASE ReaderInsert \/ \E h \in Handlers : Insert(h)
    BY <1>2, <1>b, InsertFits DEF ReaderInsert, Insert
<1>3. CASE ReaderFail
    <2>1. PICK k, intent : k = failing /\ intent = payments[failing].intent
        OBVIOUS
    <2>2. k \in 0..Len(payments) /\ UpdateRow(k, "failed", intent)
        BY <1>3, <1>b, <2>1 DEF ReaderFail, TypeOK
    <2>3. ASSUME k \in DOMAIN payments
          PROVE  /\ intent \in Sessions \union {NoSession}
                 /\ IntentFits(k, intent)' /\ StatusFits(k, "failed")'
        <3>1. payments[k] \in Rows /\ RowFits(k, payments[k])
            BY <1>b, <2>3, RowsAreFit DEF IInv, TypeOK
        <3>2. IntentFits(k, intent)'
            BY <1>b, <2>1, <3>1, RowKept DEF RowFits
        <3> QED
            BY <2>1, <3>1, <3>2 DEF Rows, StatusFits
    <2> QED
        BY <1>b, <2>2, <2>3, UpdateFits DEF PaymentStatuses
<1>4. ASSUME NEW h \in Handlers, Write(h) PROVE RowFits(r, payments[r])'
    <2>1. CASE UNCHANGED payments
        BY <1>1, <2>1
    <2>2. CASE ~UNCHANGED payments
        <3>1. PICK k, status : k = job[h].row /\ status = job[h].status
            OBVIOUS
        <3>2. PICK intent \in Intents(h) : UpdateRow(k, status, intent)
            BY <1>4, <2>2, <3>1 DEF Write, rowVars
        <3>3. /\ at[h] = "write"
              /\ byHand' = (byHand \/ (job[h].kind # "stripe" /\ job[h].status # "pending"))
            BY <1>4, <2>2 DEF Write, rowVars, HandlerAt
        <3>4. k \in 0..Len(payments) /\ status \in PaymentStatuses
            BY <1>b, <3>1 DEF TypeOK, Jobs
        <3>5. ASSUME k \in DOMAIN payments
              PROVE  /\ intent \in Sessions \union {NoSession}
                     /\ IntentFits(k, intent)' /\ StatusFits(k, status)'
            <4>1. IntentFits(k, intent)' /\ StatusFits(k, status)'
                BY <1>b, <3>1, <3>2, <3>3, <3>5, WriteFits
            <4>2. intent = NoSession \/ intent \in Sessions
                BY <4>1 DEF IntentFits
            <4> QED
                BY <4>1, <4>2
        <3> QED
            BY <1>b, <3>2, <3>4, <3>5, UpdateFits
    <2> QED
        BY <2>1, <2>2
<1> QED
    BY <1>1, <1>2, <1>3, <1>4, WhoChanges DEF Changes

-----------------------------------------------------------------------------
(* The booking and the results the booking service has not taken.          *)

\* A booking is confirmed by a handler, a result or a client that knows why.
LEMMA BookingStep == IInv /\ [Next]_vars => ConfirmedKnown'
<1> SUFFICES ASSUME IInv, [Next]_vars, booking' = "confirmed" PROVE Justified'
    BY DEF ConfirmedKnown
<1>a. Justified => Justified'
    BY GrowsStep DEF IInv, Grows
<1>1. CASE booking = "confirmed"
    BY <1>1, <1>a DEF IInv, ConfirmedKnown
<1>2. ASSUME NEW h \in Handlers, Confirm(h) PROVE Justified'
    BY <1>2, <1>a DEF Confirm, HandlerAt, IInv, WorkBacked, WorkFits, Fits
<1>3. CASE HandleResult
    <2>1. PICK i \in Offered(results) : booking' = booking \/ booking' = StatusAfter(results[i])
        BY <1>3 DEF HandleResult
    <2>2. i \in DOMAIN results /\ results[i] \in PaymentEvents
        BY DEF Offered, IInv, TypeOK
    <2>3. booking = "confirmed" \/ results[i] = "completed"
        BY <2>1, <2>2 DEF StatusAfter, PaymentEvents
    <2> QED
        BY <1>a, <1>1, <2>2, <2>3 DEF IInv, ResultsKnown
<1>4. CASE SetBooking
    BY <1>4 DEF SetBooking, Justified
<1>5. CASE CancelBooking
    BY <1>5 DEF CancelBooking
<1> QED
    BY <1>1, <1>2, <1>3, <1>4, <1>5, WhoChanges DEF Changes

\* A completed payment is published by a handler that knows why.
LEMMA ResultsStep == IInv /\ [Next]_vars => ResultsKnown'
<1> SUFFICES ASSUME IInv, [Next]_vars, NEW i \in DOMAIN results', results'[i] = "completed"
             PROVE  Justified'
    BY DEF ResultsKnown
<1>a. Justified => Justified'
    BY GrowsStep DEF IInv, Grows
<1>b. results \in Seq(PaymentEvents)
    BY DEF IInv, TypeOK
<1>1. CASE UNCHANGED results
    BY <1>1, <1>a DEF IInv, ResultsKnown
<1>2. ASSUME NEW h \in Handlers, Emit(h) PROVE Justified'
    <2>1. /\ at[h] = "emit" /\ job[h].status \in PaymentEvents
          /\ results' = Append(results, job[h].status) \/ UNCHANGED results
        BY <1>2 DEF Emit, HandlerAt, Publish, IInv, WorkFits, Fits
    <2>2. (i \in DOMAIN results /\ results'[i] = results[i]) \/ results'[i] = job[h].status
        BY <1>b, <2>1
    <2> QED
        BY <1>a, <2>1, <2>2 DEF IInv, ResultsKnown, WorkBacked
<1>3. CASE ReaderEmit
    <2>1. results' = Append(results, "failed") \/ UNCHANGED results
        BY <1>3 DEF ReaderEmit, Publish
    <2>2. i \in DOMAIN results /\ results'[i] = results[i]
        BY <1>b, <2>1 DEF PaymentEvents
    <2> QED
        BY <1>a, <2>2 DEF IInv, ResultsKnown
<1>4. CASE HandleResult
    <2>1. PICK k \in 1..Len(results) : results' = Without(results, k)
        BY <1>4 DEF HandleResult, Offered
    <2>2. \E j \in DOMAIN results : results'[i] = results[j]
        BY <1>b, <2>1, WithoutIsSeq
    <2> QED
        BY <1>a, <2>2 DEF IInv, ResultsKnown
<1> QED
    BY <1>1, <1>2, <1>3, <1>4, WhoChanges DEF Changes

-----------------------------------------------------------------------------
(* The theorems.                                                           *)

LEMMA InitIsFine == Init => IInv
<1> SUFFICES ASSUME Init PROVE IInv
    OBVIOUS
<1>1. TypeOK
    <2>1. bookings \in Seq(BookingEvents)
        <3> DEFINE e == [type |-> "created", status |-> "pending"]
        <3>1. e \in BookingEvents
            BY DEF BookingEvents, BookingStatuses
        <3>2. bookings = <<>> \/ bookings = <<e>>
            BY DEF Init
        <3> HIDE DEF e
        <3>3. <<e>> \in Seq(BookingEvents) /\ <<>> \in Seq(BookingEvents)
            BY <3>1
        <3> QED
            BY <3>2, <3>3
    <2>2. payments \in Seq(Rows) /\ Len(payments) = 0 /\ results \in Seq(PaymentEvents)
        BY DEF Init
    <2>3. booking \in BookingStatuses /\ latest \in 0..Len(payments) /\ due \subseteq Hooks \X Sessions
        BY <2>2 DEF Init, BookingStatuses
    <2>4. stripe \in [Sessions -> SessionStates] /\ rowOf \in [Sessions -> 0..Len(payments)]
        BY <2>2 DEF Init, SessionStates
    <2>5. /\ at \in [Handlers -> HandlerSteps] /\ job \in [Handlers -> Jobs]
          /\ \A h \in Handlers : job[h].row \in 0..Len(payments)
        BY <2>2, ConstantTypes DEF Init, HandlerSteps
    <2>6. /\ event \in BookingEvents /\ failing \in 0..Len(payments) /\ seen \in BookingStatuses
          /\ reader = "idle" /\ announcer = "idle"
        BY <2>2, ConstantTypes DEF Init, BookingStatuses
    <2>7. byHand \in BOOLEAN
        BY Zenon DEF Init
    <2> QED
        BY <2>1, <2>2, <2>3, <2>4, <2>5, <2>6, <2>7 DEF TypeOK
<1>2. WorkFits /\ \A h \in Handlers : WorkBacked(h)
    BY DEF Init, WorkFits, Fits, WorkBacked, NoJob
<1>3. DueBacked /\ IntentsFit /\ ConfirmedKnown /\ ResultsKnown
    BY DEF Init, DueBacked, IntentsFit, ConfirmedKnown, ResultsKnown
<1>4. RecordsBacked
    BY DEF Init, RecordsBacked
<1> QED
    BY <1>1, <1>2, <1>3, <1>4 DEF IInv

\* The invariant is inductive.
LEMMA InvStep == IInv /\ [Next]_vars => IInv'
<1> SUFFICES ASSUME IInv, [Next]_vars PROVE IInv'
    OBVIOUS
<1>1. TypeOK'
    BY TypeStep DEF IInv
<1>2. WorkFits' /\ (\A h \in Handlers : WorkBacked(h))'
    BY JobsStep DEF WorkFits
<1> QED
    BY <1>1, <1>2, DueStep, RowsStep, BookingStep, ResultsStep DEF IInv

LEMMA Invariance == Spec => []IInv
    BY InitIsFine, InvStep, PTL DEF Spec

\* Type correctness: the rows, the topics and the handlers' jobs are what they
\* should be; a handler's row is a row of the table.
THEOREM TypeCorrect == Spec => []TypeOK
<1>1. IInv => TypeOK
    BY DEF IInv
<1> QED
    BY <1>1, Invariance, PTL

\* A booking is confirmed only if the customer completed a checkout session of it
\* or a client set a status by hand, whatever pages are opened, whatever fails, is
\* repeated, reordered, or lost in a restart.
THEOREM ConfirmedOnlyForCheckout == Spec => []ConfirmedHasCheckout
<1>1. IInv => ConfirmedHasCheckout
    BY Zenon DEF IInv, ConfirmedKnown, Justified, ConfirmedHasCheckout
<1> QED
    BY <1>1, Invariance, PTL

\* A row is completed, or refunded, only if a session opened for that row was
\* completed, or refunded.
THEOREM RecordsOnlyIfBacked == Spec => []RecordsBacked
<1>1. IInv => RecordsBacked
    BY Zenon DEF IInv
<1> QED
    BY <1>1, Invariance, PTL

-----------------------------------------------------------------------------
(* What a confirmed booking is cancelled for.                              *)

\* A session was refunded, or a client set a status by hand.
Refunded == byHand \/ \E s \in Sessions : stripe[s] = "refunded"

\* Whoever publishes a refund, and whoever reads of one, knows that there was one.
RefundInv ==
    /\ \A h \in Handlers : at[h] = "emit" /\ job[h].status = "refunded" => Refunded
    /\ \A i \in DOMAIN results : results[i] = "refunded" => Refunded

\* A refund is not taken back.
LEMMA RefundedGrows == ASSUME Grows, Refunded PROVE Refunded'
<1>1. CASE byHand
    BY <1>1, Zenon DEF Grows, Refunded
<1>2. CASE \E s \in Sessions : stripe[s] = "refunded"
    BY <1>2, Zenon DEF Grows, SessionsGrow, Refunded
<1> QED
    BY <1>1, <1>2, Zenon DEF Refunded

\* A handler that is about to publish a refund has stored it: for a webhook of a
\* refunded session, or by hand.
LEMMA EmitsRefund ==
    ASSUME IInv, RefundInv, [Next]_vars, NEW g \in Handlers, at'[g] = "emit",
           job'[g].status = "refunded"
    PROVE  Refunded'
<1>a. at \in [Handlers -> HandlerSteps] /\ job \in [Handlers -> Jobs]
    BY DEF IInv, TypeOK
<1>b. WorkBacked(g) /\ Fits(g)
    BY DEF IInv, WorkFits
<1>c. Grows
    BY GrowsStep DEF IInv
<1>1. CASE at'[g] = at[g] /\ job'[g] = job[g]
    BY <1>1, <1>c, RefundedGrows DEF RefundInv
<1>2. CASE Restart
    BY <1>2 DEF Restart
<1>3. CASE Begin(g) \/ \E hook \in Hooks, s \in Sessions : Deliver(g, hook, s)
    <2>1. \E here \in {"check", "write", "resolve"} : \E work : Starts(g, here, work)
        BY <1>3 DEF Begin, StartRequest, StartPut, OpenPage, Deliver
    <2> QED
        BY <1>a, <2>1 DEF Starts, HandlerGoes
<1>4. CASE HandlerStep(g)
    <2>1. CASE Write(g)
        <3>1. CASE Fails(g)
            BY <3>1, <1>a DEF Fails, Ends, HandlerGoes
        <3>2. CASE ~Fails(g)
            <4>1. /\ at[g] = "write"
                  /\ byHand' = (byHand \/ (job[g].kind # "stripe" /\ job[g].status # "pending"))
                  /\ Ends(g) \/ UNCHANGED job
                  /\ UNCHANGED stripe
                BY <2>1, <3>2 DEF Write, HandlerAt
            <4>2. ~Ends(g)
                BY <1>a DEF Ends, HandlerGoes
            <4>3. job[g].status = "refunded"
                BY <4>1, <4>2
            <4>4. CASE job[g].kind = "stripe"
                <5>1. HookBacked("refunded", job[g].session)
                    BY <1>b, <4>1, <4>3, <4>4 DEF WorkBacked
                <5> QED
                    BY <4>1, <5>1 DEF HookBacked, Refunded
            <4>5. CASE job[g].kind # "stripe"
                <5>1. job[g].status # "pending"
                    BY <4>3
                <5> QED
                    BY <4>1, <4>5, <5>1, Zenon DEF Refunded
            <4> QED
                BY <4>4, <4>5
        <3> QED
            BY <3>1, <3>2
    <2>2. CASE Confirm(g)
        <3>1. at[g] = "confirm" /\ (Ends(g) \/ UNCHANGED job)
            BY <2>2 DEF Confirm, HandlerAt, Fails
        <3>2. ~Ends(g)
            BY <1>a DEF Ends, HandlerGoes
        <3> QED
            BY <1>b, <3>1, <3>2 DEF Fits
    <2>3. CASE Check(g) \/ Select(g) \/ Insert(g) \/ CreateSession(g) \/ Resolve(g) \/ Emit(g)
        <3>1. Ends(g) \/ \E there \in {"select", "insert", "write", "session"} : HandlerGoes(g, there)
            BY <2>3 DEF Check, Select, HasRow, Insert, CreateSession, Resolve, Emit, Fails
        <3> QED
            BY <1>a, <3>1 DEF Ends, HandlerGoes
    <2> QED
        BY <1>4, <2>1, <2>2, <2>3 DEF HandlerStep
<1>5. ASSUME NEW h \in Handlers, h # g,
             \/ Begin(h) \/ HandlerStep(h)
             \/ \E hook \in Hooks, s \in Sessions : Deliver(h, hook, s)
      PROVE  at'[g] = at[g] /\ job'[g] = job[g]
    BY <1>5, OtherHandlers DEF IInv
<1>6. ASSUME NEW s \in Sessions, StripeActs(s) PROVE UNCHANGED <<at, job>>
    BY <1>6 DEF StripeActs, Pay, PayLater, Settle, Lapse, Decline, Expire, Refund, StripeStep,
                handlerVars
<1> QED
    BY <1>1, <1>2, <1>3, <1>4, <1>5, <1>6, WhoChanges DEF Changes

\* What a step adds to the topic payments is what a handler publishes, or a failure.
LEMMA ResultsCome ==
    ASSUME IInv, [Next]_vars, NEW i \in DOMAIN results'
    PROVE  \/ \E j \in DOMAIN results : results'[i] = results[j]
           \/ \E h \in Handlers : at[h] = "emit" /\ results'[i] = job[h].status
           \/ results'[i] = "failed"
<1>a. results \in Seq(PaymentEvents)
    BY DEF IInv, TypeOK
<1>1. CASE UNCHANGED results
    BY <1>1
<1>2. ASSUME NEW h \in Handlers, Emit(h)
      PROVE  (\E j \in DOMAIN results : results'[i] = results[j])
             \/ (at[h] = "emit" /\ results'[i] = job[h].status)
    <2>1. /\ at[h] = "emit" /\ job[h].status \in PaymentEvents
          /\ results' = Append(results, job[h].status) \/ UNCHANGED results
        BY <1>2 DEF Emit, HandlerAt, Publish, IInv, WorkFits, Fits
    <2>2. (i \in DOMAIN results /\ results'[i] = results[i]) \/ results'[i] = job[h].status
        BY <1>a, <2>1
    <2> QED
        BY <2>1, <2>2
<1>3. CASE ReaderEmit
    <2>1. results' = Append(results, "failed") \/ UNCHANGED results
        BY <1>3 DEF ReaderEmit, Publish
    <2>2. (i \in DOMAIN results /\ results'[i] = results[i]) \/ results'[i] = "failed"
        BY <1>a, <2>1
    <2> QED
        BY <2>2
<1>4. CASE HandleResult
    <2>1. PICK k \in 1..Len(results) : results' = Without(results, k)
        BY <1>4 DEF HandleResult, Offered
    <2> QED
        BY <1>a, <2>1, WithoutIsSeq
<1> QED
    BY <1>1, <1>2, <1>3, <1>4, WhoChanges DEF Changes

LEMMA RefundStep == IInv /\ RefundInv /\ [Next]_vars => RefundInv'
<1> SUFFICES ASSUME IInv, RefundInv, [Next]_vars PROVE RefundInv'
    OBVIOUS
<1>a. Grows
    BY GrowsStep DEF IInv
<1>1. ASSUME NEW h \in Handlers, at'[h] = "emit", job'[h].status = "refunded"
      PROVE  Refunded'
    BY <1>1, EmitsRefund
<1>2. ASSUME NEW i \in DOMAIN results', results'[i] = "refunded"
      PROVE  Refunded'
    BY <1>2, <1>a, ResultsCome, RefundedGrows DEF RefundInv
<1> QED
    BY <1>1, <1>2 DEF RefundInv

LEMMA RefundInvariance == Spec => []RefundInv
<1>1. Init => RefundInv
    BY DEF Init, RefundInv
<1> QED
    BY <1>1, RefundStep, Invariance, PTL DEF Spec

\* The UPDATE of the booking service cancels a confirmed booking for a refund only.
LEMMA CancelledForRefund ==
    ASSUME IInv, RefundInv, [Next]_vars, booking = "confirmed", booking' # "confirmed",
           ~CancelBooking
    PROVE  Refunded'
<1>a. Grows
    BY GrowsStep DEF IInv
<1>1. ASSUME NEW h \in Handlers, Confirm(h) PROVE FALSE
    BY <1>1 DEF Confirm
<1>2. CASE HandleResult
    <2>1. PICK i \in Offered(results) : booking' = booking \/ booking' = StatusAfter(results[i])
        BY <1>2 DEF HandleResult
    <2>2. i \in DOMAIN results /\ results[i] \in PaymentEvents
        BY DEF Offered, IInv, TypeOK
    <2>3. results[i] = "refunded"
        BY <2>1, <2>2 DEF StatusAfter, PaymentEvents
    <2> QED
        BY <1>a, <2>2, <2>3, RefundedGrows DEF RefundInv
<1>3. CASE SetBooking
    BY <1>3 DEF SetBooking, Refunded
<1> QED
    BY <1>1, <1>2, <1>3, WhoChanges DEF Changes

\* Whatever the environment does, a confirmed booking stops being confirmed only
\* when the customer cancels it, after a session of it was refunded, or after a
\* client set a status by hand: failed payments that come late, twice or out of
\* order never cancel it.
THEOREM ConfirmedLeftForCause ==
    Spec => [][booking = "confirmed" =>
                  booking' = "confirmed" \/ CancelBooking \/ Refunded']_booking
<1>1. IInv /\ RefundInv /\ [Next]_vars =>
         [booking = "confirmed" => booking' = "confirmed" \/ CancelBooking \/ Refunded']_booking
    BY CancelledForRefund
<1> QED
    BY <1>1, Invariance, RefundInvariance, PTL DEF Spec

-----------------------------------------------------------------------------
(* Environments without refunds, and without statuses set by hand.         *)

NotByHand == \A h \in Handlers : job[h].kind # "stripe" => job[h].status = "pending"

QuietInv == NotByHand /\ ~Refunded

\* Then requests store no status but pending.
LEMMA KindsStep ==
    ASSUME ~May("manual"), TypeOK, NotByHand, [Next]_vars
    PROVE  NotByHand'
<1> SUFFICES ASSUME NEW g \in Handlers
             PROVE  job'[g].kind # "stripe" => job'[g].status = "pending"
    BY DEF NotByHand
<1>a. at \in [Handlers -> HandlerSteps] /\ job \in [Handlers -> Jobs]
    BY DEF TypeOK
<1>b. NoJob.kind = "stripe"
    BY DEF NoJob
<1>1. CASE job'[g] = job[g]
    BY <1>1 DEF NotByHand
<1>2. CASE Restart
    BY <1>2, <1>b DEF Restart
<1>3. CASE StartRequest(g)
    BY <1>3, <1>a DEF StartRequest, Starts, NoJob
<1>4. CASE OpenPage(g)
    BY <1>4, <1>a DEF OpenPage, Starts, NoJob
<1>5. ~StartPut(g)
    BY DEF StartPut
<1>6. ASSUME NEW hook \in Hooks, NEW s \in Sessions, Deliver(g, hook, s)
      PROVE  job'[g].kind = "stripe"
    BY <1>6, <1>a DEF Deliver, Starts, NoJob
<1>7. CASE HandlerStep(g)
    <2>1. Ends(g) \/ UNCHANGED job \/ \E r : job' = [job EXCEPT ![g].row = r]
        BY <1>7 DEF HandlerStep, Check, Select, HasRow, Insert, CreateSession, Resolve, Write,
                    Confirm, Emit, Fails
    <2>2. ASSUME NEW r, job' = [job EXCEPT ![g].row = r]
          PROVE  job'[g].kind = job[g].kind /\ job'[g].status = job[g].status
        BY <2>2, <1>a DEF Jobs
    <2> QED
        BY <1>a, <1>b, <2>1, <2>2 DEF Ends, NotByHand
<1>8. ASSUME NEW h \in Handlers, h # g,
             \/ Begin(h) \/ HandlerStep(h)
             \/ \E hook \in Hooks, s \in Sessions : Deliver(h, hook, s)
      PROVE  job'[g] = job[g]
    BY <1>8, OtherHandlers
<1>9. ASSUME NEW s \in Sessions, StripeActs(s) PROVE UNCHANGED job
    BY <1>9 DEF StripeActs, Pay, PayLater, Settle, Lapse, Decline, Expire, Refund, StripeStep,
                handlerVars
<1> QED
    BY <1>1, <1>2, <1>3, <1>4, <1>5, <1>6, <1>7, <1>8, <1>9, WhoChanges DEF Changes, Begin

\* Then no charge is refunded either.
LEMMA QuietStep ==
    ASSUME ~May("manual"), ~May("refund"), IInv, QuietInv, [Next]_vars
    PROVE  QuietInv'
<1>1. ~byHand'
    <2>1. ASSUME NEW h \in Handlers, Write(h) PROVE ~byHand'
        <3>1. \/ byHand' = (byHand \/ (job[h].kind # "stripe" /\ job[h].status # "pending"))
              \/ byHand' = byHand
            BY <2>1 DEF Write
        <3>2. job[h].kind # "stripe" => job[h].status = "pending"
            BY DEF QuietInv, NotByHand
        <3> QED
            BY <3>1, <3>2, Zenon DEF QuietInv, Refunded
    <2>2. ~SetBooking
        BY DEF SetBooking
    <2>3. CASE UNCHANGED byHand
        BY <2>3, Zenon DEF QuietInv, Refunded
    <2> QED
        BY <2>1, <2>2, <2>3, WhoChanges DEF Changes
<1>2. ASSUME NEW s \in Sessions PROVE stripe'[s] # "refunded"
    <2>a. stripe \in [Sessions -> SessionStates] /\ stripe[s] # "refunded"
        BY DEF IInv, TypeOK, QuietInv, Refunded
    <2>1. ASSUME NEW t \in Sessions, StripeActs(t) PROVE stripe'[s] # "refunded"
        <3>1. PICK from, to, hooks : StripeStep(t, from, to, hooks) /\ to # "refunded"
            BY <2>1 DEF StripeActs, Pay, PayLater, Settle, Lapse, Decline, Expire, Refund
        <3> QED
            BY <2>a, <3>1 DEF StripeStep
    <2>2. ASSUME NEW h \in Handlers, CreateSession(h) PROVE stripe'[s] # "refunded"
        BY <2>2, <2>a DEF CreateSession
    <2> QED
        BY <2>a, <2>1, <2>2, WhoChanges DEF Changes
<1>3. NotByHand'
    BY KindsStep DEF IInv, QuietInv
<1>4. ~Refunded'
    BY <1>1, <1>2, Zenon DEF Refunded
<1> QED
    BY <1>3, <1>4 DEF QuietInv

\* A booking that was confirmed stays confirmed, however many failures, expired
\* sessions and cancel pages come late, when customers do not cancel, nothing is
\* refunded and no client sets a status by hand.
THEOREM ConfirmedStaysConfirmed ==
    ASSUME ~May("cancel"), ~May("refund"), ~May("manual")
    PROVE  Spec => ConfirmedStays
<1>1. Init => QuietInv
    BY DEF Init, QuietInv, NotByHand, Refunded, NoJob
<1>2. IInv /\ QuietInv /\ [Next]_vars => QuietInv'
    BY QuietStep
<1>3. IInv /\ RefundInv /\ QuietInv /\ QuietInv' /\ [Next]_vars =>
         [booking = "confirmed" => booking' = "confirmed"]_booking
    BY CancelledForRefund DEF QuietInv, CancelBooking
<1> QED
    BY <1>1, <1>2, <1>3, Invariance, RefundInvariance, PTL DEF Spec, ConfirmedStays

-----------------------------------------------------------------------------
(* The booking and the payment service implement BookingOrder.             *)

Refunds == {s \in Sessions : stripe[s] = "refunded"}

\* With a step of Stripe a session is completed, refunded, or neither.
LEMMA StripeOrders ==
    ASSUME TypeOK, NEW s \in Sessions, StripeActs(s)
    PROVE  /\ UNCHANGED <<booking, byHand>>
           /\ \/ UNCHANGED <<Complete, Refunds>>
              \/ /\ s \notin Complete /\ Complete' = Complete \union {s}
                 /\ UNCHANGED Refunds
              \/ /\ s \in Complete \ Refunds /\ Refunds' = Refunds \union {s}
                 /\ UNCHANGED Complete
<1>1. PICK from, to, hooks :
         /\ StripeStep(s, from, to, hooks)
         /\ \/ from = "paid" /\ to = "refunded"
            \/ from \in {"none", "open", "expired"} /\ to \in {"paid", "processing"}
            \/ from \in {"none", "open", "expired"} /\ to \in {"none", "open", "expired"}
            \/ from = "processing" /\ to \in {"paid", "lapsed"}
    BY DEF StripeActs, Pay, PayLater, Settle, Lapse, Decline, Expire, Refund
<1>2. /\ stripe[s] = from
      /\ \A t \in Sessions : stripe'[t] = IF t = s THEN to ELSE stripe[t]
    BY <1>1 DEF StripeStep, TypeOK
<1>3. UNCHANGED <<booking, byHand>>
    BY <1>1 DEF StripeStep
<1>4. CASE from = "paid" /\ to = "refunded"
    BY <1>2, <1>3, <1>4 DEF Complete, Charged, Refunds
<1>5. CASE from \in {"none", "open", "expired"} /\ to \in {"paid", "processing"}
    BY <1>2, <1>3, <1>5 DEF Complete, Charged, Refunds
<1>6. CASE from \in {"none", "open", "expired"} /\ to \in {"none", "open", "expired"}
    BY <1>2, <1>3, <1>6 DEF Complete, Charged, Refunds
<1>7. CASE from = "processing" /\ to \in {"paid", "lapsed"}
    BY <1>2, <1>3, <1>7 DEF Complete, Charged, Refunds
<1> QED
    BY <1>1, <1>4, <1>5, <1>6, <1>7

\* A new session is not completed.
LEMMA OpeningOrders ==
    ASSUME TypeOK, NEW h \in Handlers, CreateSession(h)
    PROVE  UNCHANGED <<Complete, Refunds>>
<1>1. UNCHANGED stripe \/ \E s \in Sessions : /\ stripe[s] = "none"
                                              /\ stripe' = [stripe EXCEPT ![s] = "open"]
    BY DEF CreateSession
<1>2. CASE UNCHANGED stripe
    BY <1>2 DEF Complete, Charged, Refunds
<1>3. ASSUME NEW s \in Sessions, stripe[s] = "none", stripe' = [stripe EXCEPT ![s] = "open"]
      PROVE  UNCHANGED <<Complete, Refunds>>
    <2>1. \A t \in Sessions : stripe'[t] = IF t = s THEN "open" ELSE stripe[t]
        BY <1>3 DEF TypeOK
    <2> QED
        BY <1>3, <2>1 DEF Complete, Charged, Refunds
<1> QED
    BY <1>1, <1>2, <1>3

\* The steps that change what BookingOrder is about.
OrderChanges ==
    \/ UNCHANGED <<booking, Complete, Refunds, byHand>>
    \/ \E s \in Sessions : StripeActs(s)
    \/ /\ UNCHANGED <<Complete, Refunds>>
       /\ \/ UNCHANGED byHand /\ ((\E h \in Handlers : Confirm(h)) \/ HandleResult \/ CancelBooking)
          \/ byHand' = TRUE /\ booking' \in BookingStatuses

LEMMA WhoOrders == ASSUME IInv, [Next]_vars PROVE OrderChanges
<1> USE DEF rowVars, stripeVars, handlerVars, readerVars, resultVars
<1>a. UNCHANGED stripe => UNCHANGED <<Complete, Refunds>>
    BY DEF Complete, Charged, Refunds
<1>1. ASSUME NEW h \in Handlers, HandlerStep(h) PROVE OrderChanges
    <2>1. CASE Write(h)
        <3>1. UNCHANGED <<booking, stripe>> /\ (byHand' = byHand \/ byHand' = TRUE)
            <4>1. \/ byHand' = (byHand \/ (job[h].kind # "stripe" /\ job[h].status # "pending"))
                  \/ byHand' = byHand
                BY <2>1 DEF Write
            <4>2. byHand \in BOOLEAN
                BY DEF IInv, TypeOK
            <4>3. byHand' = byHand \/ byHand' = TRUE
                BY <4>1, <4>2, Zenon
            <4>4. UNCHANGED <<booking, stripe>>
                BY <2>1 DEF Write
            <4> QED
                BY <4>3, <4>4, Zenon
        <3>2. booking' \in BookingStatuses
            BY <3>1 DEF IInv, TypeOK
        <3> QED
            BY <1>a, <3>1, <3>2, Zenon DEF OrderChanges
    <2>2. CASE CreateSession(h)
        <3>1. UNCHANGED <<booking, byHand>>
            BY <2>2 DEF CreateSession
        <3>2. UNCHANGED <<Complete, Refunds>>
            BY <2>2, OpeningOrders DEF IInv
        <3> QED
            BY <3>1, <3>2, Zenon DEF OrderChanges
    <2>3. CASE Confirm(h)
        <3>1. UNCHANGED <<stripe, byHand>>
            BY <2>3 DEF Confirm
        <3> QED
            BY <1>a, <2>3, <3>1, Zenon DEF OrderChanges
    <2>4. CASE Check(h) \/ Select(h) \/ Insert(h) \/ Resolve(h) \/ Emit(h)
        <3>1. UNCHANGED <<stripe, booking, byHand>>
            BY <2>4 DEF Check, Select, Insert, Resolve, Emit
        <3> QED
            BY <1>a, <3>1, Zenon DEF OrderChanges
    <2> QED
        BY <1>1, <2>1, <2>2, <2>3, <2>4 DEF HandlerStep
<1>2. ASSUME \/ \E h \in Handlers : Begin(h)
             \/ \E h \in Handlers, hook \in Hooks, s \in Sessions : Deliver(h, hook, s)
             \/ ReaderStep \/ Restart
             \/ ReadBooking \/ Announce \/ AnnouncerFails
             \/ UNCHANGED vars
      PROVE  OrderChanges
    <2> SUFFICES UNCHANGED <<stripe, booking, byHand>>
        BY <1>a, Zenon DEF OrderChanges
    <2>1. ASSUME NEW h \in Handlers, Begin(h) PROVE UNCHANGED <<stripe, booking, byHand>>
        BY <2>1 DEF Begin, StartRequest, StartPut, OpenPage
    <2>2. ASSUME NEW h \in Handlers, NEW hook \in Hooks, NEW s \in Sessions, Deliver(h, hook, s)
          PROVE  UNCHANGED <<stripe, booking, byHand>>
        BY <2>2 DEF Deliver
    <2>3. CASE ReaderStep
        BY <2>3 DEF ReaderStep, ReadEvent, ReaderInsert, ReaderLookup, ReaderFail, ReaderEmit,
                    ReaderFails
    <2>4. CASE Restart
        BY <2>4 DEF Restart
    <2>5. CASE ReadBooking \/ Announce \/ AnnouncerFails
        BY <2>5 DEF ReadBooking, Announce, AnnouncerFails
    <2>6. CASE UNCHANGED vars
        BY <2>6 DEF vars
    <2> QED
        BY <1>2, <2>1, <2>2, <2>3, <2>4, <2>5, <2>6
<1>3. CASE HandleResult \/ CancelBooking
    <2>1. UNCHANGED <<stripe, byHand>>
        BY <1>3 DEF HandleResult, CancelBooking
    <2> QED
        BY <1>a, <1>3, <2>1, Zenon DEF OrderChanges
<1>4. CASE SetBooking
    <2>1. UNCHANGED stripe /\ byHand' = TRUE /\ booking' \in BookingStatuses
        BY <1>4 DEF SetBooking
    <2> QED
        BY <1>a, <2>1, Zenon DEF OrderChanges
<1>5. CASE \E s \in Sessions : StripeActs(s)
    BY <1>5, Zenon DEF OrderChanges
<1> QED
    BY <1>1, <1>2, <1>3, <1>4, <1>5 DEF Next, AnnouncerStep

\* Confirming, and what the UPDATE of the booking service does with a result, are
\* steps of BookingOrder, or change nothing.
LEMMA StatusOrders ==
    ASSUME IInv, RefundInv, (\E h \in Handlers : Confirm(h)) \/ HandleResult \/ CancelBooking
    PROVE  \/ UNCHANGED booking
           \/ booking' = "confirmed" /\ Justified
           \/ booking' = "cancelled" /\ (booking # "confirmed" \/ Refunded \/ May("cancel"))
<1>1. ASSUME NEW h \in Handlers, Confirm(h), booking' # booking
      PROVE  booking' = "confirmed" /\ Justified
    <2>1. at[h] = "confirm" /\ booking' = "confirmed"
        BY <1>1 DEF Confirm, HandlerAt
    <2>2. job[h].status = "completed"
        BY <2>1 DEF IInv, WorkFits, Fits
    <2> QED
        BY <2>1, <2>2 DEF IInv, WorkBacked
<1>2. CASE HandleResult
    <2>1. PICK i \in Offered(results) : booking' = booking \/ booking' = StatusAfter(results[i])
        BY <1>2 DEF HandleResult
    <2>2. i \in DOMAIN results /\ results[i] \in PaymentEvents
        BY DEF Offered, IInv, TypeOK
    <2>3. CASE results[i] = "completed"
        <3>1. Justified
            BY <2>2, <2>3 DEF IInv, ResultsKnown
        <3> QED
            BY <2>1, <2>3, <3>1 DEF StatusAfter
    <2>4. CASE results[i] = "failed"
        BY <2>1, <2>4 DEF StatusAfter
    <2>5. CASE results[i] = "refunded"
        <3>1. Refunded
            BY <2>2, <2>5 DEF RefundInv
        <3> QED
            BY <2>1, <2>5, <3>1 DEF StatusAfter
    <2> QED
        BY <2>2, <2>3, <2>4, <2>5 DEF PaymentEvents
<1>3. CASE CancelBooking
    BY <1>3 DEF CancelBooking
<1> QED
    BY <1>1, <1>2, <1>3

\* Every step is a step of BookingOrder, or does not concern it.
LEMMA OrderStep == IInv /\ RefundInv /\ [Next]_vars => [Order!Next]_(Order!ovars)
<1> SUFFICES ASSUME IInv, RefundInv, [Next]_vars
             PROVE  Order!Next \/ UNCHANGED <<booking, Complete, Refunds, byHand>>
    BY Zenon DEF Order!ovars, Refunds
<1>1. ASSUME NEW s \in Sessions, StripeActs(s)
      PROVE  Order!Next \/ UNCHANGED <<booking, Complete, Refunds, byHand>>
    <2>1. CASE s \notin Complete /\ Complete' = Complete \union {s} /\ UNCHANGED Refunds
        <3>1. Order!Checkout(s)
            BY <1>1, <2>1, StripeOrders, Zenon DEF Order!Checkout, Refunds, IInv
        <3> QED
            BY <3>1, Zenon DEF Order!Next
    <2>2. CASE s \in Complete \ Refunds /\ Refunds' = Refunds \union {s} /\ UNCHANGED Complete
        <3>1. Order!Refund(s)
            BY <1>1, <2>2, StripeOrders, Zenon DEF Order!Refund, Refunds, IInv
        <3> QED
            BY <3>1, Zenon DEF Order!Next
    <2> QED
        BY <1>1, <2>1, <2>2, StripeOrders, Zenon DEF IInv
<1>2. ASSUME UNCHANGED <<Complete, Refunds, byHand>>,
             (\E h \in Handlers : Confirm(h)) \/ HandleResult \/ CancelBooking
      PROVE  Order!Next \/ UNCHANGED <<booking, Complete, Refunds, byHand>>
    <2>1. CASE UNCHANGED booking
        BY <1>2, <2>1, Zenon
    <2>2. CASE booking' = "confirmed" /\ Justified
        <3>1. Order!Confirm
            BY <1>2, <2>2, Zenon DEF Order!Confirm, Order!Become, Refunds, Justified
        <3> QED
            BY <3>1, Zenon DEF Order!Next
    <2>3. CASE booking' = "cancelled" /\ booking # "confirmed"
        <3>1. Order!Void
            BY <1>2, <2>3, Zenon DEF Order!Void, Order!Become, Refunds
        <3> QED
            BY <3>1, Zenon DEF Order!Next
    <2>4. CASE booking' = "cancelled" /\ Refunded
        <3>1. Refunds # {} \/ byHand
            BY <2>4, Zenon DEF Refunded, Refunds
        <3>2. Order!Revoke
            BY <1>2, <2>4, <3>1, Zenon DEF Order!Revoke, Order!Become, Refunds
        <3> QED
            BY <3>2, Zenon DEF Order!Next
    <2>5. CASE booking' = "cancelled" /\ May("cancel")
        <3>1. Order!Cancel
            BY <1>2, <2>5, Zenon DEF Order!Cancel, Order!Become, Refunds
        <3> QED
            BY <3>1, Zenon DEF Order!Next
    <2> QED
        BY <1>2, <2>1, <2>2, <2>3, <2>4, <2>5, StatusOrders, Zenon
<1>3. ASSUME UNCHANGED <<Complete, Refunds>>, byHand' = TRUE, booking' \in BookingStatuses
      PROVE  Order!Next
    <2>1. Order!Override
        BY <1>3, Zenon DEF Order!Override, Order!Statuses, BookingStatuses, Refunds
    <2> QED
        BY <2>1, Zenon DEF Order!Next
<1>4. OrderChanges
    BY WhoOrders
<1> QED
    BY <1>1, <1>2, <1>3, <1>4, Zenon DEF OrderChanges

\* Whatever fails, is repeated or reordered, the two services do to a booking only
\* what BookingOrder allows: it is confirmed for a completed session, voided by a
\* failure only while it is not confirmed, and revoked only for a refund; the
\* exceptions are the customer's cancellation and statuses set by hand.
THEOREM Implementation == Spec => ImplementsOrder
<1>1. Init => Order!Init
    BY DEF Init, Order!Init, Complete, Charged
<1> QED
    BY <1>1, OrderStep, Invariance, RefundInvariance, PTL
    DEF Spec, ImplementsOrder, Order!Spec

=============================================================================
