--------------------------- MODULE EventInventory ---------------------------
(***************************************************************************)
(* One event of the event service: its row in the table events, the cached *)
(* answers in Redis that show it (eventController.js), and the consumer of *)
(* the topic payments that takes the tickets of paid bookings off it       *)
(* (config/kafka.js).                                                      *)
(*                                                                         *)
(* Handlers and consumer are Node.js functions that let others run at each *)
(* await; an action is one command to the database or to Redis.            *)
(***************************************************************************)
EXTENDS Integers, FiniteSets

CONSTANTS
    Handlers,       \* the HTTP requests the service works on at a time
    Consumer,       \* the consumer of the topic payments
    Owners,         \* the users who may own the event
    NoOwner,        \* user_id is NULL
    Bookings,       \* the bookings of the event
    NoBooking,
    TicketsOf,      \* the number of tickets of each booking
    Totals,         \* the numbers of tickets a client may create the event with
    Patches,        \* the bodies of PUT requests
    Keep,           \* a field that is not in the body
    NoEvent,        \* no row
    Empty,          \* no value in the cache
    ReadKeys,       \* the keys whose GET routes clients use
    MaxSends,       \* bound: publications of payment.completed for a booking
    MaxRestarts,    \* bound: restarts of the service
    Allowed         \* what the environment may do

\* HTTP calls, Redis and the database fail; the service restarts.
EnvironmentKinds == {"http", "redis", "db", "crash"}

OwnerIds == Owners \union {NoOwner}

\* The keys of the cached answers: events:all, events:<id>, one page of
\* events:upcoming, and events:user:<owner> of each owner.
Keys == {"all", "byId", "upcoming"} \union Owners

Events    == [total : Nat, available : Nat, owner : OwnerIds]
Snapshots == Events \union {NoEvent}
PatchType == [total : Int \union {Keep}, available : Int \union {Keep},
              owner : OwnerIds \union {Keep}]

ASSUME ConstantsAssumption ==
    /\ Consumer \notin Handlers
    /\ NoOwner \notin Owners
    /\ Owners \intersect {"all", "byId", "upcoming"} = {}
    /\ NoBooking \notin Bookings
    /\ TicketsOf \in [Bookings -> Nat \ {0}]
    /\ Totals \subseteq Int
    /\ Patches \subseteq PatchType
    /\ NoEvent \notin Events
    /\ Empty \notin Snapshots
    /\ ReadKeys \subseteq Keys
    /\ MaxSends \in Nat
    /\ MaxRestarts \in Nat
    /\ Allowed \subseteq EnvironmentKinds

Procs == Handlers \union {Consumer}

VARIABLES
    row,        \* the row of the event
    born,       \* whether its id was given out
    cache,      \* what Redis has under each key
    at,         \* where each handler and the consumer is
    seen,       \* what it has read of the event
    key,        \* the key a GET handler is to fill
    patch,      \* the body of its PUT request
    todo,       \* the keys it has yet to delete
    booked,     \* the bookings made, all of which may be paid
    sent,       \* how often payment.completed was published for a booking
    inbox,      \* how many of these messages the consumer has not worked on
    resolved,   \* how many it has, whose offsets are not committed
    taken,      \* the booking the consumer works on
    restarts,
    deducted,   \* history: how often the tickets of a booking were taken off
    givenUp,    \* history: the bookings for which there were too few, or a call failed
    lapsed,     \* history: the cached answers nobody is going to delete
    takenOff,   \* history: the number of tickets taken off by the consumer
    adrift      \* history: an update has set the numbers, or overwritten newer ones

procVars == <<at, seen, key, patch, todo>>
payVars  == <<booked, sent>>
countVars == <<takenOff, adrift>>
msgVars  == <<inbox, resolved, taken>>
histVars == <<deducted, givenUp>>
vars == <<row, born, cache, at, seen, key, patch, todo, booked, sent, inbox, resolved,
          taken, restarts, deducted, givenUp, lapsed, takenOff, adrift>>

NoPatch == [total |-> Keep, available |-> Keep, owner |-> Keep]

Steps == {"idle", "select", "fill", "write", "reduce", "sweep", "pages"}

TypeOK ==
    /\ row \in Snapshots
    /\ born \in BOOLEAN
    /\ cache \in [Keys -> Snapshots \union {Empty}]
    /\ at \in [Procs -> Steps]
    /\ seen \in [Procs -> Snapshots]
    /\ key \in [Procs -> Keys]
    /\ patch \in [Procs -> PatchType]
    /\ todo \in [Procs -> SUBSET Keys]
    /\ booked \subseteq Bookings
    /\ sent \in [Bookings -> Nat]
    /\ inbox \in [Bookings -> Nat]
    /\ resolved \in [Bookings -> Nat]
    /\ taken \in Bookings \union {NoBooking}
    /\ restarts \in Nat
    /\ deducted \in [Bookings -> Nat]
    /\ givenUp \subseteq Bookings
    /\ lapsed \subseteq Keys
    /\ takenOff \in Nat
    /\ adrift \in BOOLEAN

May(kind) == kind \in Allowed

Init ==
    /\ row = NoEvent
    /\ born = FALSE
    /\ cache = [k \in Keys |-> Empty]
    /\ at = [p \in Procs |-> "idle"]
    /\ seen = [p \in Procs |-> NoEvent]
    /\ key = [p \in Procs |-> "all"]
    /\ patch = [p \in Procs |-> NoPatch]
    /\ todo = [p \in Procs |-> {}]
    /\ booked = {}
    /\ sent = [b \in Bookings |-> 0]
    /\ inbox = [b \in Bookings |-> 0]
    /\ resolved = [b \in Bookings |-> 0]
    /\ taken = NoBooking
    /\ restarts = 0
    /\ deducted = [b \in Bookings |-> 0]
    /\ givenUp = {}
    /\ lapsed = {}
    /\ takenOff = 0
    /\ adrift = FALSE

\* What a GET handler answers and caches under a key when the row is e.
View(e, k) ==
    IF k \in Owners /\ e # NoEvent /\ e.owner # k THEN NoEvent
    ELSE e

OwnerKey(e) == {e.owner} \intersect Owners

\* Of these keys, the ones there is an answer cached for.
Cached(ks) == {k \in ks : cache[k] # Empty}

\* The process is at this step, with these locals.
Goes(p, step, e, k, q, ks) ==
    /\ at' = [at EXCEPT ![p] = step]
    /\ seen' = [seen EXCEPT ![p] = e]
    /\ key' = [key EXCEPT ![p] = k]
    /\ patch' = [patch EXCEPT ![p] = q]
    /\ todo' = [todo EXCEPT ![p] = ks]

Idle(p)       == Goes(p, "idle", NoEvent, "all", NoPatch, {})
Sweeps(p, ks) == Goes(p, "sweep", NoEvent, "all", NoPatch, ks)

\* Mutant: the offset is never committed.
FinishUncommitted(p) ==
    /\ Idle(p)
    /\ taken' = IF p = Consumer THEN NoBooking ELSE taken
    /\ UNCHANGED <<inbox, resolved>>

\* The handler has answered; eachMessage has returned, and the message counts as
\* processed whatever was thrown.  kafkajs commits its offset at the end of the batch.
Finish(p) ==
    /\ Idle(p)
    /\ IF p = Consumer
       THEN /\ inbox' = [inbox EXCEPT ![taken] = @ - 1]
            /\ resolved' = [resolved EXCEPT ![taken] = @ + 1]
            /\ taken' = NoBooking
       ELSE UNCHANGED msgVars

-----------------------------------------------------------------------------
(* The GET routes: the cache first, then the row, then the cache is filled. *)

\* A request that misses the cache, or is told so by a failing Redis; one that
\* hits is answered and changes nothing.
Get(h, k) ==
    /\ at[h] = "idle"
    /\ cache[k] = Empty \/ May("redis")
    /\ Goes(h, "select", NoEvent, k, NoPatch, {})
    /\ UNCHANGED <<row, born, cache, payVars, msgVars, restarts, histVars, lapsed, countVars>>

\* getEventById answers 404 and caches nothing; the lists cache that it is absent.
NotFound(k) == k = "byId" /\ row = NoEvent

\* SELECT.  The number of events, which a first SELECT of getUpcomingEvents
\* counts, is left out.
Select(h) ==
    /\ at[h] = "select"
    /\ IF NotFound(key[h])
       THEN Idle(h)
       ELSE Goes(h, "fill", View(row, key[h]), key[h], NoPatch, {})
    /\ UNCHANGED <<row, born, cache, payVars, msgVars, restarts, histVars, lapsed, countVars>>

\* SET with EX CACHE_TTL, whatever happened since the SELECT.
Fill(h) ==
    /\ at[h] = "fill"
    /\ \/ /\ cache' = [cache EXCEPT ![key[h]] = seen[h]]
          /\ lapsed' = IF seen[h] = View(row, key[h]) THEN lapsed \ {key[h]}
                                                      ELSE lapsed \union {key[h]}
       \/ May("redis") /\ UNCHANGED <<cache, lapsed>>
    /\ Idle(h)
    /\ UNCHANGED <<row, born, payVars, msgVars, restarts, histVars, countVars>>

\* Every key is set with EX CACHE_TTL, and may expire at any time after.
Expire(k) ==
    /\ cache[k] # Empty
    /\ cache' = [cache EXCEPT ![k] = Empty]
    /\ lapsed' = lapsed \ {k}
    /\ UNCHANGED <<row, born, procVars, payVars, msgVars, restarts, histVars, countVars>>

-----------------------------------------------------------------------------
(* The cached answers are deleted after a write: the lists and the event in *)
(* one DEL, then those of its owners, then the pages (KEYS and DEL).  The   *)
(* order of two owners is left open.                                       *)

\* The keys of the next DEL.
NextKeys(ks) ==
    IF ks \intersect {"all", "byId"} # {} THEN {ks \intersect {"all", "byId"}}
    ELSE {{k} : k \in ks \ {"upcoming"}}

\* The process stops deleting, with these keys left.
GivesUp(p, ks) ==
    /\ Finish(p)
    /\ lapsed' = lapsed \union Cached(ks)
    /\ UNCHANGED cache

\* One DEL.  If it fails, the catch block skips those that follow; one that fails
\* although it came through is one that succeeds and a failure of the next.
Sweep(p) ==
    /\ at[p] = "sweep"
    /\ todo[p] \ {"upcoming"} # {}
    /\ \E ks \in NextKeys(todo[p]) :
          \/ /\ cache' = [k \in Keys |-> IF k \in ks THEN Empty ELSE cache[k]]
             /\ lapsed' = lapsed \ ks
             /\ Sweeps(p, todo[p] \ ks)
             /\ UNCHANGED msgVars
          \/ May("redis") /\ GivesUp(p, todo[p])
    /\ UNCHANGED <<row, born, payVars, restarts, histVars, countVars>>

\* The end of the deletions: nothing is left but, for some, invalidateUpcomingCaches,
\* which asks for the keys of the pages.  Its errors are logged.
FindPages(p) ==
    /\ at[p] = "sweep"
    /\ todo[p] \subseteq {"upcoming"}
    /\ \/ /\ Cached(todo[p]) # {}
          /\ Goes(p, "pages", NoEvent, "all", NoPatch, todo[p])
          /\ UNCHANGED <<cache, msgVars, lapsed>>
       \/ Cached(todo[p]) = {} /\ GivesUp(p, {})
       \/ May("redis") /\ GivesUp(p, todo[p])
    /\ UNCHANGED <<row, born, payVars, restarts, histVars, countVars>>

DeletePages(p) ==
    /\ at[p] = "pages"
    /\ \/ /\ cache' = [cache EXCEPT !["upcoming"] = Empty]
          /\ lapsed' = lapsed \ {"upcoming"}
          /\ Finish(p)
       \/ May("redis") /\ GivesUp(p, todo[p])
    /\ UNCHANGED <<row, born, payVars, restarts, histVars, countVars>>

-----------------------------------------------------------------------------
(* The routes that write.                                                  *)

ListKeys == {"all", "byId"}

\* What validateEventCreate asks of total_tickets.
ValidTotal(t) == t > 0 /\ t <= 1000000

\* INSERT with available_tickets equal to total_tickets, once per id.
Create(h) ==
    /\ at[h] = "idle"
    /\ ~born
    /\ born' = TRUE
    /\ \E t \in Totals, o \in OwnerIds :
          /\ ValidTotal(t)
          /\ row' = [total |-> t, available |-> t, owner |-> o]
          /\ Sweeps(h, {"all", "upcoming"} \union OwnerKey(row'))
    /\ UNCHANGED <<cache, payVars, msgVars, restarts, histVars, lapsed, countVars>>

\* Mutant: a user_id that is not in the body is overwritten.
PatchedRaw(e, q) ==
    [total |-> IF q.total = Keep THEN e.total ELSE q.total,
     available |-> IF q.available = Keep THEN e.available ELSE q.available,
     owner |-> q.owner]

\* Mutant: all tickets are available again.
PatchedAnew(e, q) ==
    [total |-> IF q.total = Keep THEN e.total ELSE q.total,
     available |-> IF q.available = Keep THEN e.total ELSE q.available,
     owner |-> IF q.owner = Keep THEN e.owner ELSE q.owner]

\* The row an update makes of the one it has read.
Patched(e, q) ==
    [total |-> IF q.total = Keep THEN e.total ELSE q.total,
     available |-> IF q.available = Keep THEN e.available ELSE q.available,
     owner |-> IF q.owner = Keep THEN e.owner ELSE q.owner]

SetsNumbers(q) == q.total # Keep \/ q.available # Keep

\* The checks of updateEvent.
Acceptable(e) ==
    /\ e.total > 0
    /\ e.available >= 0
    /\ e.available <= e.total

\* SELECT and the checks; a request that fails them is answered with 404 or 400.
ReadForUpdate(h, q) ==
    /\ at[h] = "idle"
    /\ row # NoEvent
    /\ Acceptable(Patched(row, q))
    /\ Goes(h, "write", row, "all", q, {})
    /\ UNCHANGED <<row, born, cache, payVars, msgVars, restarts, histVars, lapsed, countVars>>

\* Mutant: only the list of the new owner is deleted.
SweptNewOwner(before, after) == ListKeys \union {"upcoming"} \union OwnerKey(after)

\* The keys updateEvent deletes: both owners' lists.
SweptByUpdate(before, after) ==
    ListKeys \union {"upcoming"} \union OwnerKey(before) \union OwnerKey(after)

\* UPDATE of all columns, from what was read before.  If the row is gone, the
\* answer is made from undefined: its user_id throws in the block that deletes the
\* keys, after the list of the owner read.  The list of an owner whom another
\* request has set meanwhile is nobody's to delete.
Update(h) ==
    /\ at[h] = "write"
    /\ \/ /\ row # NoEvent
          /\ row' = Patched(seen[h], patch[h])
          /\ adrift' = (adrift \/ SetsNumbers(patch[h]) \/ row # seen[h])
          /\ lapsed' = lapsed \union Cached(OwnerKey(row) \ OwnerKey(seen[h]))
          /\ Sweeps(h, SweptByUpdate(seen[h], row'))
       \/ /\ row = NoEvent
          /\ Sweeps(h, ListKeys \union OwnerKey(seen[h]))
          /\ UNCHANGED <<row, lapsed, adrift>>
       \/ May("db") /\ Idle(h) /\ UNCHANGED <<row, lapsed, adrift>>
    /\ UNCHANGED <<born, cache, payVars, msgVars, restarts, histVars, takenOff>>

\* DELETE ... RETURNING.
Delete(h) ==
    /\ at[h] = "idle"
    /\ row # NoEvent
    /\ row' = NoEvent
    /\ Sweeps(h, ListKeys \union {"upcoming"} \union OwnerKey(row))
    /\ UNCHANGED <<born, cache, payVars, msgVars, restarts, histVars, lapsed, countVars>>

-----------------------------------------------------------------------------
(* Bookings and payments, as the event service sees them.                  *)

\* The booking service asks checkAvailability, which reads the row and not the
\* cache, and inserts the booking; nothing is reserved.
Book(b) ==
    /\ b \notin booked
    /\ row # NoEvent
    /\ row.available >= TicketsOf[b]
    /\ booked' = booked \union {b}
    /\ UNCHANGED <<row, born, cache, procVars, sent, msgVars, restarts, histVars, lapsed, countVars>>

\* payment.completed is published: by the webhook, again by the success page.
Send(b) ==
    /\ b \in booked
    /\ sent[b] < MaxSends
    /\ sent' = [sent EXCEPT ![b] = @ + 1]
    /\ inbox' = [inbox EXCEPT ![b] = @ + 1]
    /\ UNCHANGED <<row, born, cache, procVars, booked, resolved, taken, restarts, histVars, lapsed, countVars>>

\* Mutant: the offset is committed before the message is processed.
FetchCommitted(b) ==
    /\ at[Consumer] = "idle"
    /\ inbox[b] > 0
    /\ taken' = b
    /\ inbox' = [inbox EXCEPT ![b] = @ - 1]
    /\ Goes(Consumer, "reduce", NoEvent, "all", NoPatch, {})
    /\ UNCHANGED <<row, born, cache, payVars, resolved, restarts, histVars, lapsed, countVars>>

\* eachMessage, up to the answer of the booking service.
FetchBooking(b) ==
    /\ at[Consumer] = "idle"
    /\ inbox[b] > 0
    /\ \/ /\ taken' = b
          /\ Goes(Consumer, "reduce", NoEvent, "all", NoPatch, {})
          /\ UNCHANGED <<inbox, resolved, givenUp>>
       \/ /\ May("http")
          /\ inbox' = [inbox EXCEPT ![b] = @ - 1]
          /\ resolved' = [resolved EXCEPT ![b] = @ + 1]
          /\ givenUp' = givenUp \union {b}
          /\ UNCHANGED <<taken, procVars>>
    /\ UNCHANGED <<row, born, cache, payVars, restarts, deducted, lapsed, countVars>>

\* Mutant: the UPDATE without "AND available_tickets >= $1".
ReduceUnchecked(n) == row # NoEvent

\* The WHERE clause of the UPDATE in reduceTicketsByBooking.
Suffices(n) == row # NoEvent /\ row.available >= n

\* reduceTicketsByBooking: one UPDATE, then the lists are deleted, but not the pages.
Reduce ==
    /\ at[Consumer] = "reduce"
    /\ LET n == TicketsOf[taken]
       IN  \/ /\ Suffices(n)
              /\ row' = [row EXCEPT !.available = @ - n]
              /\ takenOff' = takenOff + n
              /\ deducted' = [deducted EXCEPT ![taken] = @ + 1]
              /\ Sweeps(Consumer, ListKeys \union OwnerKey(row))
              /\ lapsed' = lapsed \union Cached({"upcoming"})
              /\ UNCHANGED <<msgVars, givenUp>>
           \/ /\ ~Suffices(n) \/ May("db")
              /\ givenUp' = givenUp \union {taken}
              /\ Finish(Consumer)
              /\ UNCHANGED <<row, deducted, lapsed, takenOff>>
    /\ UNCHANGED <<born, cache, payVars, restarts, adrift>>

-----------------------------------------------------------------------------
\* The offsets of the batch are committed.
Commit ==
    /\ at[Consumer] = "idle"
    /\ \E b \in Bookings : resolved[b] > 0
    /\ resolved' = [b \in Bookings |-> 0]
    /\ UNCHANGED <<row, born, cache, procVars, payVars, inbox, taken, restarts, histVars,
                   lapsed, countVars>>

\* The service is restarted: requests and the message in hand are forgotten; the
\* messages that are not committed come again.  Redis keeps the cached answers.
Restart ==
    /\ May("crash")
    /\ restarts < MaxRestarts
    /\ restarts' = restarts + 1
    /\ at' = [p \in Procs |-> "idle"]
    /\ seen' = [p \in Procs |-> NoEvent]
    /\ key' = [p \in Procs |-> "all"]
    /\ patch' = [p \in Procs |-> NoPatch]
    /\ todo' = [p \in Procs |-> {}]
    /\ taken' = NoBooking
    /\ inbox' = [b \in Bookings |-> inbox[b] + resolved[b]]
    /\ resolved' = [b \in Bookings |-> 0]
    /\ lapsed' = lapsed \union Cached(UNION {todo[p] : p \in Procs})
    /\ UNCHANGED <<row, born, cache, payVars, histVars, countVars>>

-----------------------------------------------------------------------------
Invalidate(p) == Sweep(p) \/ FindPages(p) \/ DeletePages(p)

HandlerStep(h) == Select(h) \/ Fill(h) \/ Update(h) \/ Invalidate(h)

ConsumerStep ==
    (\E b \in Bookings : FetchBooking(b)) \/ Reduce \/ Invalidate(Consumer) \/ Commit

Next ==
    \/ \E h \in Handlers :
          \/ HandlerStep(h) \/ Create(h) \/ Delete(h)
          \/ \E k \in ReadKeys : Get(h, k)
          \/ \E q \in Patches : ReadForUpdate(h, q)
    \/ ConsumerStep
    \/ \E b \in Bookings : Book(b) \/ Send(b)
    \/ \E k \in Keys : Expire(k)
    \/ Restart

Spec == Init /\ [][Next]_vars

-----------------------------------------------------------------------------
\* However requests, deletions, updates and payments overlap: there are never
\* more tickets available than the event has, and never fewer than none.  The
\* checks of updateEvent are made on values read before; the UPDATE of
\* reduceTicketsByBooking has its own.
WithinTotal == row # NoEvent => 0 <= row.available /\ row.available <= row.total

\* Nothing stale stays in the cache without a cause: either a handler is about
\* to delete it, or it is one of the cases the code lets go (an answer read
\* before a write and stored after it, a Redis failure or a restart between the
\* write and the DEL, the pages after a payment, the list of an owner whom an
\* update has overwritten unseen).
StaleHasCause ==
    \A k \in Keys :
        cache[k] # Empty /\ cache[k] # View(row, k)
        => k \in lapsed \/ \E p \in Procs : k \in todo[p]

\* A completed payment is not lost on the way to the tickets: its message waits,
\* or was acted upon, or was given up because there were too few tickets, or the
\* booking service or the database failed.  A restart of the event service loses none, wherever it comes.
PaidIsNotLost ==
    \A b \in Bookings :
        sent[b] > 0 => inbox[b] > 0 \/ deducted[b] > 0 \/ b \in givenUp

\* The tickets of a booking are taken off at most once each time payment.completed is
\* delivered: a publication comes once, and once more after each restart.
DeductedPerDelivery == \A b \in Bookings : deducted[b] <= sent[b] * (1 + restarts)

\* The tickets that are not available are those taken off for payments, unless a
\* client has set a number or an update has overwritten what came after its read.
TicketsAccounted ==
    row # NoEvent /\ ~adrift => row.available = row.total - takenOff

=============================================================================
