---------------------------- MODULE Notification ----------------------------
(***************************************************************************)
(* The notification service: the router (workers/router.js), which makes of *)
(* a message of the other services one notification for each user and      *)
(* channel, and the worker of each channel (workers/channelWorker.js),     *)
(* which hands them to a provider.                                         *)
(*                                                                         *)
(* Each is a Kafka consumer that takes one message at a time and commits   *)
(* its offset itself: one whose handler throws, or whose commit fails,     *)
(* comes again.  A worker sends no heartbeat while it waits for its next   *)
(* attempt, 30 s or more; by then its group has dropped it, and its commit *)
(* fails.  An action is one request to another service.                    *)
(***************************************************************************)
EXTENDS Integers, Sequences

CONSTANTS
    Messages,       \* the messages of the other services
    Poisons,        \* those that are not JSON
    Fanouts,        \* those for all users: event.created
    Unaddressed,    \* those with no address: payload.email, phone and deviceToken
    Users,
    Channels,
    TargetsOf,      \* the users a message is for, in their order
    ChannelsOf,     \* the channels its type goes to, by rule, preference and template
    KeyOf,          \* its type and eventId: messages may have the same
    RouterAttempts, \* maxAttempts of resolveTargetsWithRetry
    Delays,         \* the number of delays in the retry policy of a channel
    MaxPublished,   \* bound: messages of the other services
    MaxRestarts,    \* bound: restarts of the service
    MaxFaults,      \* bound: requests that fail or are misreported
    Allowed         \* what the environment may do

\* Requests to the user service and Kafka fail; a provider accepts a notification and
\* reports a failure.
EnvironmentKinds == {"http", "kafka", "misreport"}

Notifications == [msg : Messages, user : Users, channel : Channels]

\* buildIdempotencyKey.
KeyFor(n) == <<KeyOf[n.msg], n.user, n.channel>>
Keys == {KeyFor(n) : n \in Notifications}

ASSUME ConstantsAssumption ==
    /\ Poisons \subseteq Messages
    /\ Fanouts \subseteq Messages
    /\ Unaddressed \subseteq Messages
    /\ TargetsOf \in [Messages -> Seq(Users)]
    /\ ChannelsOf \in [Messages -> Seq(Channels)]
    /\ DOMAIN KeyOf = Messages
    /\ Delays \in [Channels -> Nat \ {0}]
    /\ RouterAttempts \in Nat \ {0}
    /\ MaxPublished \in Nat
    /\ MaxRestarts \in Nat
    /\ MaxFaults \in Nat
    /\ Allowed \subseteq EnvironmentKinds

VARIABLES
    log,        \* the topics of the other services, in the order the router reads
    rdone,      \* the offset the router has committed
    rat,        \* where the router is
    rtries,     \* its attempt to get the users
    rnext,      \* which of its notifications it publishes next
    queue,      \* the topic of each channel
    wdone,      \* the offset the worker of the channel has committed
    wat,        \* where the worker is: it commits in time, or after it has waited (late)
    wtries,     \* its attempt
    delivered,  \* deliveryLog: the keys with the status 'delivered'
    dead,       \* the notifications in the dead-letter topics
    restarts,
    faults,
    accepted,   \* history: how often a provider accepted a notification with this key
    misreported \* history: how often it reported a failure although it accepted it

routerVars == <<rdone, rat, rtries, rnext>>
workVars   == <<wdone, wat, wtries, delivered, dead>>
histVars   == <<accepted, misreported>>
vars == <<log, rdone, rat, rtries, rnext, queue, wdone, wat, wtries, delivered, dead,
          restarts, faults, accepted, misreported>>

MaxAttempts(c) == Delays[c] + 1

TypeOK ==
    /\ log \in Seq(Messages)
    /\ rdone \in Nat
    /\ rat \in {"idle", "resolve", "send"}
    /\ rtries \in 1..RouterAttempts
    /\ rnext \in Nat \ {0}
    /\ queue \in [Channels -> Seq(Notifications)]
    /\ wdone \in [Channels -> Nat]
    /\ wat \in [Channels -> {"idle", "try", "dead", "commit", "late"}]
    /\ wtries \in [Channels -> Nat]
    /\ \A c \in Channels : wtries[c] \in 1..MaxAttempts(c)
    /\ delivered \subseteq Keys
    /\ dead \subseteq Notifications
    /\ restarts \in Nat
    /\ faults \in Nat
    /\ accepted \in [Keys -> Nat]
    /\ misreported \in [Keys -> Nat]

May(kind) == kind \in Allowed

Init ==
    /\ log = <<>>
    /\ rdone = 0
    /\ rat = "idle"
    /\ rtries = 1
    /\ rnext = 1
    /\ queue = [c \in Channels |-> <<>>]
    /\ wdone = [c \in Channels |-> 0]
    /\ wat = [c \in Channels |-> "idle"]
    /\ wtries = [c \in Channels |-> 1]
    /\ delivered = {}
    /\ dead = {}
    /\ restarts = 0
    /\ faults = 0
    /\ accepted = [k \in Keys |-> 0]
    /\ misreported = [k \in Keys |-> 0]

\* A request fails, or its answer is wrong.
Fails(kind) ==
    /\ May(kind)
    /\ faults < MaxFaults
    /\ faults' = faults + 1

\* Another service publishes.
Publish(m) ==
    /\ Len(log) < MaxPublished
    /\ log' = Append(log, m)
    /\ UNCHANGED <<routerVars, queue, workVars, restarts, faults, histVars>>

-----------------------------------------------------------------------------
(* The router.                                                             *)

\* The message in hand, or the next one.
Current == log[rdone + 1]

Count(m) == Len(TargetsOf[m]) * Len(ChannelsOf[m])

\* The notifications of a message, in the order of the two loops.
Nth(m, k) ==
    [msg |-> m,
     user |-> TargetsOf[m][((k - 1) \div Len(ChannelsOf[m])) + 1],
     channel |-> ChannelsOf[m][((k - 1) % Len(ChannelsOf[m])) + 1]]

NotificationsOf(m) == {Nth(m, k) : k \in 1..Count(m)}

\* Mutant: an attempt begins before the first notification.
RouterIdleBefore ==
    /\ rat' = "idle"
    /\ rtries' = 1
    /\ rnext' = 0

\* eachMessage returns or throws.
RouterIdle ==
    /\ rat' = "idle"
    /\ rtries' = 1
    /\ rnext' = 1

\* JSON.parse throws for a poison: it comes again, and nothing changes.
Route ==
    /\ rat = "idle"
    /\ rdone < Len(log)
    /\ Current \notin Poisons
    /\ rat' = "resolve"
    /\ UNCHANGED <<log, rdone, rtries, rnext, queue, workVars, restarts, faults, histVars>>

\* resolveTargetsWithRetry.
Resolve ==
    /\ rat = "resolve"
    /\ rat' = "send"
    /\ rtries' = 1
    /\ rnext' = 1
    /\ UNCHANGED <<log, rdone, queue, workVars, restarts, faults, histVars>>

\* Only fetchAllUsers can fail; the last failure is thrown.
ResolveFails ==
    /\ rat = "resolve"
    /\ May("http")
    /\ Current \in Fanouts
    /\ \/ rtries < RouterAttempts /\ rtries' = rtries + 1 /\ UNCHANGED <<rat, rnext>>
       \/ rtries = RouterAttempts /\ RouterIdle
    /\ UNCHANGED <<log, rdone, queue, workVars, restarts, faults, histVars>>

\* producer.send of one notification; one that fails may have been published.
SendNotification ==
    /\ rat = "send"
    /\ rnext <= Count(Current)
    /\ LET n   == Nth(Current, rnext)
           put == queue' = [queue EXCEPT ![n.channel] = Append(@, n)]
       IN  \/ put /\ rnext' = rnext + 1 /\ UNCHANGED <<rat, rtries, faults>>
           \/ (put \/ UNCHANGED queue) /\ Fails("kafka") /\ RouterIdle
    /\ UNCHANGED <<log, rdone, workVars, restarts, histVars>>

\* Mutant: the offset is committed when the message is routed, not when all is sent.
CommitEarly ==
    /\ rat = "send"
    /\ \/ rdone' = rdone + 1 /\ UNCHANGED faults
       \/ Fails("kafka") /\ UNCHANGED rdone
    /\ RouterIdle
    /\ UNCHANGED <<log, queue, workVars, restarts, histVars>>

\* commitOffsets, at once if there is nothing to publish.
CommitRouted ==
    /\ rat = "send"
    /\ rnext > Count(Current)
    /\ \/ rdone' = rdone + 1 /\ UNCHANGED faults
       \/ Fails("kafka") /\ UNCHANGED rdone
    /\ RouterIdle
    /\ UNCHANGED <<log, queue, workVars, restarts, histVars>>

-----------------------------------------------------------------------------
(* The worker of a channel.                                                *)

InHand(c) == queue[c][wdone[c] + 1]

WorkerAt(c, step, try) ==
    /\ wat' = [wat EXCEPT ![c] = step]
    /\ wtries' = [wtries EXCEPT ![c] = try]

\* Mutant: deliveryLog is not looked at.
KnownNever(k) == FALSE

\* deliveryLog says it was delivered, by this process.
Known(k) == k \in delivered

Take(c) ==
    /\ wat[c] = "idle"
    /\ wdone[c] < Len(queue[c])
    /\ WorkerAt(c, IF Known(KeyFor(InHand(c))) THEN "commit" ELSE "try", 1)
    /\ UNCHANGED <<log, routerVars, queue, wdone, delivered, dead, restarts, faults, histVars>>

\* Mutant: the last failure is committed like a success.
GivesUpSilently(c) == WorkerAt(c, "commit", 1)

\* processWithRetry returns false.
GivesUp(c) == WorkerAt(c, "dead", 1)

\* The provider of the channel accepts the notification.
Accepts(k) == accepted' = [accepted EXCEPT ![k] = @ + 1]

Addressed(c) == InHand(c).msg \notin Unaddressed

\* sendByChannel, in the loop of processWithRetry.
Deliver(c) ==
    /\ wat[c] = "try"
    /\ LET k == KeyFor(InHand(c))
       IN  \/ /\ Addressed(c)
              /\ Accepts(k)
              /\ delivered' = delivered \union {k}
              /\ WorkerAt(c, IF wtries[c] = 1 THEN "commit" ELSE "late", 1)
              /\ UNCHANGED <<misreported, faults>>
           \/ /\ \/ UNCHANGED <<faults, histVars>>
                 \/ /\ Fails("misreport")
                    /\ Addressed(c)
                    /\ Accepts(k)
                    /\ misreported' = [misreported EXCEPT ![k] = @ + 1]
              /\ IF wtries[c] < MaxAttempts(c) THEN WorkerAt(c, "try", wtries[c] + 1)
                                               ELSE GivesUp(c)
              /\ UNCHANGED delivered
    /\ UNCHANGED <<log, routerVars, queue, wdone, dead, restarts>>

\* producer.send to the dead-letter topic; a send that fails may have been published.
DeadLetter(c) ==
    /\ wat[c] = "dead"
    /\ \/ /\ dead' = dead \union {InHand(c)}
          /\ WorkerAt(c, "late", 1)
          /\ UNCHANGED faults
       \/ /\ Fails("kafka")
          /\ WorkerAt(c, "idle", 1)
          /\ UNCHANGED dead \/ dead' = dead \union {InHand(c)}
    /\ UNCHANGED <<log, routerVars, queue, wdone, delivered, restarts, histVars>>

\* Mutant: the offset of a worker is not committed.
CommitNothing(c) ==
    /\ wat[c] \in {"commit", "late"}
    /\ WorkerAt(c, "idle", 1)
    /\ UNCHANGED <<log, routerVars, queue, wdone, delivered, dead, restarts, faults, histVars>>

\* commitOffsets.  A late one always fails: the message comes again.
CommitWork(c) ==
    /\ wat[c] \in {"commit", "late"}
    /\ \/ wat[c] = "commit" /\ wdone' = [wdone EXCEPT ![c] = @ + 1] /\ UNCHANGED faults
       \/ wat[c] = "commit" /\ Fails("kafka") /\ UNCHANGED wdone
       \/ wat[c] = "late" /\ UNCHANGED <<wdone, faults>>
    /\ WorkerAt(c, "idle", 1)
    /\ UNCHANGED <<log, routerVars, queue, delivered, dead, restarts, histVars>>

-----------------------------------------------------------------------------
\* The service is restarted: messages in hand come again, deliveryLog is empty.
Restart ==
    /\ restarts < MaxRestarts
    /\ restarts' = restarts + 1
    /\ RouterIdle
    /\ wat' = [c \in Channels |-> "idle"]
    /\ wtries' = [c \in Channels |-> 1]
    /\ delivered' = {}
    /\ UNCHANGED <<log, rdone, queue, wdone, dead, faults, histVars>>

RouterStep ==
    \/ Route
    \/ Resolve \/ ResolveFails
    \/ SendNotification
    \/ CommitRouted

WorkerStep(c) == Take(c) \/ Deliver(c) \/ DeadLetter(c) \/ CommitWork(c)

Next ==
    \/ \E m \in Messages : Publish(m)
    \/ RouterStep
    \/ \E c \in Channels : WorkerStep(c)
    \/ Restart

Spec == Init /\ [][Next]_vars

ProviderAccepts(c) == Deliver(c) /\ delivered' # delivered

\* The consumers run as long as the service does, the user service answers now and
\* then, and a provider that is asked again and again accepts.  That other requests
\* fail only so often, and that the service is restarted only so often, is in the
\* bounds.
FairSpec ==
    /\ Spec
    /\ WF_vars(RouterStep)
    /\ SF_vars(Resolve)
    /\ \A c \in Channels : WF_vars(WorkerStep(c)) /\ SF_vars(ProviderAccepts(c))

-----------------------------------------------------------------------------
\* Whatever fails or restarts between the publications of one message: when its
\* offset is committed, each of its notifications is in the topic of its channel.
RoutedIsPublished ==
    \A i \in 1..rdone : \A n \in NotificationsOf(log[i]) :
        \E j \in 1..Len(queue[n.channel]) : queue[n.channel][j] = n

\* A worker gets past a notification only when a provider has accepted one with its
\* key: not when it has put it into the dead-letter topic, for then it commits late.
WorkedIsDone ==
    \A c \in Channels : \A j \in 1..wdone[c] : accepted[KeyFor(queue[c][j])] > 0

\* A user gets a notification again only for a cause: a restart, which empties
\* deliveryLog, or a provider that reported a failure.  Messages that are published,
\* routed or taken again are no cause.
DeliveriesHaveCause ==
    \A k \in Keys : accepted[k] <= 1 + restarts + misreported[k]

\* No message before the i-th stops a consumer for ever.
Reached(i) ==
    /\ Len(log) >= i
    /\ \A j \in 1..i : log[j] \notin Poisons
    /\ \A j \in 1..(i - 1) : log[j] \notin Unaddressed

Announced(m) ==
    LET done(n) == accepted[KeyFor(n)] > 0
    IN  IF m \in Unaddressed
        THEN NotificationsOf(m) = {} \/ \E n \in NotificationsOf(m) : n \in dead \/ done(n)
        ELSE \A n \in NotificationsOf(m) : done(n)

\* Every event is announced if no message before it cannot be read or has no address:
\* a provider accepts each of its notifications, though those before it are repeated
\* when they needed a second attempt.  Of the first message with no address, one
\* notification gets into the dead-letter topic.
EventuallyNotified ==
    \A i \in 1..MaxPublished : Reached(i) ~> (Len(log) >= i /\ Announced(log[i]))

=============================================================================
