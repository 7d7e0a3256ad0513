-------------------------- MODULE NotificationProofs --------------------------
(* Proofs about Notification, for all messages, users, channels and faults. *)
EXTENDS Notification, TLAPS

-----------------------------------------------------------------------------
(* The inductive invariant.                                                *)

\* The message a router or a worker has in hand is one of its topic, and a notification
\* is in the topic of its channel.
Offsets ==
    /\ rdone <= Len(log)
    /\ rat # "idle" => rdone < Len(log)
    /\ \A c \in Channels :
          /\ wdone[c] <= Len(queue[c])
          /\ wat[c] # "idle" => wdone[c] < Len(queue[c])
          /\ \A j \in 1..Len(queue[c]) : queue[c][j].channel = c

Published(n) == \E j \in 1..Len(queue[n.channel]) : queue[n.channel][j] = n

\* What the router has gone past it has published.
SentSoFar ==
    rat = "send" => \A k \in 1..Count(Current) : k < rnext => Published(Nth(Current, k))

Done(n) == accepted[KeyFor(n)] > 0

\* A worker commits in time what a provider has accepted, and tries what the log does
\* not know.
WorkersKnow ==
    /\ \A c \in Channels :
          /\ wat[c] = "commit" => Done(InHand(c))
          /\ wat[c] = "try" => KeyFor(InHand(c)) \notin delivered
    /\ \A k \in delivered : accepted[k] > 0

\* What the provider accepted is in the log, was lost from it or was misreported.
AcceptedCounted ==
    \A k \in Keys :
        accepted[k] <= (IF k \in delivered THEN 1 ELSE 0) + restarts + misreported[k]

IInv ==
    /\ TypeOK
    /\ Offsets
    /\ SentSoFar
    /\ RoutedIsPublished
    /\ WorkersKnow
    /\ WorkedIsDone
    /\ AcceptedCounted

-----------------------------------------------------------------------------
(* The notifications of a message.                                         *)

LEMMA DivMod ==
    ASSUME NEW t \in Nat, NEW c \in Nat, NEW k \in 1..(t * c)
    PROVE  /\ c > 0
           /\ ((k - 1) % c) + 1 \in 1..c
           /\ ((k - 1) \div c) + 1 \in 1..t
  <1>1. c > 0
    <2>1. c = 0 => t * c = 0
      OBVIOUS
    <2> QED
      BY <2>1
  <1> DEFINE q == (k - 1) \div c
             r == (k - 1) % c
  <1>2. k - 1 \in Nat /\ k - 1 < t * c
    OBVIOUS
  <1>3. r \in 0..(c - 1)
    BY <1>1, <1>2
  <1>4. q \in Nat /\ k - 1 = c * q + r
    BY <1>1, <1>2
  <1> HIDE DEF q, r
  <1>5. q < t
    <2> SUFFICES ASSUME q >= t PROVE FALSE
      BY <1>4
    <2>1. c * q >= c * t
      BY <1>1, <1>4
    <2> QED
      BY <1>2, <1>3, <1>4, <2>1
  <1> QED
    BY <1>1, <1>3, <1>4, <1>5 DEF q, r

\* Every number up to Count names a notification.
LEMMA NthType ==
    ASSUME NEW m \in Messages, NEW k \in 1..Count(m)
    PROVE  Nth(m, k) \in Notifications
  <1>1. TargetsOf[m] \in Seq(Users) /\ ChannelsOf[m] \in Seq(Channels)
    BY ConstantsAssumption
  <1>2. Len(TargetsOf[m]) \in Nat /\ Len(ChannelsOf[m]) \in Nat
    BY <1>1
  <1>3. /\ ((k - 1) % Len(ChannelsOf[m])) + 1 \in 1..Len(ChannelsOf[m])
        /\ ((k - 1) \div Len(ChannelsOf[m])) + 1 \in 1..Len(TargetsOf[m])
    BY <1>2, DivMod DEF Count
  <1> DEFINE i == ((k - 1) \div Len(ChannelsOf[m])) + 1
             j == ((k - 1) % Len(ChannelsOf[m])) + 1
  <1>4. i \in 1..Len(TargetsOf[m]) /\ j \in 1..Len(ChannelsOf[m])
    BY <1>3
  <1>5. Nth(m, k) = [msg |-> m, user |-> TargetsOf[m][i], channel |-> ChannelsOf[m][j]]
    BY DEF Nth
  <1> HIDE DEF i, j
  <1>6. TargetsOf[m][i] \in Users /\ ChannelsOf[m][j] \in Channels
    BY <1>1, <1>4
  <1> QED
    BY <1>5, <1>6 DEF Notifications

LEMMA KeyType ==
    ASSUME NEW n \in Notifications
    PROVE  KeyFor(n) \in Keys
  BY DEF Keys

LEMMA ProductType ==
    ASSUME NEW a \in Nat, NEW b \in Nat
    PROVE  a * b \in Nat
  OBVIOUS

LEMMA CountType ==
    ASSUME NEW m \in Messages
    PROVE  Count(m) \in Nat
  <1>1. TargetsOf[m] \in Seq(Users) /\ ChannelsOf[m] \in Seq(Channels)
    BY ConstantsAssumption
  <1>2. Len(TargetsOf[m]) \in Nat /\ Len(ChannelsOf[m]) \in Nat
    BY <1>1
  <1> QED
    BY <1>2, ProductType DEF Count

\* The message in hand is one of its topic.
LEMMA CurrentType ==
    ASSUME IInv, rat # "idle"
    PROVE  Current \in Messages
  <1>1. log \in Seq(Messages) /\ rdone \in Nat /\ rdone < Len(log)
    BY DEF IInv, TypeOK, Offsets
  <1>2. rdone + 1 \in 1..Len(log)
    BY <1>1
  <1> QED
    BY <1>1, <1>2 DEF Current

\* A message stays in hand while others are published.
LEMMA CurrentStays ==
    ASSUME IInv, NEW m \in Messages, log' = Append(log, m), rdone' = rdone, rat # "idle"
    PROVE  Current' = Current
  <1>1. log \in Seq(Messages) /\ rdone \in Nat /\ rdone < Len(log)
    BY DEF IInv, TypeOK, Offsets
  <1>2. rdone + 1 \in 1..Len(log)
    BY <1>1
  <1>3. Append(log, m)[rdone + 1] = log[rdone + 1]
    BY <1>1, <1>2
  <1> QED
    BY <1>3 DEF Current

\* The notification in hand is one of its channel.
LEMMA InHandType ==
    ASSUME IInv, NEW c \in Channels, wat[c] # "idle" \/ wdone[c] < Len(queue[c])
    PROVE  /\ wdone[c] + 1 \in 1..Len(queue[c])
           /\ InHand(c) \in Notifications
           /\ InHand(c).channel = c
           /\ KeyFor(InHand(c)) \in Keys
  <1>1. queue[c] \in Seq(Notifications) /\ wdone[c] \in Nat /\ wdone[c] < Len(queue[c])
    BY DEF IInv, TypeOK, Offsets
  <1>2. wdone[c] + 1 \in 1..Len(queue[c])
    BY <1>1
  <1>3. InHand(c) \in Notifications
    BY <1>1, <1>2 DEF InHand
  <1>4. InHand(c).channel = c
    BY <1>2 DEF IInv, Offsets, InHand
  <1> QED
    BY <1>2, <1>3, <1>4, KeyType

\* The keys of two channels differ.
LEMMA KeysApart ==
    ASSUME NEW n \in Notifications, NEW o \in Notifications, KeyFor(n) = KeyFor(o)
    PROVE  n.channel = o.channel
  BY DEF KeyFor

-----------------------------------------------------------------------------
(* Messages and notifications are only added to their topics.              *)

\* One notification is added to its topic.
LEMMA PutGrows ==
    ASSUME IInv, NEW n \in Notifications,
           queue' = [queue EXCEPT ![n.channel] = Append(@, n)]
    PROVE  /\ queue' \in [Channels -> Seq(Notifications)]
           /\ \A c \in Channels :
                 /\ Len(queue[c]) <= Len(queue'[c])
                 /\ \A j \in 1..Len(queue[c]) : queue'[c][j] = queue[c][j]
                 /\ \A j \in 1..Len(queue'[c]) : queue'[c][j].channel = c
           /\ Published(n)'
  <1>1. n.channel \in Channels
    BY DEF Notifications
  <1>2. queue \in [Channels -> Seq(Notifications)]
    BY DEF IInv, TypeOK
  <1>3. queue' \in [Channels -> Seq(Notifications)]
    BY <1>1, <1>2
  <1>4. ASSUME NEW c \in Channels
        PROVE  /\ Len(queue[c]) <= Len(queue'[c])
               /\ \A j \in 1..Len(queue[c]) : queue'[c][j] = queue[c][j]
               /\ \A j \in 1..Len(queue'[c]) : queue'[c][j].channel = c
    <2>1. queue[c] \in Seq(Notifications)
      BY <1>2
    <2>2. \A j \in 1..Len(queue[c]) : queue[c][j].channel = c
      BY DEF IInv, Offsets
    <2>3. CASE c = n.channel
      <3>1. queue'[c] = Append(queue[c], n)
        BY <1>2, <2>3
      <3>2. Len(Append(queue[c], n)) = Len(queue[c]) + 1 /\ Len(queue[c]) \in Nat
        BY <2>1
      <3>3. \A j \in 1..Len(queue[c]) : Append(queue[c], n)[j] = queue[c][j]
        BY <2>1
      <3>4. Append(queue[c], n)[Len(queue[c]) + 1] = n
        BY <2>1
      <3>5. ASSUME NEW j \in 1..Len(queue'[c])
            PROVE  queue'[c][j].channel = c
        <4>1. j \in 1..Len(queue[c]) \/ j = Len(queue[c]) + 1
          BY <3>1, <3>2
        <4> QED
          BY <2>2, <2>3, <3>1, <3>3, <3>4, <4>1
      <3> QED
        BY <3>1, <3>2, <3>3, <3>5
    <2>4. CASE c # n.channel
      <3>1. queue'[c] = queue[c]
        BY <1>2, <2>4
      <3> QED
        BY <2>1, <2>2, <3>1
    <2> QED
      BY <2>3, <2>4
  <1>5. Published(n)'
    <2> DEFINE c == n.channel
    <2>1. queue[c] \in Seq(Notifications) /\ queue'[c] = Append(queue[c], n)
      BY <1>1, <1>2
    <2>2. Len(queue'[c]) = Len(queue[c]) + 1 /\ Len(queue[c]) \in Nat
      BY <2>1
    <2>3. queue'[c][Len(queue[c]) + 1] = n
      BY <2>1
    <2>4. Len(queue[c]) + 1 \in 1..Len(queue'[c])
      BY <2>2
    <2> QED
      BY <2>3, <2>4 DEF Published
  <1> QED
    BY <1>3, <1>4, <1>5

\* The topics are only appended to.
LEMMA TopicsGrow ==
    ASSUME IInv, [Next]_vars
    PROVE  /\ log' \in Seq(Messages)
           /\ Len(log) <= Len(log')
           /\ \A i \in 1..Len(log) : log'[i] = log[i]
           /\ queue' \in [Channels -> Seq(Notifications)]
           /\ \A c \in Channels :
                 /\ Len(queue[c]) <= Len(queue'[c])
                 /\ \A j \in 1..Len(queue[c]) : queue'[c][j] = queue[c][j]
                 /\ \A j \in 1..Len(queue'[c]) : queue'[c][j].channel = c
  <1> USE DEF IInv, TypeOK, Offsets
  <1>0. ASSUME UNCHANGED log, UNCHANGED queue
        PROVE  /\ log' \in Seq(Messages)
               /\ Len(log) <= Len(log')
               /\ \A i \in 1..Len(log) : log'[i] = log[i]
               /\ queue' \in [Channels -> Seq(Notifications)]
               /\ \A c \in Channels :
                     /\ Len(queue[c]) <= Len(queue'[c])
                     /\ \A j \in 1..Len(queue[c]) : queue'[c][j] = queue[c][j]
                     /\ \A j \in 1..Len(queue'[c]) : queue'[c][j].channel = c
    <2>1. \A c \in Channels : Len(queue[c]) \in Nat
      OBVIOUS
    <2> QED
      BY <1>0, <2>1
  <1>1. ASSUME NEW m \in Messages, Publish(m)
        PROVE  /\ log' \in Seq(Messages)
               /\ Len(log) <= Len(log')
               /\ \A i \in 1..Len(log) : log'[i] = log[i]
               /\ UNCHANGED queue
    BY <1>1 DEF Publish
  <1>2. CASE SendNotification
    <2>1. UNCHANGED log
      BY <1>2 DEF SendNotification
    <2>2. CASE UNCHANGED queue
      BY <1>0, <2>1, <2>2
    <2>3. CASE queue' # queue
      <3> DEFINE n == Nth(Current, rnext)
      <3>1. Current \in Messages /\ rnext \in 1..Count(Current)
        BY <1>2, CurrentType, CountType DEF SendNotification
      <3>2. n \in Notifications
        BY <3>1, NthType
      <3>3. queue' = [queue EXCEPT ![n.channel] = Append(@, n)]
        BY <1>2, <2>3 DEF SendNotification
      <3> HIDE DEF n
      <3>4. /\ queue' \in [Channels -> Seq(Notifications)]
            /\ \A c \in Channels :
                  /\ Len(queue[c]) <= Len(queue'[c])
                  /\ \A j \in 1..Len(queue[c]) : queue'[c][j] = queue[c][j]
                  /\ \A j \in 1..Len(queue'[c]) : queue'[c][j].channel = c
        <4> HIDE DEF IInv, TypeOK, Offsets
        <4> QED
          BY <3>2, <3>3, PutGrows
      <3>5. /\ log' \in Seq(Messages)
            /\ Len(log) <= Len(log')
            /\ \A i \in 1..Len(log) : log'[i] = log[i]
        BY <2>1
      <3> QED
        BY <3>4, <3>5
    <2> QED
      BY <2>2, <2>3
  <1>3. CASE Route \/ Resolve \/ ResolveFails \/ CommitRouted \/ Restart
    BY <1>0, <1>3 DEF Route, Resolve, ResolveFails, CommitRouted, Restart
  <1>4. ASSUME NEW c \in Channels, WorkerStep(c)
        PROVE  UNCHANGED <<log, queue>>
    BY <1>4 DEF WorkerStep, Take, Deliver, DeadLetter, CommitWork
  <1>5. CASE UNCHANGED vars
    BY <1>0, <1>5 DEF vars
  <1>6. ASSUME NEW m \in Messages, Publish(m)
        PROVE  \A c \in Channels :
                     /\ Len(queue[c]) <= Len(queue'[c])
                     /\ \A j \in 1..Len(queue[c]) : queue'[c][j] = queue[c][j]
                     /\ \A j \in 1..Len(queue'[c]) : queue'[c][j].channel = c
    <2>1. \A c \in Channels : Len(queue[c]) \in Nat
      OBVIOUS
    <2> QED
      BY <1>1, <1>6, <2>1
  <1> QED
    BY <1>0, <1>1, <1>2, <1>3, <1>4, <1>5, <1>6 DEF Next, RouterStep

LEMMA PublishedStays ==
    ASSUME IInv, [Next]_vars, NEW n \in Notifications, Published(n)
    PROVE  Published(n)'
  <1>1. n.channel \in Channels
    BY DEF Notifications
  <1>2. PICK j \in 1..Len(queue[n.channel]) : queue[n.channel][j] = n
    BY DEF Published
  <1>3. /\ Len(queue[n.channel]) <= Len(queue'[n.channel])
        /\ queue'[n.channel][j] = n
        /\ queue \in [Channels -> Seq(Notifications)]
        /\ queue' \in [Channels -> Seq(Notifications)]
    BY <1>1, <1>2, TopicsGrow DEF IInv, TypeOK
  <1>4. j \in 1..Len(queue'[n.channel])
    BY <1>1, <1>3
  <1> QED
    BY <1>3, <1>4 DEF Published

-----------------------------------------------------------------------------
(* Types.                                                                  *)

LEMMA RouterIdleType ==
    ASSUME RouterIdle
    PROVE  rat' = "idle" /\ rtries' \in 1..RouterAttempts /\ rnext' \in Nat \ {0}
  BY ConstantsAssumption DEF RouterIdle

LEMMA WorkerAtType ==
    ASSUME IInv, NEW c \in Channels, NEW step \in {"idle", "try", "dead", "commit", "late"},
           NEW t \in 1..MaxAttempts(c), WorkerAt(c, step, t)
    PROVE  /\ wat' \in [Channels -> {"idle", "try", "dead", "commit", "late"}]
           /\ wtries' \in [Channels -> Nat]
           /\ \A d \in Channels : wtries'[d] \in 1..MaxAttempts(d)
           /\ wat'[c] = step
           /\ \A d \in Channels \ {c} : wat'[d] = wat[d]
  <1>1. Delays[c] \in Nat
    BY ConstantsAssumption
  <1>2. t \in Nat
    OBVIOUS
  <1> QED
    BY <1>1, <1>2 DEF IInv, TypeOK, WorkerAt, MaxAttempts

LEMMA OneTry ==
    ASSUME NEW c \in Channels
    PROVE  1 \in 1..MaxAttempts(c)
  <1>1. Delays[c] \in Nat
    BY ConstantsAssumption
  <1> QED
    BY <1>1 DEF MaxAttempts

LEMMA AcceptsType ==
    ASSUME IInv, NEW k \in Keys, Accepts(k)
    PROVE  /\ accepted' \in [Keys -> Nat]
           /\ accepted'[k] = accepted[k] + 1
           /\ \A l \in Keys \ {k} : accepted'[l] = accepted[l]
  BY DEF IInv, TypeOK, Accepts

LEMMA TypeStep ==
    ASSUME IInv, [Next]_vars
    PROVE  TypeOK'
  <1> DEFINE RouterType == /\ rdone' \in Nat
                           /\ rat' \in {"idle", "resolve", "send"}
                           /\ rtries' \in 1..RouterAttempts
                           /\ rnext' \in Nat \ {0}
             WorkerType == /\ wdone' \in [Channels -> Nat]
                           /\ wat' \in [Channels -> {"idle", "try", "dead", "commit", "late"}]
                           /\ wtries' \in [Channels -> Nat]
                           /\ \A c \in Channels : wtries'[c] \in 1..MaxAttempts(c)
                           /\ delivered' \subseteq Keys
                           /\ dead' \subseteq Notifications
             BoundsType == /\ restarts' \in Nat
                           /\ faults' \in Nat
             HistType   == /\ accepted' \in [Keys -> Nat]
                           /\ misreported' \in [Keys -> Nat]
  <1>1. /\ log' \in Seq(Messages)
        /\ queue' \in [Channels -> Seq(Notifications)]
    BY TopicsGrow
  <1> SUFFICES RouterType /\ WorkerType /\ BoundsType /\ HistType
    BY <1>1 DEF TypeOK
  <1>2. TypeOK
    BY DEF IInv
  <1>3. \A kind : Fails(kind) => faults' \in Nat
    BY <1>2 DEF Fails, TypeOK
  <1>4. UNCHANGED routerVars => RouterType
    BY <1>2 DEF routerVars, TypeOK
  <1>5. UNCHANGED workVars => WorkerType
    BY <1>2 DEF workVars, TypeOK
  <1>6. UNCHANGED histVars => HistType
    BY <1>2 DEF histVars, TypeOK
  <1>7. UNCHANGED restarts => restarts' \in Nat
    BY <1>2 DEF TypeOK
  <1>8. UNCHANGED faults => faults' \in Nat
    BY <1>2 DEF TypeOK
  <1>9. /\ rdone \in Nat /\ rat \in {"idle", "resolve", "send"}
        /\ rtries \in 1..RouterAttempts /\ rnext \in Nat \ {0}
        /\ RouterAttempts \in Nat \ {0}
    BY <1>2, ConstantsAssumption DEF TypeOK
  <1>10. ASSUME NEW m \in Messages, Publish(m)
         PROVE  RouterType /\ WorkerType /\ BoundsType /\ HistType
    BY <1>4, <1>5, <1>6, <1>7, <1>8, <1>10 DEF Publish
  <1>11. CASE Route
    <2>1. RouterType
      BY <1>9, <1>11 DEF Route
    <2> QED
      BY <1>5, <1>6, <1>7, <1>8, <1>11, <2>1 DEF Route
  <1>12. CASE Resolve
    <2>1. RouterType
      BY <1>9, <1>12 DEF Resolve
    <2> QED
      BY <1>5, <1>6, <1>7, <1>8, <1>12, <2>1 DEF Resolve
  <1>13. CASE ResolveFails
    <2>1. RouterType
      <3>1. CASE RouterIdle
        BY <1>9, <1>13, <3>1, RouterIdleType DEF ResolveFails
      <3>2. CASE rtries < RouterAttempts /\ rtries' = rtries + 1 /\ UNCHANGED <<rat, rnext>>
        BY <1>9, <1>13, <3>2 DEF ResolveFails
      <3> QED
        BY <1>13, <3>1, <3>2 DEF ResolveFails
    <2> QED
      BY <1>5, <1>6, <1>7, <1>8, <1>13, <2>1 DEF ResolveFails
  <1>14. CASE SendNotification
    <2>1. RouterType
      BY <1>9, <1>14, RouterIdleType DEF SendNotification
    <2>2. faults' \in Nat
      BY <1>3, <1>8, <1>14 DEF SendNotification
    <2> QED
      BY <1>5, <1>6, <1>7, <1>14, <2>1, <2>2 DEF SendNotification
  <1>15. CASE CommitRouted
    <2>1. RouterType
      BY <1>9, <1>15, RouterIdleType DEF CommitRouted
    <2>2. faults' \in Nat
      BY <1>3, <1>8, <1>15 DEF CommitRouted
    <2> QED
      BY <1>5, <1>6, <1>7, <1>15, <2>1, <2>2 DEF CommitRouted
  <1>16. ASSUME NEW c \in Channels, Take(c)
         PROVE  RouterType /\ WorkerType /\ BoundsType /\ HistType
    <2>1. PICK step \in {"commit", "try"} : WorkerAt(c, step, 1)
      BY <1>16 DEF Take
    <2>2. /\ wat' \in [Channels -> {"idle", "try", "dead", "commit", "late"}]
          /\ wtries' \in [Channels -> Nat]
          /\ \A d \in Channels : wtries'[d] \in 1..MaxAttempts(d)
      BY <2>1, OneTry, WorkerAtType
    <2>3. WorkerType
      BY <1>2, <1>16, <2>2 DEF Take, TypeOK
    <2> QED
      BY <1>4, <1>6, <1>7, <1>8, <1>16, <2>3 DEF Take
  <1>17. ASSUME NEW c \in Channels, Deliver(c)
         PROVE  RouterType /\ WorkerType /\ BoundsType /\ HistType
    <2> DEFINE k == KeyFor(InHand(c))
    <2>1. k \in Keys
      BY <1>17, InHandType DEF Deliver
    <2>2. /\ wtries[c] \in Nat
          /\ wtries[c] \in 1..MaxAttempts(c)
          /\ MaxAttempts(c) \in Nat
      BY <1>2, ConstantsAssumption DEF TypeOK, MaxAttempts
    <2>3. PICK step \in {"commit", "late", "try", "dead"}, t \in 1..MaxAttempts(c) : WorkerAt(c, step, t)
      <3>1. wtries[c] < MaxAttempts(c) => wtries[c] + 1 \in 1..MaxAttempts(c)
        BY <2>2
      <3> QED
        BY <1>17, <3>1, OneTry DEF Deliver, GivesUp
    <2>4. /\ wat' \in [Channels -> {"idle", "try", "dead", "commit", "late"}]
          /\ wtries' \in [Channels -> Nat]
          /\ \A d \in Channels : wtries'[d] \in 1..MaxAttempts(d)
      BY <2>3, WorkerAtType
    <2>5. delivered' = delivered \/ delivered' = delivered \union {k}
      BY <1>17 DEF Deliver
    <2>6. WorkerType
      BY <1>2, <1>17, <2>1, <2>4, <2>5 DEF Deliver, TypeOK
    <2>7. faults' \in Nat
      BY <1>3, <1>8, <1>17 DEF Deliver
    <2>8. HistType
      <3>1. CASE UNCHANGED histVars
        BY <1>6, <3>1
      <3>2. CASE Accepts(k)
        <4>1. accepted' \in [Keys -> Nat]
          BY <2>1, <3>2, AcceptsType
        <4>2. \/ misreported' = misreported
              \/ misreported' = [misreported EXCEPT ![k] = @ + 1]
              \/ UNCHANGED histVars
          BY <1>17 DEF Deliver
        <4>3. CASE misreported' = misreported
          BY <1>2, <4>1, <4>3 DEF TypeOK
        <4>4. CASE misreported' = [misreported EXCEPT ![k] = @ + 1]
          BY <1>2, <2>1, <4>1, <4>4 DEF TypeOK
        <4> QED
          BY <1>6, <4>2, <4>3, <4>4
      <3> QED
        BY <1>17, <3>1, <3>2 DEF Deliver
    <2> QED
      BY <1>4, <1>7, <1>17, <2>6, <2>7, <2>8 DEF Deliver
  <1>18. ASSUME NEW c \in Channels, DeadLetter(c)
         PROVE  RouterType /\ WorkerType /\ BoundsType /\ HistType
    <2>1. InHand(c) \in Notifications
      BY <1>18, InHandType DEF DeadLetter
    <2>2. PICK step \in {"late", "idle"} : WorkerAt(c, step, 1)
      BY <1>18 DEF DeadLetter
    <2>3. /\ wat' \in [Channels -> {"idle", "try", "dead", "commit", "late"}]
          /\ wtries' \in [Channels -> Nat]
          /\ \A d \in Channels : wtries'[d] \in 1..MaxAttempts(d)
      BY <2>2, OneTry, WorkerAtType
    <2>4. dead' = dead \/ dead' = dead \union {InHand(c)}
      BY <1>18 DEF DeadLetter
    <2>5. WorkerType
      BY <1>2, <1>18, <2>1, <2>3, <2>4 DEF DeadLetter, TypeOK
    <2>6. faults' \in Nat
      BY <1>3, <1>8, <1>18 DEF DeadLetter
    <2> QED
      BY <1>4, <1>6, <1>7, <1>18, <2>5, <2>6 DEF DeadLetter
  <1>19. ASSUME NEW c \in Channels, CommitWork(c)
         PROVE  RouterType /\ WorkerType /\ BoundsType /\ HistType
    <2>1. WorkerAt(c, "idle", 1)
      BY <1>19 DEF CommitWork
    <2>2. /\ wat' \in [Channels -> {"idle", "try", "dead", "commit", "late"}]
          /\ wtries' \in [Channels -> Nat]
          /\ \A d \in Channels : wtries'[d] \in 1..MaxAttempts(d)
      BY <2>1, OneTry, WorkerAtType
    <2>3. wdone' = wdone \/ wdone' = [wdone EXCEPT ![c] = @ + 1]
      BY <1>19 DEF CommitWork
    <2>4. WorkerType
      <3>1. wdone' \in [Channels -> Nat]
        <4>1. wdone \in [Channels -> Nat] /\ wdone[c] + 1 \in Nat
          BY <1>2 DEF TypeOK
        <4>2. CASE wdone' = wdone
          BY <4>1, <4>2
        <4>3. CASE wdone' = [wdone EXCEPT ![c] = @ + 1]
          BY <4>1, <4>3
        <4> QED
          BY <2>3, <4>2, <4>3
      <3>2. UNCHANGED <<delivered, dead>>
        BY <1>19 DEF CommitWork
      <3> QED
        BY <1>2, <2>2, <3>1, <3>2 DEF TypeOK
    <2>5. faults' \in Nat
      BY <1>3, <1>8, <1>19 DEF CommitWork
    <2> QED
      BY <1>4, <1>6, <1>7, <1>19, <2>4, <2>5 DEF CommitWork
  <1>20. CASE Restart
    <2>1. RouterType
      BY <1>9, <1>20, RouterIdleType DEF Restart
    <2>2. WorkerType
      BY <1>2, <1>20, OneTry DEF Restart, TypeOK
    <2>3. BoundsType
      BY <1>2, <1>20 DEF Restart, TypeOK
    <2> QED
      BY <1>6, <1>20, <2>1, <2>2, <2>3 DEF Restart
  <1>21. CASE UNCHANGED vars
    <2>1. /\ UNCHANGED routerVars /\ UNCHANGED workVars /\ UNCHANGED histVars
          /\ UNCHANGED restarts /\ UNCHANGED faults
      BY <1>21 DEF vars, routerVars, workVars, histVars
    <2> HIDE DEF RouterType, WorkerType, HistType
    <2> QED
      BY <1>4, <1>5, <1>6, <1>7, <1>8, <2>1
  <1> HIDE DEF RouterType, WorkerType, BoundsType, HistType
  <1> QED
    BY <1>10, <1>11, <1>12, <1>13, <1>14, <1>15, <1>16, <1>17, <1>18, <1>19, <1>20, <1>21
       DEF Next, RouterStep, WorkerStep

-----------------------------------------------------------------------------
(* The router.                                                             *)

LEMMA OffsetsStep ==
    ASSUME IInv, [Next]_vars
    PROVE  Offsets'
  <1>1. /\ log \in Seq(Messages) /\ rdone \in Nat
        /\ rdone <= Len(log)
        /\ rat # "idle" => rdone < Len(log)
        /\ log' \in Seq(Messages)
        /\ Len(log) <= Len(log')
    BY TopicsGrow DEF IInv, TypeOK, Offsets
  <1>2. /\ rdone' <= Len(log')
        /\ rat' # "idle" => rdone' < Len(log')
    <2>1. CASE UNCHANGED <<rdone, rat>>
      BY <1>1, <2>1
    <2>2. CASE rdone' = rdone /\ rdone < Len(log)
      BY <1>1, <2>2
    <2>3. CASE rat' = "idle" /\ (rdone' = rdone \/ (rdone < Len(log) /\ rdone' = rdone + 1))
      BY <1>1, <2>3
    <2>4. CASE Restart
      BY <2>3, <2>4 DEF Restart, RouterIdle
    <2>5. CASE Route
      BY <2>2, <2>5 DEF Route
    <2>6. CASE Resolve \/ ResolveFails \/ SendNotification
      BY <1>1, <2>2, <2>6 DEF Resolve, ResolveFails, SendNotification
    <2>7. CASE CommitRouted
      BY <1>1, <2>3, <2>7 DEF CommitRouted, RouterIdle
    <2>8. ASSUME NEW c \in Channels, WorkerStep(c)
          PROVE  UNCHANGED <<rdone, rat>>
      BY <2>8 DEF WorkerStep, Take, Deliver, DeadLetter, CommitWork, routerVars
    <2>9. ASSUME NEW m \in Messages, Publish(m)
          PROVE  UNCHANGED <<rdone, rat>>
      BY <2>9 DEF Publish, routerVars
    <2>10. CASE UNCHANGED vars
      BY <2>1, <2>10 DEF vars
    <2> QED
      BY <2>1, <2>4, <2>5, <2>6, <2>7, <2>8, <2>9, <2>10 DEF Next, RouterStep
  <1>3. ASSUME NEW c \in Channels
        PROVE  /\ wdone'[c] <= Len(queue'[c])
               /\ wat'[c] # "idle" => wdone'[c] < Len(queue'[c])
    <2>1. /\ queue[c] \in Seq(Notifications) /\ wdone[c] \in Nat
          /\ wdone[c] <= Len(queue[c])
          /\ wat[c] # "idle" => wdone[c] < Len(queue[c])
          /\ queue'[c] \in Seq(Notifications)
          /\ Len(queue[c]) <= Len(queue'[c])
      BY TopicsGrow DEF IInv, TypeOK, Offsets
    <2>2. CASE wdone'[c] = wdone[c] /\ wat'[c] = wat[c]
      BY <2>1, <2>2
    <2>3. CASE wdone'[c] = wdone[c] /\ wdone[c] < Len(queue[c])
      BY <2>1, <2>3
    <2>4. CASE /\ wat'[c] = "idle"
               /\ \/ wdone'[c] = wdone[c]
                  \/ wdone[c] < Len(queue[c]) /\ wdone'[c] = wdone[c] + 1
      BY <2>1, <2>4
    <2>5. ASSUME NEW d \in Channels, WorkerStep(d), d # c
          PROVE  wdone'[c] = wdone[c] /\ wat'[c] = wat[c]
      <3>1. wdone \in [Channels -> Nat] /\ wat \in [Channels -> {"idle", "try", "dead", "commit", "late"}]
        BY DEF IInv, TypeOK
      <3>2. wdone' = wdone \/ wdone' = [wdone EXCEPT ![d] = @ + 1]
        BY <2>5 DEF WorkerStep, Take, Deliver, DeadLetter, CommitWork
      <3>3. \E step : wat' = [wat EXCEPT ![d] = step]
        BY <2>5 DEF WorkerStep, Take, Deliver, DeadLetter, CommitWork, WorkerAt, GivesUp
      <3> QED
        BY <2>5, <3>1, <3>2, <3>3
    <2>6. CASE Take(c)
      BY <2>3, <2>6 DEF Take
    <2>7. CASE Deliver(c) \/ DeadLetter(c)
      BY <2>1, <2>3, <2>7 DEF Deliver, DeadLetter
    <2>8. CASE CommitWork(c)
      <3>1. wat'[c] = "idle"
        BY <2>8, OneTry, WorkerAtType DEF CommitWork
      <3>2. wdone'[c] = wdone[c] \/ wdone'[c] = wdone[c] + 1
        BY <2>8 DEF CommitWork, IInv, TypeOK
      <3> QED
        BY <2>1, <2>4, <2>8, <3>1, <3>2 DEF CommitWork
    <2>9. CASE Restart
      BY <2>4, <2>9 DEF Restart
    <2>10. CASE RouterStep
      <3>1. UNCHANGED workVars
        BY <2>10 DEF RouterStep, Route, Resolve, ResolveFails, SendNotification, CommitRouted
      <3> QED
        BY <2>2, <3>1 DEF workVars
    <2>11. ASSUME NEW m \in Messages, Publish(m)
           PROVE  wdone'[c] = wdone[c] /\ wat'[c] = wat[c]
      BY <2>11 DEF Publish, workVars
    <2>12. CASE UNCHANGED vars
      BY <2>2, <2>12 DEF vars
    <2> QED
      BY <2>2, <2>5, <2>6, <2>7, <2>8, <2>9, <2>10, <2>11, <2>12 DEF Next, WorkerStep
  <1> QED
    BY <1>2, <1>3, TopicsGrow DEF Offsets

\* The notification in hand, as a constant.
LEMMA PublishedNth ==
    ASSUME NEW n \in Notifications, NEW k \in Nat, Published(n)', Nth(Current, k)' = n
    PROVE  Published(Nth(Current, k))'
  <1>1. \E j \in 1..Len(queue'[n.channel]) : queue'[n.channel][j] = n
    BY DEF Published
  <1>2. \E j \in 1..Len(queue'[(Nth(Current, k)').channel]) :
              queue'[(Nth(Current, k)').channel][j] = Nth(Current, k)'
    BY <1>1
  <1> QED
    BY <1>2 DEF Published

\* The router publishes the notifications of a message one after the other.
LEMMA SentStep ==
    ASSUME IInv, [Next]_vars
    PROVE  SentSoFar'
  <1> SUFFICES ASSUME rat' = "send",
                      NEW k \in (1..Count(Current))', k < rnext'
               PROVE  Published(Nth(Current, k))'
    BY DEF SentSoFar
  <1>0. rnext \in Nat /\ rdone \in Nat
    BY DEF IInv, TypeOK
  <1>1. ASSUME rat = "send", UNCHANGED rdone, k < rnext,
               log' = log \/ \E m \in Messages : log' = Append(log, m)
        PROVE  Published(Nth(Current, k))'
    <2>1. Current' = Current
      BY <1>1, CurrentStays DEF Current
    <2>2. Current \in Messages
      BY <1>1, CurrentType
    <2>3. k \in 1..Count(Current)
      BY <2>1 DEF Count
    <2>4. Nth(Current, k) \in Notifications
      BY <2>2, <2>3, NthType
    <2>5. Published(Nth(Current, k))
      BY <1>1, <2>3 DEF IInv, SentSoFar
    <2>6. PICK n \in Notifications : n = Nth(Current, k)
      BY <2>4
    <2>7. Published(n)
      BY <2>5, <2>6
    <2>8. Published(n)'
      BY <2>7, PublishedStays
    <2>9. Nth(Current, k)' = n
      BY <2>1, <2>6 DEF Nth
    <2>10. k \in Nat
      BY <2>2, <2>3, CountType
    <2> QED
      BY <2>8, <2>9, <2>10, PublishedNth
  <1>2. CASE Resolve
    <2>1. Current' = Current
      BY <1>2 DEF Resolve, Current
    <2>2. Current \in Messages
      BY <1>2, CurrentType DEF Resolve
    <2>3. k \in 1..Count(Current)
      BY <2>1 DEF Count
    <2>4. Count(Current) \in Nat
      BY <2>2, CountType
    <2> QED
      BY <1>2, <2>3, <2>4 DEF Resolve
  <1>3. CASE SendNotification
    <2>1. /\ rnext' = rnext + 1
          /\ queue' = [queue EXCEPT ![Nth(Current, rnext).channel] = Append(@, Nth(Current, rnext))]
          /\ UNCHANGED <<log, rdone>>
          /\ rat = "send"
          /\ rnext <= Count(Current)
      BY <1>3 DEF SendNotification, RouterIdle
    <2>2. Current' = Current
      BY <2>1 DEF Current
    <2>3. Current \in Messages
      BY <2>1, CurrentType
    <2>4. k \in 1..Count(Current) /\ Count(Current) \in Nat
      BY <2>2, <2>3, CountType DEF Count
    <2>5. CASE k < rnext
      BY <1>1, <2>1, <2>5
    <2>6. CASE k = rnext
      <3>1. Nth(Current, rnext) \in Notifications
        BY <2>3, <2>4, <2>6, NthType
      <3>2. PICK n \in Notifications : n = Nth(Current, rnext)
        BY <3>1
      <3>3. queue' = [queue EXCEPT ![n.channel] = Append(@, n)]
        BY <2>1, <3>2
      <3>4. Published(n)'
        BY <3>3, PutGrows
      <3>5. Nth(Current, k)' = n
        BY <2>2, <2>6, <3>2 DEF Nth
      <3> QED
        BY <2>4, <3>4, <3>5, PublishedNth
    <2> QED
      BY <1>0, <2>1, <2>4, <2>5, <2>6
  <1>4. CASE Route \/ ResolveFails \/ CommitRouted \/ Restart
    BY <1>4 DEF Route, ResolveFails, CommitRouted, Restart, RouterIdle
  <1>5. ASSUME NEW c \in Channels, WorkerStep(c)
        PROVE  UNCHANGED <<log, rdone, rat, rnext>>
    BY <1>5 DEF WorkerStep, Take, Deliver, DeadLetter, CommitWork, routerVars
  <1>6. ASSUME NEW m \in Messages, Publish(m)
        PROVE  log' = Append(log, m) /\ UNCHANGED <<rdone, rat, rnext>>
    BY <1>6 DEF Publish, routerVars
  <1>7. CASE UNCHANGED vars
    BY <1>1, <1>7 DEF vars
  <1> QED
    BY <1>1, <1>2, <1>3, <1>4, <1>5, <1>6, <1>7 DEF Next, RouterStep

\* The offset is committed when all notifications of the message are published.
LEMMA RoutedStep ==
    ASSUME IInv, [Next]_vars
    PROVE  RoutedIsPublished'
  <1> SUFFICES ASSUME NEW i \in 1..rdone', NEW k \in (1..Count(log[i]))'
               PROVE  Published(Nth(log[i], k))'
    BY DEF RoutedIsPublished, NotificationsOf, Published
  <1>1. /\ log \in Seq(Messages) /\ rdone \in Nat /\ rdone <= Len(log)
        /\ log' \in Seq(Messages)
        /\ \A l \in 1..Len(log) : log'[l] = log[l]
    BY TopicsGrow DEF IInv, TypeOK, Offsets
  <1>2. ASSUME i \in 1..Len(log), NEW n \in Notifications, n = Nth(log[i], k), Published(n)
        PROVE  Published(Nth(log[i], k))'
    <2>1. Published(n)'
      BY <1>2, PublishedStays
    <2>2. Nth(log[i], k)' = n
      BY <1>1, <1>2 DEF Nth
    <2>3. \E j \in 1..Len(queue'[n.channel]) : queue'[n.channel][j] = n
      BY <2>1 DEF Published
    <2>4. \E j \in 1..Len(queue'[(Nth(log[i], k)').channel]) :
              queue'[(Nth(log[i], k)').channel][j] = Nth(log[i], k)'
      BY <2>2, <2>3
    <2> QED
      BY <2>4 DEF Published
  <1>3. ASSUME i \in 1..Len(log)
        PROVE  /\ log[i] \in Messages
               /\ k \in 1..Count(log[i])
               /\ Nth(log[i], k) \in Notifications
    <2>1. log[i] \in Messages
      BY <1>1, <1>3
    <2>2. k \in 1..Count(log[i])
      BY <1>1, <1>3 DEF Count
    <2> QED
      BY <2>1, <2>2, NthType
  <1>4. CASE i \in 1..rdone
    <2>1. i \in 1..Len(log)
      BY <1>1, <1>4
    <2>2. PICK n \in Notifications : n = Nth(log[i], k)
      BY <1>3, <2>1
    <2>3. n \in NotificationsOf(log[i])
      BY <1>3, <2>1, <2>2 DEF NotificationsOf
    <2>4. Published(n)
      BY <1>4, <2>3 DEF IInv, RoutedIsPublished, Published
    <2> QED
      BY <1>2, <2>1, <2>2, <2>4
  <1>5. CASE i \notin 1..rdone
    <2>1. rdone' # rdone
      BY <1>5
    <2>2. CommitRouted
      BY <2>1 DEF Next, RouterStep, Route, Resolve, ResolveFails, SendNotification, Publish, Restart,
                  WorkerStep, Take, Deliver, DeadLetter, CommitWork, routerVars, vars
    <2>3. rat = "send" /\ rnext > Count(Current) /\ rdone' = rdone + 1
      BY <2>1, <2>2 DEF CommitRouted
    <2>4. i = rdone + 1
      BY <1>1, <1>5, <2>3
    <2>5. rdone < Len(log)
      BY <2>3 DEF IInv, Offsets
    <2>6. i \in 1..Len(log) /\ log[i] = Current
      BY <1>1, <2>4, <2>5 DEF Current
    <2>7. k \in 1..Count(Current) /\ Count(Current) \in Nat /\ rnext \in Nat
      BY <1>3, <2>6, CountType DEF IInv, TypeOK
    <2>8. k < rnext
      BY <2>3, <2>7
    <2>9. Published(Nth(Current, k))
      BY <2>3, <2>7, <2>8 DEF IInv, SentSoFar
    <2>10. PICK n \in Notifications : n = Nth(log[i], k)
      BY <1>3, <2>6
    <2>11. Published(n)
      BY <2>6, <2>9, <2>10
    <2> QED
      BY <1>2, <2>6, <2>10, <2>11
  <1> QED
    BY <1>4, <1>5

-----------------------------------------------------------------------------
(* The workers.                                                            *)

\* A worker changes nothing of another channel.
LEMMA OthersStay ==
    ASSUME IInv, NEW c \in Channels, NEW d \in Channels, c # d, WorkerStep(d)
    PROVE  /\ wat'[c] = wat[c]
           /\ wdone'[c] = wdone[c]
           /\ queue' = queue
  <1>1. wdone \in [Channels -> Nat] /\ wat \in [Channels -> {"idle", "try", "dead", "commit", "late"}]
    BY DEF IInv, TypeOK
  <1>2. wdone' = wdone \/ wdone' = [wdone EXCEPT ![d] = @ + 1]
    BY DEF WorkerStep, Take, Deliver, DeadLetter, CommitWork
  <1>3. \E step : wat' = [wat EXCEPT ![d] = step]
    BY DEF WorkerStep, Take, Deliver, DeadLetter, CommitWork, WorkerAt, GivesUp
  <1>4. queue' = queue
    BY DEF WorkerStep, Take, Deliver, DeadLetter, CommitWork
  <1> QED
    BY <1>1, <1>2, <1>3, <1>4

\* The counts only grow.
LEMMA CountsGrow ==
    ASSUME IInv, [Next]_vars
    PROVE  \A k \in Keys : accepted'[k] >= accepted[k]
  <1>1. accepted \in [Keys -> Nat]
    BY DEF IInv, TypeOK
  <1>2. ASSUME NEW c \in Channels, WorkerStep(c)
        PROVE  \A k \in Keys : accepted'[k] >= accepted[k]
    <2>1. CASE Deliver(c)
      <3>1. KeyFor(InHand(c)) \in Keys
        BY <2>1, InHandType DEF Deliver
      <3>2. accepted' = accepted \/ Accepts(KeyFor(InHand(c)))
        BY <2>1 DEF Deliver, histVars
      <3>3. \A k \in Keys : accepted'[k] >= accepted[k]
        BY <1>1, <3>1, <3>2, AcceptsType
      <3> QED
        BY <2>1, <3>3 DEF Deliver
    <2>2. CASE Take(c) \/ DeadLetter(c) \/ CommitWork(c)
      BY <1>1, <2>2 DEF Take, DeadLetter, CommitWork, histVars
    <2> QED
      BY <1>2, <2>1, <2>2 DEF WorkerStep
  <1>3. CASE RouterStep
    <2>1. UNCHANGED <<workVars, histVars>>
      BY <1>3 DEF RouterStep, Route, Resolve, ResolveFails, SendNotification, CommitRouted
    <2> QED
      BY <1>1, <2>1 DEF workVars, histVars
  <1>4. ASSUME NEW m \in Messages, Publish(m)
        PROVE  \A k \in Keys : accepted'[k] >= accepted[k]
    BY <1>1, <1>4 DEF Publish, workVars, histVars
  <1>5. CASE Restart
    BY <1>1, <1>5 DEF Restart, histVars
  <1>6. CASE UNCHANGED vars
    BY <1>1, <1>6 DEF vars
  <1> QED
    BY <1>2, <1>3, <1>4, <1>5, <1>6 DEF Next

LEMMA DoneStays ==
    ASSUME IInv, [Next]_vars, NEW n \in Notifications, Done(n)
    PROVE  Done(n)'
  <1>1. KeyFor(n) \in Keys
    BY KeyType
  <1>2. accepted \in [Keys -> Nat] /\ accepted' \in [Keys -> Nat]
    BY TypeStep DEF IInv, TypeOK
  <1>3. accepted[KeyFor(n)] > 0 => accepted'[KeyFor(n)] > 0
    BY <1>1, <1>2, CountsGrow
  <1> QED
    BY <1>3 DEF Done, KeyFor

\* The notification in hand stays the same until it is committed.
LEMMA InHandStays ==
    ASSUME IInv, [Next]_vars, NEW c \in Channels, wdone'[c] = wdone[c], wdone[c] < Len(queue[c])
    PROVE  InHand(c)' = InHand(c)
  <1>1. wdone[c] + 1 \in 1..Len(queue[c])
    BY InHandType
  <1>2. queue'[c][wdone[c] + 1] = queue[c][wdone[c] + 1]
    BY <1>1, TopicsGrow
  <1> QED
    BY <1>2 DEF InHand

\* What a step of the worker does with the notification in hand.
LEMMA WorkerKnows ==
    ASSUME IInv, [Next]_vars, NEW c \in Channels, WorkerStep(c)
    PROVE  /\ wat'[c] = "commit" => Done(InHand(c))'
           /\ wat'[c] = "try" => KeyFor(InHand(c))' \notin delivered'
           /\ \A k \in delivered' : accepted'[k] > 0
           /\ delivered' \subseteq delivered \union {KeyFor(InHand(c))}
  <1> DEFINE k == KeyFor(InHand(c))
  <1>1. wdone[c] < Len(queue[c]) /\ k \in Keys /\ InHand(c) \in Notifications
    <2>1. wdone[c] < Len(queue[c])
      BY DEF WorkerStep, Take, Deliver, DeadLetter, CommitWork, IInv, Offsets
    <2> QED
      BY <2>1, InHandType
  <1>2. /\ accepted \in [Keys -> Nat]
        /\ delivered \subseteq Keys
        /\ \A l \in delivered : accepted[l] > 0
        /\ wat[c] = "try" => k \notin delivered
    BY DEF IInv, TypeOK, WorkersKnow
  <1>3. CASE Take(c)
    <2>1. InHand(c)' = InHand(c)
      BY <1>1, <1>3, InHandStays DEF Take
    <2>2. wat'[c] = IF k \in delivered THEN "commit" ELSE "try"
      BY <1>3, OneTry, WorkerAtType DEF Take, Known
    <2>3. delivered' = delivered /\ accepted' = accepted
      BY <1>3 DEF Take, histVars
    <2>4. k \in delivered => Done(InHand(c))'
      BY <1>2, <2>1, <2>3 DEF Done, KeyFor
    <2>5. KeyFor(InHand(c))' = k
      BY <2>1 DEF KeyFor
    <2> QED
      BY <1>2, <2>2, <2>3, <2>4, <2>5
  <1>4. CASE Deliver(c)
    <2>1. InHand(c)' = InHand(c)
      BY <1>1, <1>4, InHandStays DEF Deliver
    <2>2. KeyFor(InHand(c))' = k
      BY <2>1 DEF KeyFor
    <2>3. wat[c] = "try" /\ k \notin delivered
      BY <1>2, <1>4 DEF Deliver
    <2>4. CASE /\ delivered' = delivered \union {k}
               /\ Accepts(k)
               /\ \E step \in {"commit", "late"} : WorkerAt(c, step, 1)
      <3>1. wat'[c] \in {"commit", "late"}
        BY <2>4, OneTry, WorkerAtType
      <3>2. accepted'[k] > 0
        BY <1>1, <1>2, <2>4, AcceptsType
      <3>3. Done(InHand(c))'
        BY <2>2, <3>2 DEF Done
      <3>4. \A l \in delivered' : accepted'[l] > 0
        BY <1>1, <1>2, <2>4, <3>2, AcceptsType
      <3> QED
        BY <2>4, <3>1, <3>3, <3>4
    <2>5. CASE /\ delivered' = delivered
               /\ \E step \in {"try", "dead"}, t \in 1..MaxAttempts(c) : WorkerAt(c, step, t)
      <3>1. wat'[c] \in {"try", "dead"}
        BY <2>5, WorkerAtType
      <3>2. \A l \in delivered' : accepted'[l] > 0
        <4>1. \A l \in Keys : accepted'[l] >= accepted[l]
          BY CountsGrow
        <4>2. accepted' \in [Keys -> Nat]
          BY TypeStep DEF TypeOK
        <4> QED
          BY <1>2, <2>5, <4>1, <4>2
      <3> QED
        BY <2>2, <2>3, <2>5, <3>1, <3>2
    <2>6. /\ wtries[c] \in 1..MaxAttempts(c)
          /\ MaxAttempts(c) \in Nat
      BY ConstantsAssumption DEF IInv, TypeOK, MaxAttempts
    <2>7. wtries[c] < MaxAttempts(c) => wtries[c] + 1 \in 1..MaxAttempts(c)
      BY <2>6
    <2> QED
      BY <1>4, <2>4, <2>5, <2>7, OneTry DEF Deliver, GivesUp
  <1>5. CASE DeadLetter(c)
    <2>1. InHand(c)' = InHand(c)
      BY <1>1, <1>5, InHandStays DEF DeadLetter
    <2>2. delivered' = delivered /\ accepted' = accepted
      BY <1>5 DEF DeadLetter, histVars
    <2>3. CASE WorkerAt(c, "late", 1)
      <3>1. wat'[c] = "late"
        BY <2>3, OneTry, WorkerAtType
      <3> QED
        BY <1>2, <2>2, <3>1
    <2>4. CASE WorkerAt(c, "idle", 1)
      <3>1. wat'[c] = "idle"
        BY <2>4, OneTry, WorkerAtType
      <3> QED
        BY <1>2, <2>2, <3>1
    <2> QED
      BY <1>5, <2>3, <2>4 DEF DeadLetter
  <1>6. CASE CommitWork(c)
    <2>1. wat'[c] = "idle"
      BY <1>6, OneTry, WorkerAtType DEF CommitWork
    <2>2. delivered' = delivered /\ accepted' = accepted
      BY <1>6 DEF CommitWork, histVars
    <2> QED
      BY <1>2, <2>1, <2>2
  <1> QED
    BY <1>3, <1>4, <1>5, <1>6 DEF WorkerStep

LEMMA WorkersStep ==
    ASSUME IInv, [Next]_vars
    PROVE  WorkersKnow'
  <1>1. \A l \in delivered : accepted[l] > 0
    BY DEF IInv, WorkersKnow
  <1>2. ASSUME NEW c \in Channels, wat'[c] = wat[c], wdone'[c] = wdone[c],
               \A k \in delivered' \ delivered : k[3] # c
        PROVE  /\ wat'[c] = "commit" => Done(InHand(c))'
               /\ wat'[c] = "try" => KeyFor(InHand(c))' \notin delivered'
    <2> SUFFICES ASSUME wat[c] \in {"commit", "try"}
                 PROVE  /\ wat[c] = "commit" => Done(InHand(c))'
                        /\ wat[c] = "try" => KeyFor(InHand(c))' \notin delivered'
      BY <1>2
    <2>1. wdone[c] < Len(queue[c])
      BY DEF IInv, Offsets
    <2>2. InHand(c)' = InHand(c)
      BY <1>2, <2>1, InHandStays
    <2>3. InHand(c) \in Notifications /\ InHand(c).channel = c
      BY <2>1, InHandType
    <2>4. PICK n \in Notifications : n = InHand(c)
      BY <2>3
    <2>5. wat[c] = "commit" => Done(n)
      BY <2>4 DEF IInv, WorkersKnow
    <2>6. wat[c] = "commit" => Done(n)'
      BY <2>5, DoneStays
    <2>7. Done(n)' => Done(InHand(c))'
      BY <2>2, <2>4 DEF Done, KeyFor
    <2>8. KeyFor(InHand(c))' = KeyFor(n) /\ KeyFor(n)[3] = c
      BY <2>2, <2>3, <2>4 DEF KeyFor
    <2>9. wat[c] = "try" => KeyFor(n) \notin delivered
      BY <2>4 DEF IInv, WorkersKnow
    <2> QED
      BY <1>2, <2>6, <2>7, <2>8, <2>9
  <1>3. ASSUME NEW d \in Channels, WorkerStep(d)
        PROVE  WorkersKnow'
    <2>1. /\ wat'[d] = "commit" => Done(InHand(d))'
          /\ wat'[d] = "try" => KeyFor(InHand(d))' \notin delivered'
          /\ \A k \in delivered' : accepted'[k] > 0
          /\ delivered' \subseteq delivered \union {KeyFor(InHand(d))}
      BY <1>3, WorkerKnows
    <2>2. wdone[d] < Len(queue[d])
      BY <1>3 DEF WorkerStep, Take, Deliver, DeadLetter, CommitWork, IInv, Offsets
    <2>3. KeyFor(InHand(d))[3] = d
      BY <2>2, InHandType DEF KeyFor
    <2>4. ASSUME NEW c \in Channels, c # d
          PROVE  /\ wat'[c] = "commit" => Done(InHand(c))'
                 /\ wat'[c] = "try" => KeyFor(InHand(c))' \notin delivered'
      <3>1. wat'[c] = wat[c] /\ wdone'[c] = wdone[c]
        BY <1>3, <2>4, OthersStay
      <3>2. \A k \in delivered' \ delivered : k[3] # c
        BY <2>1, <2>3, <2>4
      <3> QED
        BY <1>2, <3>1, <3>2
    <2> QED
      BY <2>1, <2>4 DEF WorkersKnow
  <1>4. ASSUME UNCHANGED workVars, UNCHANGED histVars
        PROVE  WorkersKnow'
    <2>1. \A k \in delivered' : accepted'[k] > 0
      BY <1>1, <1>4 DEF workVars, histVars
    <2>2. \A c \in Channels : wat'[c] = wat[c] /\ wdone'[c] = wdone[c]
      BY <1>4 DEF workVars
    <2>3. delivered' \ delivered = {}
      BY <1>4 DEF workVars
    <2> QED
      BY <1>2, <2>1, <2>2, <2>3 DEF WorkersKnow
  <1>5. CASE RouterStep
    <2>1. UNCHANGED workVars /\ UNCHANGED histVars
      BY <1>5 DEF RouterStep, Route, Resolve, ResolveFails, SendNotification, CommitRouted
    <2> QED
      BY <1>4, <2>1
  <1>6. ASSUME NEW m \in Messages, Publish(m)
        PROVE  WorkersKnow'
    BY <1>4, <1>6 DEF Publish
  <1>7. CASE Restart
    <2>1. delivered' = {} /\ \A c \in Channels : wat'[c] = "idle"
      BY <1>7 DEF Restart
    <2> QED
      BY <2>1 DEF WorkersKnow
  <1>8. CASE UNCHANGED vars
    BY <1>4, <1>8 DEF vars, workVars, histVars
  <1> QED
    BY <1>3, <1>5, <1>6, <1>7, <1>8 DEF Next

\* A worker commits one notification at a time, and only one that is done.
LEMMA WorkedStep ==
    ASSUME IInv, [Next]_vars
    PROVE  WorkedIsDone'
  <1> SUFFICES ASSUME NEW c \in Channels, NEW j \in 1..wdone'[c]
               PROVE  Done(queue[c][j])'
    BY DEF WorkedIsDone, Done
  <1>1. /\ wdone[c] \in Nat /\ wdone \in [Channels -> Nat]
        /\ queue[c] \in Seq(Notifications)
        /\ wdone[c] <= Len(queue[c])
    BY DEF IInv, TypeOK, Offsets
  <1>2. ASSUME j \in 1..Len(queue[c]), Done(queue[c][j])
        PROVE  Done(queue[c][j])'
    <2>1. queue[c][j] \in Notifications
      BY <1>1, <1>2
    <2>2. PICK n \in Notifications : n = queue[c][j]
      BY <2>1
    <2>3. Done(n)
      BY <1>2, <2>2
    <2>4. Done(n)'
      BY <2>3, DoneStays
    <2>5. queue'[c][j] = n
      BY <1>2, <2>2, TopicsGrow
    <2> QED
      BY <2>4, <2>5 DEF Done, KeyFor
  <1>3. CASE j \in 1..wdone[c]
    <2>1. j \in 1..Len(queue[c])
      BY <1>1, <1>3
    <2>2. Done(queue[c][j])
      BY <1>3 DEF IInv, WorkedIsDone, Done
    <2> QED
      BY <1>2, <2>1, <2>2
  <1>4. CASE j \notin 1..wdone[c]
    <2>1. wdone'[c] # wdone[c]
      BY <1>4
    <2>2. CommitWork(c)
      <3>1. ASSUME NEW d \in Channels, WorkerStep(d)
            PROVE  d = c
        BY <2>1, <3>1, OthersStay
      <3>2. ~ UNCHANGED wdone
        BY <2>1
      <3>3. PICK d \in Channels : WorkerStep(d)
        BY <3>2 DEF Next, RouterStep, Route, Resolve, ResolveFails, SendNotification, CommitRouted,
                    Publish, Restart, workVars, vars
      <3>4. WorkerStep(c)
        BY <3>1, <3>3
      <3> QED
        BY <3>2, <3>4 DEF WorkerStep, Take, Deliver, DeadLetter
    <2>3. wdone'[c] = wdone[c] + 1 /\ wat[c] = "commit"
      BY <1>1, <2>1, <2>2 DEF CommitWork
    <2>4. j = wdone[c] + 1
      BY <1>1, <1>4, <2>3
    <2>5. j \in 1..Len(queue[c]) /\ queue[c][j] = InHand(c)
      BY <2>3, <2>4, InHandType DEF InHand
    <2>6. Done(queue[c][j])
      BY <2>3, <2>5 DEF IInv, WorkersKnow
    <2> QED
      BY <1>2, <2>5, <2>6
  <1> QED
    BY <1>3, <1>4

\* The provider accepts only what the log does not know.
LEMMA AcceptedStep ==
    ASSUME IInv, [Next]_vars
    PROVE  AcceptedCounted'
  <1>1. /\ accepted \in [Keys -> Nat]
        /\ misreported \in [Keys -> Nat]
        /\ restarts \in Nat
        /\ \A k \in Keys :
              accepted[k] <= (IF k \in delivered THEN 1 ELSE 0) + restarts + misreported[k]
    BY DEF IInv, TypeOK, AcceptedCounted
  <1>2. ASSUME UNCHANGED <<delivered, restarts, accepted, misreported>>
        PROVE  AcceptedCounted'
    BY <1>1, <1>2 DEF AcceptedCounted
  <1>3. CASE Restart
    <2>1. delivered' = {} /\ restarts' = restarts + 1 /\ accepted' = accepted /\ misreported' = misreported
      BY <1>3 DEF Restart, histVars
    <2>2. ASSUME NEW k \in Keys
          PROVE  accepted[k] <= 0 + (restarts + 1) + misreported[k]
      BY <1>1, <2>2
    <2> QED
      BY <2>1, <2>2 DEF AcceptedCounted
  <1>4. ASSUME NEW c \in Channels, Deliver(c)
        PROVE  AcceptedCounted'
    <2> DEFINE k == KeyFor(InHand(c))
    <2>1. k \in Keys
      BY <1>4, InHandType DEF Deliver
    <2>2. k \notin delivered /\ restarts' = restarts
      BY <1>4 DEF Deliver, IInv, WorkersKnow
    <2>3. accepted[k] <= restarts + misreported[k] /\ accepted[k] \in Nat /\ misreported[k] \in Nat
      BY <1>1, <2>1, <2>2
    <2>4. CASE Accepts(k) /\ delivered' = delivered \union {k} /\ misreported' = misreported
      <3>1. accepted'[k] = accepted[k] + 1 /\ \A l \in Keys \ {k} : accepted'[l] = accepted[l]
        BY <2>1, <2>4, AcceptsType
      <3>2. ASSUME NEW l \in Keys
            PROVE  accepted'[l] <= (IF l \in delivered' THEN 1 ELSE 0) + restarts' + misreported'[l]
        <4>1. CASE l = k
          BY <1>1, <2>2, <2>3, <2>4, <3>1, <4>1
        <4>2. CASE l # k
          <5>1. l \in delivered' <=> l \in delivered
            BY <2>4, <4>2
          <5> QED
            BY <1>1, <2>2, <2>4, <3>1, <4>2, <5>1
        <4> QED
          BY <4>1, <4>2
      <3> QED
        BY <3>2 DEF AcceptedCounted
    <2>5. CASE /\ Accepts(k)
               /\ delivered' = delivered
               /\ misreported' = [misreported EXCEPT ![k] = @ + 1]
      <3>1. accepted'[k] = accepted[k] + 1 /\ \A l \in Keys \ {k} : accepted'[l] = accepted[l]
        BY <2>1, <2>5, AcceptsType
      <3>2. misreported'[k] = misreported[k] + 1 /\ \A l \in Keys \ {k} : misreported'[l] = misreported[l]
        BY <1>1, <2>1, <2>5
      <3>3. ASSUME NEW l \in Keys
            PROVE  accepted'[l] <= (IF l \in delivered' THEN 1 ELSE 0) + restarts' + misreported'[l]
        <4>1. CASE l = k
          BY <1>1, <2>2, <2>3, <2>5, <3>1, <3>2, <4>1
        <4>2. CASE l # k
          BY <1>1, <2>2, <2>5, <3>1, <3>2, <4>2
        <4> QED
          BY <4>1, <4>2
      <3> QED
        BY <3>3 DEF AcceptedCounted
    <2>6. CASE UNCHANGED histVars /\ delivered' = delivered
      BY <1>2, <2>2, <2>6 DEF histVars
    <2> QED
      BY <1>4, <2>4, <2>5, <2>6 DEF Deliver
  <1>5. ASSUME NEW c \in Channels, Take(c) \/ DeadLetter(c) \/ CommitWork(c)
        PROVE  AcceptedCounted'
    BY <1>2, <1>5 DEF Take, DeadLetter, CommitWork, histVars
  <1>6. CASE RouterStep
    BY <1>2, <1>6 DEF RouterStep, Route, Resolve, ResolveFails, SendNotification, CommitRouted,
                      workVars, histVars
  <1>7. ASSUME NEW m \in Messages, Publish(m)
        PROVE  AcceptedCounted'
    BY <1>2, <1>7 DEF Publish, workVars, histVars
  <1>8. CASE UNCHANGED vars
    BY <1>2, <1>8 DEF vars
  <1> QED
    BY <1>3, <1>4, <1>5, <1>6, <1>7, <1>8 DEF Next, WorkerStep

-----------------------------------------------------------------------------
(* The theorems.                                                           *)

LEMMA InitInv == Init => IInv
  <1> SUFFICES ASSUME Init PROVE IInv
    OBVIOUS
  <1>1. TypeOK
    <2>1. \A c \in Channels : wtries[c] \in 1..MaxAttempts(c)
      BY OneTry DEF Init
    <2>2. rtries \in 1..RouterAttempts
      BY ConstantsAssumption DEF Init
    <2> QED
      BY <2>1, <2>2 DEF Init, TypeOK
  <1>2. Offsets
    BY DEF Init, Offsets
  <1>3. SentSoFar /\ RoutedIsPublished
    BY DEF Init, SentSoFar, RoutedIsPublished
  <1>4. WorkersKnow /\ WorkedIsDone
    BY DEF Init, WorkersKnow, WorkedIsDone
  <1>5. AcceptedCounted
    BY DEF Init, AcceptedCounted
  <1> QED
    BY <1>1, <1>2, <1>3, <1>4, <1>5 DEF IInv

LEMMA StepInv == IInv /\ [Next]_vars => IInv'
  <1> SUFFICES ASSUME IInv, [Next]_vars PROVE IInv'
    OBVIOUS
  <1> QED
    BY TypeStep, OffsetsStep, SentStep, RoutedStep, WorkersStep, WorkedStep, AcceptedStep DEF IInv

LEMMA Invariance == Spec => []IInv
  BY InitInv, StepInv, PTL DEF Spec

\* Every variable keeps its type.
THEOREM TypeCorrect == Spec => []TypeOK
  <1>1. IInv => TypeOK
    BY DEF IInv
  <1> QED
    BY <1>1, Invariance, PTL

\* A message whose offset the router has committed has each of its notifications in the
\* topic of its channel, whatever fails or restarts between the publications.
THEOREM RoutedArePublished == Spec => []RoutedIsPublished
  <1>1. IInv => RoutedIsPublished
    BY DEF IInv
  <1> QED
    BY <1>1, Invariance, PTL

\* A notification whose offset a worker has committed was accepted by a provider, or one
\* with its key was: a dead letter is not committed.
THEOREM WorkedAreDone == Spec => []WorkedIsDone
  <1>1. IInv => WorkedIsDone
    BY DEF IInv
  <1> QED
    BY <1>1, Invariance, PTL

\* A provider accepts a notification again only after a restart, which empties the
\* delivery log, or after it has reported a failure wrongly.
THEOREM DeliveriesOnlyWithCause == Spec => []DeliveriesHaveCause
  <1>1. IInv => DeliveriesHaveCause
    <2> SUFFICES ASSUME IInv, NEW k \in Keys
                 PROVE  accepted[k] <= 1 + restarts + misreported[k]
      BY DEF DeliveriesHaveCause
    <2>1. /\ accepted[k] \in Nat /\ misreported[k] \in Nat /\ restarts \in Nat
          /\ accepted[k] <= (IF k \in delivered THEN 1 ELSE 0) + restarts + misreported[k]
      BY DEF IInv, TypeOK, AcceptedCounted
    <2> QED
      BY <2>1
  <1> QED
    BY <1>1, Invariance, PTL

=============================================================================
