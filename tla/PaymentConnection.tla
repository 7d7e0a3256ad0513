-------------------------- MODULE PaymentConnection --------------------------
(***************************************************************************)
(* The connections of the payment service to Kafka (config/kafka.js): the  *)
(* consumer of the topic bookings, which is connected again when its loop  *)
(* stops, the producer, which is connected when an event is published, and  *)
(* the shutdown (index.js).                                                *)
(*                                                                         *)
(* An asynchronous function runs to its next await at once; what waits     *)
(* there is a call.  An action ends the wait of one call.                  *)
(***************************************************************************)
EXTENDS Integers, FiniteSets

CONSTANTS
    Publishers,     \* the calls of publishPaymentEvent
    Main,           \* the call of connectProducer when the service starts
    MaxFailures     \* bound: connections and message loops that fail

ASSUME ConstantsAssumption ==
    /\ Main \notin Publishers
    /\ IsFiniteSet(Publishers)
    /\ MaxFailures \in Nat

\* Where a call that keeps the consumer connected waits: in connectConsumer for
\* connect, subscribe or, after a failure, disconnect; in startMessageLoop for run or,
\* after it, disconnect.
Waits == {"connect", "subscribe", "cleanup", "run", "stopped"}

\* Where a use of the consumer waits: these, and the disconnect of the shutdown.
Uses == Waits \union {"shutdown"}

Producers == Publishers \union {Main}

VARIABLES
    isConnecting, isRunning, isShuttingDown, isProducerConnecting, isProducerConnected,
    reconnectTimer,     \* whether it is set
    calls,              \* how many uses of the consumer wait at each place
    at,                 \* where each use of the producer is
    shutdown,           \* where the handler of SIGTERM is
    failures,           \* how often a connection or the loop failed
    connectFailed,      \* history: a connection of the consumer failed
    refused,            \* history: the uses whose connection of the producer failed
    overlapped,         \* history: the events published while another call connected
    skipped             \* history: the events not published for want of a connection

consumerVars == <<isConnecting, isRunning, reconnectTimer, calls, connectFailed>>
producerVars == <<isProducerConnecting, isProducerConnected, at, refused, overlapped, skipped>>
vars == <<isConnecting, isRunning, isShuttingDown, isProducerConnecting, isProducerConnected,
          reconnectTimer, calls, at, shutdown, failures, connectFailed, refused,
          overlapped, skipped>>

TypeOK ==
    /\ isConnecting \in BOOLEAN
    /\ isRunning \in BOOLEAN
    /\ isShuttingDown \in BOOLEAN
    /\ isProducerConnecting \in BOOLEAN
    /\ isProducerConnected \in BOOLEAN
    /\ reconnectTimer \in BOOLEAN
    /\ calls \in [Uses -> Nat]
    /\ at \in [Producers -> {"idle", "connect", "check", "send", "done"}]
    /\ shutdown \in {"no", "consumer", "producer", "exit"}
    /\ failures \in Nat
    /\ connectFailed \in BOOLEAN
    /\ refused \subseteq Producers
    /\ overlapped \subseteq Publishers
    /\ skipped \subseteq Publishers

\* start() has called connectConsumer and connectProducer, which wait.
Init ==
    /\ isConnecting = TRUE
    /\ isRunning = FALSE
    /\ isShuttingDown = FALSE
    /\ isProducerConnecting = TRUE
    /\ isProducerConnected = FALSE
    /\ reconnectTimer = FALSE
    /\ calls = [w \in Uses |-> IF w = "connect" THEN 1 ELSE 0]
    /\ at = [p \in Producers |-> IF p = Main THEN "connect" ELSE "idle"]
    /\ shutdown = "no"
    /\ failures = 0
    /\ connectFailed = FALSE
    /\ refused = {}
    /\ overlapped = {}
    /\ skipped = {}

Alive == shutdown # "exit"

Fails ==
    /\ failures < MaxFailures
    /\ failures' = failures + 1

\* A call that waited at one place now waits at another.
Moves(from, to) ==
    /\ calls[from] > 0
    /\ calls' = [calls EXCEPT ![from] = @ - 1, ![to] = @ + 1]

\* Mutant: a catch block goes on although nothing was thrown.
EndsAlways(from) == calls' = [calls EXCEPT ![from] = @ - 1]

\* A call that waited returns.
Ends(from) ==
    /\ calls[from] > 0
    /\ calls' = [calls EXCEPT ![from] = @ - 1]

-----------------------------------------------------------------------------
(* The consumer.                                                           *)

\* Mutant: the check of isConnecting is inverted.
ScheduleWhenConnecting(connecting, running) ==
    reconnectTimer' = (reconnectTimer \/ (connecting /\ ~(isShuttingDown \/ running)))

\* scheduleReconnect, when these are the flags: a timer, unless there is no need.
ScheduleReconnect(connecting, running) ==
    reconnectTimer' = (reconnectTimer \/ ~(isShuttingDown \/ connecting \/ running))

\* The timer fires and calls connectConsumer, whose checks were those of
\* scheduleReconnect.
Reconnect ==
    /\ reconnectTimer
    /\ reconnectTimer' = FALSE
    /\ IF isShuttingDown \/ isConnecting \/ isRunning
       THEN UNCHANGED <<isConnecting, calls>>
       ELSE /\ isConnecting' = TRUE
            /\ calls' = [calls EXCEPT !["connect"] = @ + 1]
    /\ UNCHANGED <<isRunning, connectFailed, isShuttingDown, shutdown, failures, producerVars>>

Connected ==
    /\ Moves("connect", "subscribe")
    /\ UNCHANGED <<isConnecting, isRunning, reconnectTimer, connectFailed, isShuttingDown, shutdown,
                   failures, producerVars>>

\* subscribe returns: startMessageLoop is called, and the finally block runs.
Subscribed ==
    /\ Moves("subscribe", "run")
    /\ isRunning' = TRUE
    /\ isConnecting' = FALSE
    /\ UNCHANGED <<reconnectTimer, connectFailed, isShuttingDown, shutdown, failures, producerVars>>

\* connect or subscribe throws.
ConnectFails ==
    /\ Moves("connect", "cleanup") \/ Moves("subscribe", "cleanup")
    /\ Fails
    /\ connectFailed' = TRUE
    /\ UNCHANGED <<isConnecting, isRunning, reconnectTimer, isShuttingDown, shutdown, producerVars>>

\* The catch block goes on: scheduleReconnect is called before the finally block
\* resets isConnecting.
CleanedUp ==
    /\ Ends("cleanup")
    /\ ScheduleReconnect(isConnecting, isRunning)
    /\ isConnecting' = FALSE
    /\ UNCHANGED <<isRunning, connectFailed, isShuttingDown, shutdown, failures, producerVars>>

\* Mutant: isRunning is not reset when the loop stops.
StillRunning == isRunning

\* Mutant: the timer is set before the old connection is cleaned up.
SetAtOnce == reconnectTimer \/ ~isShuttingDown

\* The catch block of startMessageLoop, up to its await ...
RunningAfterStop == FALSE

\* ... and after it.
TimerAtStop == reconnectTimer

\* consumer.run throws.
LoopStops ==
    /\ Moves("run", "stopped")
    /\ Fails
    /\ isRunning' = RunningAfterStop
    /\ reconnectTimer' = TimerAtStop
    /\ UNCHANGED <<isConnecting, connectFailed, isShuttingDown, shutdown, producerVars>>

\* disconnect returns or throws.
Stopped ==
    /\ Ends("stopped")
    /\ ScheduleReconnect(isConnecting, isRunning)
    /\ UNCHANGED <<isConnecting, isRunning, connectFailed, isShuttingDown, shutdown, failures, producerVars>>

-----------------------------------------------------------------------------
(* The producer.                                                           *)

Goes(p, step) == at' = [at EXCEPT ![p] = step]

\* publishPaymentEvent.  connectProducer returns at once if another call connects.
Publish(p) ==
    /\ p \in Publishers
    /\ at[p] = "idle"
    /\ \/ /\ isShuttingDown
          /\ Goes(p, "done")
          /\ UNCHANGED <<isProducerConnecting, overlapped>>
       \/ /\ ~isShuttingDown
          /\ isProducerConnected
          /\ Goes(p, "send")
          /\ UNCHANGED <<isProducerConnecting, overlapped>>
       \/ /\ ~isShuttingDown
          /\ ~isProducerConnected
          /\ IF isProducerConnecting
             THEN /\ Goes(p, "check")
                  /\ overlapped' = IF \E q \in Producers : at[q] = "connect"
                                   THEN overlapped \union {p} ELSE overlapped
                  /\ UNCHANGED isProducerConnecting
             ELSE /\ Goes(p, "connect")
                  /\ isProducerConnecting' = TRUE
                  /\ UNCHANGED overlapped
    /\ UNCHANGED <<isProducerConnected, refused, skipped, isShuttingDown, shutdown, failures,
                   consumerVars>>

\* Mutant: isProducerConnecting is left set.
StillConnecting == TRUE

\* The finally block of connectProducer.
ConnectingAfter == FALSE

\* producer.connect returns or throws.
ProducerConnected(p) ==
    /\ at[p] = "connect"
    /\ isProducerConnecting' = ConnectingAfter
    /\ \/ isProducerConnected' = TRUE /\ UNCHANGED <<refused, failures>>
       \/ Fails /\ refused' = refused \union {p} /\ UNCHANGED isProducerConnected
    /\ Goes(p, IF p = Main THEN "done" ELSE "check")
    /\ UNCHANGED <<overlapped, skipped, isShuttingDown, shutdown, consumerVars>>

\* The second check of publishPaymentEvent.
Check(p) ==
    /\ at[p] = "check"
    /\ IF isProducerConnected THEN Goes(p, "send") /\ UNCHANGED skipped
                              ELSE Goes(p, "done") /\ skipped' = skipped \union {p}
    /\ UNCHANGED <<isProducerConnecting, isProducerConnected, refused, overlapped,
                   isShuttingDown, shutdown, failures, consumerVars>>

\* producer.send returns or throws; either is logged.
Sent(p) ==
    /\ at[p] = "send"
    /\ Goes(p, "done")
    /\ UNCHANGED <<isProducerConnecting, isProducerConnected, refused, overlapped, skipped,
                   isShuttingDown, shutdown, failures, consumerVars>>

-----------------------------------------------------------------------------
(* The shutdown.                                                           *)

\* SIGTERM or SIGINT: disconnectConsumer, up to its await.  It uses the consumer, and
\* waits for no other use to end.
Terminate ==
    /\ shutdown = "no"
    /\ shutdown' = "consumer"
    /\ isShuttingDown' = TRUE
    /\ isRunning' = FALSE
    /\ reconnectTimer' = FALSE
    /\ calls' = [calls EXCEPT !["shutdown"] = @ + 1]
    /\ UNCHANGED <<isConnecting, connectFailed, failures, producerVars>>

\* consumer.disconnect returns or throws; disconnectProducer, up to its await.
DisconnectProducer ==
    /\ shutdown = "consumer"
    /\ shutdown' = "producer"
    /\ Ends("shutdown")
    /\ isProducerConnected' = FALSE
    /\ UNCHANGED <<isProducerConnecting, at, refused, overlapped, skipped, isShuttingDown,
                   failures, isConnecting, isRunning, reconnectTimer, connectFailed>>

\* disconnectLockStore and process.exit.
Exit ==
    /\ shutdown = "producer"
    /\ shutdown' = "exit"
    /\ UNCHANGED <<isShuttingDown, failures, consumerVars, producerVars>>

-----------------------------------------------------------------------------
ConsumerStep ==
    \/ Reconnect \/ Connected \/ Subscribed \/ ConnectFails \/ CleanedUp
    \/ LoopStops \/ Stopped

ProducerStep(p) == Publish(p) \/ ProducerConnected(p) \/ Check(p) \/ Sent(p)

Next ==
    /\ Alive
    /\ \/ ConsumerStep
       \/ \E p \in Producers : ProducerStep(p)
       \/ Terminate \/ DisconnectProducer \/ Exit

Spec == Init /\ [][Next]_vars

\* Timers fire and calls to Kafka return.
FairSpec ==
    /\ Spec
    /\ WF_vars(Alive /\ (Reconnect \/ Connected \/ Subscribed \/ CleanedUp \/ Stopped))
    /\ WF_vars(Alive /\ (DisconnectProducer \/ Exit))
    /\ \A p \in Producers : WF_vars(Alive /\ (ProducerConnected(p) \/ Check(p) \/ Sent(p)))

-----------------------------------------------------------------------------
\* connectConsumer, its retries and startMessageLoop use the one consumer object one
\* at a time: it is not connected while an earlier use still runs or is cleaned up, and
\* no timer is set to do so.  Until a shutdown begins there is no other use; from then
\* on there is one, its disconnect, and no timer is set that would begin a new one.
OneUse ==
    /\ \A v, w \in Waits : calls[v] > 0 /\ calls[w] > 0 => v = w /\ calls[v] = 1
    /\ reconnectTimer => ~isShuttingDown /\ \A w \in Waits : calls[w] = 0
    /\ calls["shutdown"] > 0 => isShuttingDown /\ calls["shutdown"] = 1

\* The shutdown disconnects a consumer that no other call uses.  It does not hold: it
\* does not wait for one that connects, subscribes, runs or is cleaned up
\* (MCPaymentConnectionShutdown.cfg).
ShutdownAlone == calls["shutdown"] > 0 => \A w \in Waits : calls[w] = 0

\* The consumer is left alone, neither running nor about to be connected again, only
\* when a connection has failed (whose failure is not tried again) or at the end.
OfflineHasCause ==
    (\A w \in Waits : calls[w] = 0) /\ ~reconnectTimer => connectFailed \/ isShuttingDown

\* An event of a payment is skipped only when its own connection of the producer
\* failed, another call was about to connect it, or the service shuts down.
SkippedHasCause ==
    \A p \in skipped : p \in refused \/ p \in overlapped \/ isShuttingDown

\* A message loop that stops is started again, but for a connection that fails or the
\* end of the service.
LoopComesBack == calls["stopped"] > 0 ~> calls["run"] > 0 \/ connectFailed \/ isShuttingDown

=============================================================================
