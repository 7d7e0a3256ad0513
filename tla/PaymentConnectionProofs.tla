---------------------- MODULE PaymentConnectionProofs ----------------------
(* Proofs about PaymentConnection, for all publishers and failures.        *)
EXTENDS PaymentConnection, TLAPS

-----------------------------------------------------------------------------
(* The inductive invariant.                                                *)

\* Of the calls that keep the consumer connected one waits, at w.
OnlyAt(w) == \A v \in Waits : calls[v] = IF v = w THEN 1 ELSE 0

\* None does.
NoCall == \A v \in Waits : calls[v] = 0

\* Where the call that uses the consumer waits determines the flags.
FlagsAgree ==
    \/ NoCall /\ ~isConnecting /\ ~isRunning
    \/ /\ OnlyAt("connect") \/ OnlyAt("subscribe") \/ (OnlyAt("cleanup") /\ connectFailed)
       /\ isConnecting /\ ~isRunning /\ ~reconnectTimer
    \/ OnlyAt("run") /\ ~isConnecting /\ (isRunning \/ isShuttingDown) /\ ~reconnectTimer
    \/ OnlyAt("stopped") /\ ~isConnecting /\ ~isRunning /\ ~reconnectTimer

\* The shutdown has set its flag before anything else; its one use of the consumer is
\* the disconnect, and it leaves no timer.
ShutdownFlag ==
    /\ shutdown # "no" => isShuttingDown
    /\ calls["shutdown"] = IF shutdown = "consumer" THEN 1 ELSE 0
    /\ isShuttingDown => ~reconnectTimer

\* While the flag says that a call connects the producer, one does.
SomeoneConnects == isProducerConnecting => \E p \in Producers : at[p] = "connect"

\* A call that comes from connectProducer finds the producer connected, or knows why not.
ChecksKnown ==
    \A p \in Producers :
        at[p] = "check" =>
            isProducerConnected \/ p \in refused \/ p \in overlapped \/ isShuttingDown

\* The call made at the start publishes nothing.
MainAt == at[Main] \in {"connect", "done"}

\* What is known of the producer.
ProducerInv == SomeoneConnects /\ ChecksKnown /\ MainAt /\ SkippedHasCause

IInv ==
    /\ TypeOK
    /\ FlagsAgree
    /\ OfflineHasCause
    /\ ShutdownFlag
    /\ ProducerInv

-----------------------------------------------------------------------------
(* The consumer.                                                           *)

\* A call that moves is the one that waits.
LEMMA MovesOnly ==
    ASSUME calls \in [Uses -> Nat], NEW from \in Waits, NEW to \in Waits, NEW w \in Waits,
           OnlyAt(w), Moves(from, to), from # to
    PROVE  w = from /\ OnlyAt(to)'
  <1>1. \A v \in Waits : calls[v] = IF v = w THEN 1 ELSE 0
    BY DEF OnlyAt
  <1>2. w = from
    BY <1>1 DEF Moves
  <1>3. \A v \in Waits :
            calls'[v] = IF v = from THEN calls[v] - 1 ELSE IF v = to THEN calls[v] + 1 ELSE calls[v]
    BY DEF Uses, Moves
  <1>4. \A v \in Waits : calls'[v] = IF v = to THEN 1 ELSE 0
    BY <1>1, <1>2, <1>3
  <1> QED
    BY <1>2, <1>4 DEF OnlyAt

\* When the call that waits returns, none is left.
LEMMA EndsOnly ==
    ASSUME calls \in [Uses -> Nat], NEW from \in Waits, NEW w \in Waits, OnlyAt(w), Ends(from)
    PROVE  w = from /\ NoCall'
  <1>1. \A v \in Waits : calls[v] = IF v = w THEN 1 ELSE 0
    BY DEF OnlyAt
  <1>2. w = from
    BY <1>1 DEF Ends
  <1>3. \A v \in Waits : calls'[v] = IF v = from THEN calls[v] - 1 ELSE calls[v]
    BY DEF Uses, Ends
  <1> QED
    BY <1>1, <1>2, <1>3 DEF NoCall

\* Without a call, none moves and none returns.
LEMMA NoneMoves ==
    ASSUME NoCall, NEW from \in Waits, NEW to \in Waits
    PROVE  ~Moves(from, to) /\ ~Ends(from)
BY DEF NoCall, Moves, Ends

\* A step of the producer or of the shutdown moves none of these calls.
LEMMA WhoMoves ==
    ASSUME calls \in [Uses -> Nat], Next, ~ConsumerStep
    PROVE  /\ UNCHANGED <<isConnecting, connectFailed>>
           /\ \A w \in Waits : calls'[w] = calls[w]
           /\ \/ UNCHANGED <<isRunning, reconnectTimer, isShuttingDown>>
              \/ ~isRunning' /\ ~reconnectTimer' /\ isShuttingDown'
  <1>1. ASSUME NEW p \in Producers, ProducerStep(p)
        PROVE  UNCHANGED <<isConnecting, calls, connectFailed, isRunning, reconnectTimer, isShuttingDown>>
    BY <1>1 DEF ProducerStep, Publish, ProducerConnected, Check, Sent, consumerVars
  <1>2. CASE Terminate
    <2>1. \A w \in Waits : calls'[w] = calls[w]
      BY <1>2 DEF Terminate, Uses, Waits
    <2> QED
      BY <1>2, <2>1 DEF Terminate
  <1>3. CASE DisconnectProducer
    <2>1. \A w \in Waits : calls'[w] = calls[w]
      BY <1>3 DEF DisconnectProducer, Ends, Uses, Waits
    <2> QED
      BY <1>3, <2>1 DEF DisconnectProducer
  <1>4. CASE Exit
    BY <1>4 DEF Exit, consumerVars
  <1> QED
    BY <1>1, <1>2, <1>3, <1>4 DEF Next

\* The flags keep to the place where the call waits.
LEMMA FlagsStep == TypeOK /\ FlagsAgree /\ [Next]_vars => FlagsAgree'
  <1> SUFFICES ASSUME TypeOK, FlagsAgree, [Next]_vars PROVE FlagsAgree'
    OBVIOUS
  <1> USE DEF Waits
  <1>0. calls \in [Uses -> Nat]
    BY DEF TypeOK
  <1>1. CASE Reconnect
    <2>1. reconnectTimer /\ NoCall /\ ~isConnecting /\ ~isRunning
      BY <1>1 DEF Reconnect, FlagsAgree
    <2>2. CASE isShuttingDown
      BY <1>1, <2>1, <2>2 DEF Reconnect, FlagsAgree, NoCall
    <2>3. CASE ~isShuttingDown
      <3>1. OnlyAt("connect")'
        BY <1>0, <1>1, <2>1, <2>3 DEF Reconnect, NoCall, OnlyAt, Uses
      <3> QED
        BY <1>1, <2>1, <2>3, <3>1 DEF Reconnect, FlagsAgree
    <2> QED
      BY <2>2, <2>3
  <1>2. CASE Connected
    <2>1. OnlyAt("connect") /\ OnlyAt("subscribe")'
      BY <1>2, <1>0, MovesOnly, NoneMoves DEF Connected, FlagsAgree
    <2> QED
      BY <1>2, <2>1, <1>0, MovesOnly, NoneMoves DEF Connected, FlagsAgree
  <1>3. CASE Subscribed
    <2>1. OnlyAt("subscribe") /\ OnlyAt("run")'
      BY <1>3, <1>0, MovesOnly, NoneMoves DEF Subscribed, FlagsAgree
    <2> QED
      BY <1>3, <2>1, <1>0, MovesOnly, NoneMoves DEF Subscribed, FlagsAgree
  <1>4. CASE ConnectFails
    <2>1. (OnlyAt("connect") \/ OnlyAt("subscribe")) /\ OnlyAt("cleanup")'
      BY <1>4, <1>0, MovesOnly, NoneMoves DEF ConnectFails, FlagsAgree
    <2> QED
      BY <1>4, <2>1, <1>0, MovesOnly, NoneMoves DEF ConnectFails, FlagsAgree
  <1>5. CASE CleanedUp
    <2>1. OnlyAt("cleanup") /\ NoCall' /\ ~isRunning
      BY <1>5, <1>0, EndsOnly, NoneMoves DEF CleanedUp, FlagsAgree
    <2> QED
      BY <1>5, <2>1 DEF CleanedUp, FlagsAgree
  <1>6. CASE LoopStops
    <2>1. OnlyAt("run") /\ OnlyAt("stopped")' /\ ~isConnecting /\ ~reconnectTimer
      BY <1>6, <1>0, MovesOnly, NoneMoves DEF LoopStops, FlagsAgree
    <2> QED
      BY <1>6, <2>1 DEF LoopStops, FlagsAgree, RunningAfterStop, TimerAtStop
  <1>7. CASE Stopped
    <2>1. OnlyAt("stopped") /\ NoCall' /\ ~isRunning /\ ~isConnecting
      BY <1>7, <1>0, EndsOnly, NoneMoves DEF Stopped, FlagsAgree
    <2> QED
      BY <1>7, <2>1 DEF Stopped, FlagsAgree
  <1>8. CASE Next /\ ~ConsumerStep
    BY <1>8, <1>0, WhoMoves DEF FlagsAgree, NoCall, OnlyAt
  <1>9. CASE UNCHANGED vars
    BY <1>9 DEF vars, FlagsAgree, NoCall, OnlyAt
  <1> QED
    BY <1>1, <1>2, <1>3, <1>4, <1>5, <1>6, <1>7, <1>8, <1>9 DEF ConsumerStep, Next

\* One call waits or none: one use of the consumer.
LEMMA FlagsUse == TypeOK /\ FlagsAgree /\ ShutdownFlag => OneUse
  <1> SUFFICES ASSUME TypeOK, FlagsAgree, ShutdownFlag PROVE OneUse
    OBVIOUS
  <1>1. NoCall \/ \E w \in Waits : OnlyAt(w) /\ ~reconnectTimer
    BY DEF FlagsAgree, Waits
  <1>2. /\ \A v, w \in Waits : calls[v] > 0 /\ calls[w] > 0 => v = w /\ calls[v] = 1
        /\ reconnectTimer => \A w \in Waits : calls[w] = 0
    BY <1>1 DEF NoCall, OnlyAt
  <1>3. reconnectTimer => ~isShuttingDown
    BY DEF ShutdownFlag
  <1>4. calls["shutdown"] > 0 => isShuttingDown /\ calls["shutdown"] = 1
    BY DEF ShutdownFlag
  <1> QED
    BY <1>2, <1>3, <1>4 DEF OneUse

\* Where no call waits and no timer is set, a connection failed or the service ends:
\* the timer is set when the loop stops, and only then.
LEMMA OfflineStep ==
    TypeOK /\ FlagsAgree /\ OfflineHasCause /\ [Next]_vars => OfflineHasCause'
  <1> SUFFICES ASSUME TypeOK, FlagsAgree, OfflineHasCause, [Next]_vars, FlagsAgree',
                      ~connectFailed', ~isShuttingDown', ~reconnectTimer'
               PROVE  ~NoCall'
    BY FlagsStep DEF OfflineHasCause, NoCall, FlagsAgree, OnlyAt, Waits
  <1>0. calls \in [Uses -> Nat]
    BY DEF TypeOK
  <1>1. CASE Reconnect
    BY <1>0, <1>1 DEF Reconnect, FlagsAgree, NoCall, OnlyAt, Waits, Uses
  <1>2. CASE Connected \/ Subscribed \/ ConnectFails \/ LoopStops
    <2>1. PICK from \in Waits, to \in Waits : Moves(from, to) /\ from # to
      BY <1>2 DEF Connected, Subscribed, ConnectFails, LoopStops, Waits
    <2>2. PICK w \in Waits : OnlyAt(w)
      BY <2>1, NoneMoves DEF FlagsAgree, Waits
    <2> QED
      BY <2>1, <2>2, <1>0, MovesOnly DEF OnlyAt, NoCall
  <1>3. CASE CleanedUp
    <2>1. OnlyAt("cleanup") /\ connectFailed
      BY <1>3, <1>0, EndsOnly, NoneMoves DEF CleanedUp, FlagsAgree, Waits
    <2> QED
      BY <1>3, <2>1 DEF CleanedUp
  <1>4. CASE Stopped
    <2>1. OnlyAt("stopped") /\ ~isConnecting /\ ~isRunning
      BY <1>4, <1>0, EndsOnly, NoneMoves DEF Stopped, FlagsAgree, Waits
    <2> QED
      BY <1>4, <2>1 DEF Stopped, ScheduleReconnect
  <1>5. CASE (Next /\ ~ConsumerStep) \/ UNCHANGED vars
    BY <1>5, <1>0, WhoMoves DEF vars, OfflineHasCause, NoCall, FlagsAgree, OnlyAt, Waits
  <1> QED
    BY <1>1, <1>2, <1>3, <1>4, <1>5 DEF ConsumerStep, Next

-----------------------------------------------------------------------------
(* The producer and the shutdown.                                          *)

\* The flag of the shutdown is set before anything else, and never reset; no timer is
\* set from then on.
LEMMA ShutdownStep ==
    TypeOK /\ ShutdownFlag /\ [Next]_vars => ShutdownFlag' /\ (isShuttingDown => isShuttingDown')
  <1> SUFFICES ASSUME TypeOK, ShutdownFlag, [Next]_vars
               PROVE  ShutdownFlag' /\ (isShuttingDown => isShuttingDown')
    OBVIOUS
  <1>0. calls \in [Uses -> Nat]
    BY DEF TypeOK
  <1>1. CASE ConsumerStep
    <2>1. UNCHANGED <<isShuttingDown, shutdown>>
      BY <1>1 DEF ConsumerStep, Reconnect, Connected, Subscribed, ConnectFails, CleanedUp,
                  LoopStops, Stopped
    <2>2. calls'["shutdown"] = calls["shutdown"]
      BY <1>0, <1>1 DEF ConsumerStep, Reconnect, Connected, Subscribed, ConnectFails, CleanedUp,
                        LoopStops, Stopped, Moves, Ends, Uses, Waits
    <2>3. isShuttingDown /\ ~reconnectTimer => ~reconnectTimer'
      BY <1>1 DEF ConsumerStep, Reconnect, Connected, Subscribed, ConnectFails, CleanedUp,
                  LoopStops, Stopped, ScheduleReconnect, TimerAtStop
    <2> QED
      BY <2>1, <2>2, <2>3 DEF ShutdownFlag
  <1>2. ASSUME NEW p \in Producers, ProducerStep(p)
        PROVE  UNCHANGED <<isShuttingDown, shutdown, calls, reconnectTimer>>
    BY <1>2 DEF ProducerStep, Publish, ProducerConnected, Check, Sent, consumerVars
  <1>3. CASE Terminate
    <2>1. calls'["shutdown"] = 1
      BY <1>0, <1>3 DEF Terminate, ShutdownFlag, Uses
    <2> QED
      BY <1>3, <2>1 DEF Terminate, ShutdownFlag
  <1>4. CASE DisconnectProducer
    <2>1. calls'["shutdown"] = 0
      BY <1>0, <1>4 DEF DisconnectProducer, Ends, ShutdownFlag, Uses
    <2> QED
      BY <1>4, <2>1 DEF DisconnectProducer, ShutdownFlag
  <1>5. CASE Exit \/ UNCHANGED vars
    BY <1>5 DEF Exit, vars, consumerVars, ShutdownFlag
  <1> QED
    BY <1>1, <1>2, <1>3, <1>4, <1>5 DEF Next, ShutdownFlag

\* A step of the consumer or of the shutdown leaves the producer alone, but for the
\* disconnection.
LEMMA WhoProduces ==
    ASSUME [Next]_vars, ShutdownFlag,
           ~\E p \in Producers : ProducerStep(p)
    PROVE  /\ UNCHANGED <<isProducerConnecting, at, refused, overlapped, skipped>>
           /\ UNCHANGED isProducerConnected \/ isShuttingDown
  <1>1. CASE ConsumerStep
    BY <1>1 DEF ConsumerStep, Reconnect, Connected, Subscribed, ConnectFails, CleanedUp,
                LoopStops, Stopped, producerVars
  <1>2. CASE Terminate \/ DisconnectProducer \/ Exit \/ UNCHANGED vars
    BY <1>2 DEF Terminate, DisconnectProducer, Exit, vars, producerVars, ShutdownFlag
  <1> QED
    BY <1>1, <1>2 DEF Next

\* What is known of the producer and of the events that are not published.
LEMMA ProducerInvStep ==
    TypeOK /\ ShutdownFlag /\ ProducerInv /\ [Next]_vars => ProducerInv'
  <1> SUFFICES ASSUME TypeOK, ShutdownFlag, ProducerInv, [Next]_vars PROVE ProducerInv'
    OBVIOUS
  <1>0. /\ at \in [Producers -> {"idle", "connect", "check", "send", "done"}]
        /\ Main \notin Publishers /\ Main \in Producers
        /\ isShuttingDown => isShuttingDown'
    BY ConstantsAssumption, ShutdownStep DEF TypeOK, Producers
  <1>1. ASSUME NEW p \in Producers, Publish(p) PROVE ProducerInv'
    <2>1. p \in Publishers /\ at[p] = "idle" /\ UNCHANGED <<isShuttingDown, isProducerConnected, refused, skipped>>
      BY <1>1 DEF Publish
    <2>2. /\ \A q \in Producers : q # p => at'[q] = at[q]
          /\ overlapped \subseteq overlapped'
      BY <1>0, <1>1 DEF Publish, Goes
    <2>3. SomeoneConnects'
      <3>1. at'[p] = "connect" \/ UNCHANGED isProducerConnecting
        BY <1>0, <1>1 DEF Publish, Goes
      <3> QED
        BY <2>1, <2>2, <3>1 DEF SomeoneConnects, ProducerInv
    <2>4. at'[p] = "check" => p \in overlapped'
      <3>1. isProducerConnecting => \E q \in Producers : at[q] = "connect"
        BY DEF ProducerInv, SomeoneConnects
      <3> QED
        BY <1>0, <1>1, <3>1 DEF Publish, Goes
    <2> QED
      BY <1>0, <2>1, <2>2, <2>3, <2>4 DEF ProducerInv, ChecksKnown, MainAt, SkippedHasCause
  <1>2. ASSUME NEW p \in Producers, ProducerConnected(p) PROVE ProducerInv'
    <2>1. isProducerConnecting' = FALSE /\ UNCHANGED <<overlapped, skipped, isShuttingDown>>
      BY <1>2 DEF ProducerConnected, ConnectingAfter
    <2>2. /\ \A q \in Producers : q # p => at'[q] = at[q]
          /\ at'[p] = IF p = Main THEN "done" ELSE "check"
          /\ refused \subseteq refused'
          /\ isProducerConnected => isProducerConnected'
          /\ isProducerConnected' \/ p \in refused'
      BY <1>0, <1>2 DEF ProducerConnected, Goes
    <2> QED
      BY <1>0, <2>1, <2>2 DEF ProducerInv, ChecksKnown, MainAt, SkippedHasCause, SomeoneConnects
  <1>3. ASSUME NEW p \in Producers, Check(p) PROVE ProducerInv'
    <2>1. /\ UNCHANGED <<isProducerConnecting, isProducerConnected, refused, overlapped, isShuttingDown>>
          /\ at[p] = "check"
          /\ skipped' = skipped \/ (~isProducerConnected /\ skipped' = skipped \union {p})
      BY <1>3 DEF Check
    <2>2. /\ \A q \in Producers : q # p => at'[q] = at[q]
          /\ at'[p] \in {"send", "done"}
      BY <1>0, <1>3 DEF Check, Goes
    <2> QED
      BY <1>0, <2>1, <2>2 DEF ProducerInv, ChecksKnown, MainAt, SkippedHasCause, SomeoneConnects
  <1>4. ASSUME NEW p \in Producers, Sent(p) PROVE ProducerInv'
    <2>1. /\ UNCHANGED <<isProducerConnecting, isProducerConnected, refused, overlapped, skipped, isShuttingDown>>
          /\ at[p] = "send"
      BY <1>4 DEF Sent
    <2>2. /\ \A q \in Producers : q # p => at'[q] = at[q]
          /\ at'[p] = "done"
      BY <1>0, <1>4 DEF Sent, Goes
    <2> QED
      BY <1>0, <2>1, <2>2 DEF ProducerInv, ChecksKnown, MainAt, SkippedHasCause, SomeoneConnects
  <1>5. CASE ~\E p \in Producers : ProducerStep(p)
    <2>1. /\ UNCHANGED <<isProducerConnecting, at, refused, overlapped, skipped>>
          /\ isProducerConnected => isProducerConnected' \/ isShuttingDown'
      <3>1. /\ UNCHANGED <<isProducerConnecting, at, refused, overlapped, skipped>>
            /\ UNCHANGED isProducerConnected \/ isShuttingDown
        BY <1>5, WhoProduces
      <3> QED
        BY <1>0, <3>1
    <2>2. SomeoneConnects' /\ MainAt' /\ SkippedHasCause'
      BY <1>0, <2>1 DEF ProducerInv, MainAt, SkippedHasCause, SomeoneConnects
    <2>3. ASSUME NEW p \in Producers, at'[p] = "check"
          PROVE  isProducerConnected' \/ p \in refused' \/ p \in overlapped' \/ isShuttingDown'
      BY <1>0, <2>1, <2>3 DEF ProducerInv, ChecksKnown
    <2> QED
      BY <2>2, <2>3 DEF ProducerInv, ChecksKnown
  <1> QED
    BY <1>1, <1>2, <1>3, <1>4, <1>5 DEF ProducerStep

-----------------------------------------------------------------------------
(* Types and the inductive invariant.                                      *)

\* A call that moves or returns leaves the counts natural numbers.
LEMMA CountsType ==
    ASSUME calls \in [Uses -> Nat], NEW from \in Uses, NEW to \in Uses,
           Moves(from, to) \/ Ends(from)
    PROVE  calls' \in [Uses -> Nat]
  <1>1. CASE Moves(from, to)
    BY <1>1 DEF Moves
  <1>2. CASE Ends(from)
    BY <1>2 DEF Ends
  <1> QED
    BY <1>1, <1>2

\* Every variable keeps its type.
LEMMA TypeStep == TypeOK /\ MainAt /\ [Next]_vars => TypeOK'
  <1> SUFFICES ASSUME TypeOK, MainAt, [Next]_vars PROVE TypeOK'
    OBVIOUS
  <1>0. Main \in Producers /\ Producers = Publishers \union {Main}
    BY DEF Producers
  <1>1. CASE Reconnect
    <2>1. calls' \in [Uses -> Nat]
      BY <1>1 DEF Reconnect, TypeOK, Uses, Waits
    <2> QED
      BY <1>1, <2>1 DEF Reconnect, TypeOK, producerVars
  <1>2. CASE Connected \/ Subscribed \/ ConnectFails \/ CleanedUp \/ LoopStops \/ Stopped
    <2>1. calls' \in [Uses -> Nat]
      BY <1>2, CountsType
      DEF Connected, Subscribed, ConnectFails, CleanedUp, LoopStops, Stopped, Uses, Waits, TypeOK
    <2>2. failures' \in Nat
      BY <1>2 DEF Connected, Subscribed, ConnectFails, CleanedUp, LoopStops, Stopped, Fails, TypeOK
    <2>3. /\ isConnecting' \in BOOLEAN
          /\ isRunning' \in BOOLEAN
          /\ reconnectTimer' \in BOOLEAN
          /\ connectFailed' \in BOOLEAN
      BY <1>2 DEF Connected, Subscribed, ConnectFails, CleanedUp, LoopStops, Stopped,
                  ScheduleReconnect, RunningAfterStop, TimerAtStop, TypeOK
    <2>4. UNCHANGED <<isShuttingDown, shutdown, producerVars>>
      BY <1>2 DEF Connected, Subscribed, ConnectFails, CleanedUp, LoopStops, Stopped
    <2> QED
      BY <2>1, <2>2, <2>3, <2>4 DEF TypeOK, producerVars
  <1>3. ASSUME NEW p \in Producers, ProducerStep(p) PROVE TypeOK'
    <2>1. UNCHANGED <<isShuttingDown, shutdown, consumerVars>>
      BY <1>3 DEF ProducerStep, Publish, ProducerConnected, Check, Sent
    <2>2. at' \in [Producers -> {"idle", "connect", "check", "send", "done"}]
      BY <1>3 DEF ProducerStep, Publish, ProducerConnected, Check, Sent, Goes, TypeOK
    <2>3. isProducerConnecting' \in BOOLEAN /\ isProducerConnected' \in BOOLEAN
      BY <1>3 DEF ProducerStep, Publish, ProducerConnected, Check, Sent, ConnectingAfter, TypeOK
    <2>4. failures' \in Nat /\ refused' \subseteq Producers
      BY <1>3 DEF ProducerStep, Publish, ProducerConnected, Check, Sent, Fails, TypeOK
    <2>5. overlapped' \subseteq Publishers
      BY <1>3 DEF ProducerStep, Publish, ProducerConnected, Check, Sent, TypeOK
    <2>6. skipped' \subseteq Publishers
      <3>1. at[p] = "check" => p \in Publishers
        BY <1>0 DEF MainAt
      <3> QED
        BY <1>3, <3>1 DEF ProducerStep, Publish, ProducerConnected, Check, Sent, TypeOK
    <2> QED
      BY <2>1, <2>2, <2>3, <2>4, <2>5, <2>6 DEF TypeOK, consumerVars
  <1>4. CASE Terminate \/ DisconnectProducer \/ Exit
    <2>1. calls' \in [Uses -> Nat]
      BY <1>4, CountsType DEF Terminate, DisconnectProducer, Exit, Uses, TypeOK, consumerVars
    <2> QED
      BY <1>4, <2>1 DEF Terminate, DisconnectProducer, Exit, TypeOK, consumerVars, producerVars
  <1>5. CASE UNCHANGED vars
    BY <1>5 DEF TypeOK, vars
  <1> QED
    BY <1>1, <1>2, <1>3, <1>4, <1>5 DEF Next, ConsumerStep

LEMMA Invariance == Spec => []IInv
  <1>1. Init => IInv
    <2> SUFFICES ASSUME Init PROVE IInv
      OBVIOUS
    <2>1. Main \in Producers /\ at[Main] = "connect" /\ \A p \in Publishers : at[p] = "idle"
      BY ConstantsAssumption DEF Init, Producers
    <2>2. TypeOK
      BY DEF Init, TypeOK, Uses
    <2>3. FlagsAgree /\ OfflineHasCause
      BY DEF Init, FlagsAgree, OnlyAt, OfflineHasCause, Waits, Uses
    <2>4. ShutdownFlag /\ SomeoneConnects /\ MainAt /\ SkippedHasCause
      BY <2>1 DEF Init, ShutdownFlag, SomeoneConnects, MainAt, SkippedHasCause, Uses
    <2>5. ChecksKnown
      BY <2>1 DEF ChecksKnown, Producers
    <2> QED
      BY <2>2, <2>3, <2>4, <2>5 DEF IInv, ProducerInv
  <1>2. IInv /\ [Next]_vars => IInv'
    BY TypeStep, FlagsStep, OfflineStep, ShutdownStep, ProducerInvStep DEF IInv, ProducerInv
  <1> QED
    BY <1>1, <1>2, PTL DEF Spec

-----------------------------------------------------------------------------
\* Every variable keeps its type: whoever skips an event is a call that publishes.
THEOREM TypeCorrect == Spec => []TypeOK
BY Invariance, PTL DEF IInv

\* connectConsumer, its retries and startMessageLoop use the one consumer object one at
\* a time: each waits for the disconnection of the use before it.  Only the disconnect
\* of the shutdown is a use beside another one, and after it has begun no timer is set.
THEOREM UsesConsumerOnce == Spec => []OneUse
  <1>1. IInv => OneUse
    BY FlagsUse DEF IInv
  <1> QED
    BY <1>1, Invariance, PTL

\* The consumer is left alone, with no timer set, only when a connection of it has
\* failed or the service shuts down: a message loop that stops sets the timer.
THEOREM OfflineOnlyWithCause == Spec => []OfflineHasCause
BY Invariance, PTL DEF IInv

\* publishPaymentEvent drops an event only when connectProducer failed for it, another
\* call was about to connect the producer, or the service shuts down.
THEOREM SkippedOnlyWithCause == Spec => []SkippedHasCause
BY Invariance, PTL DEF IInv, ProducerInv

=============================================================================
