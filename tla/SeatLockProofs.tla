--------------------------- MODULE SeatLockProofs ---------------------------
(* Theorems about SeatLock for every set of calls, instances and clients,  *)
(* and whatever the environment may do.                                    *)
EXTENDS SeatLock, TLAPS

(* The locks, keys and calls of the constants are of their types.          *)
LEMMA KeysType ==
    /\ \A c \in Calls : LockOf(c) \in LockState
    /\ \A l \in LockState : SeatKey(l) \in SeatKeys /\ IdemKey(l) \in IdemKeys /\ l # NoLock
    /\ AnyCall \in Calls
  <1>1. \A c \in Calls : LockOf(c) \in LockState
    BY ConstantsAssumption DEF LockOf, LockState
  <1>2. \A l \in LockState : SeatKey(l) \in SeatKeys /\ IdemKey(l) \in IdemKeys /\ l # NoLock
    BY NoLockAssumption DEF LockState, SeatKey, IdemKey, SeatKeys, IdemKeys
  <1>3. AnyCall \in Calls
    BY ConstantsAssumption DEF AnyCall
  <1> QED
    BY <1>1, <1>2, <1>3

(* Every step keeps the variables in their types.                          *)
LEMMA TypeStep == TypeOK /\ [Next]_vars => TypeOK'
  <1> SUFFICES ASSUME TypeOK, [Next]_vars PROVE TypeOK'
    OBVIOUS
  <1> USE DEF TypeOK, redisVars, requestVars, consumerVars, tableVars
  <1>1. ASSUME NEW c \in Calls, Publish(c) PROVE TypeOK'
    BY <1>1 DEF Publish, HandlerGoes, HandlerSteps
  <1>2. ASSUME NEW c \in Calls, HandlerStep(c) PROVE TypeOK'
    <2>1. CASE Poll(c)
      BY <2>1, KeysType, ConstantsAssumption DEF Poll, HandlerGoes, HandlerSteps, Answer
    <2>2. CASE GiveUp(c)
      BY <2>2 DEF GiveUp, HandlerGoes, HandlerSteps
    <2>3. CASE Insert(c)
      BY <2>3 DEF Insert, HandlerGoes, HandlerSteps
    <2>4. CASE InsertFails(c)
      BY <2>4 DEF InsertFails, HandlerGoes, HandlerSteps
    <2>5. CASE Release(c)
      BY <2>5, KeysType DEF Release, HandlerGoes, HandlerSteps, Drop
    <2> QED
      BY <1>2, <2>1, <2>2, <2>3, <2>4, <2>5 DEF HandlerStep
  <1>3. ASSUME NEW c \in Calls, OpenCheckout(c) \/ CompletePayment(c) PROVE TypeOK'
    BY <1>3, KeysType DEF OpenCheckout, CompletePayment, Drop
  <1>4. ASSUME NEW i \in Instances, ConsumerStep(i) PROVE TypeOK'
    <2> Requested(i) \in LockState /\ SeatKey(Requested(i)) \in SeatKeys /\ IdemKey(Requested(i)) \in IdemKeys
      BY KeysType DEF Requested
    <2> USE DEF ConsumerGoes, ConsumerSteps, Decides, Verdicts
    <2>1. CASE Receive(i)
      BY <2>1 DEF Receive
    <2>2. CASE CheckIdem(i)
      BY <2>2, KeysType DEF CheckIdem
    <2>3. CASE CheckPrior(i)
      BY <2>3 DEF CheckPrior
    <2>4. CASE CheckSeat(i)
      BY <2>4 DEF CheckSeat
    <2>5. CASE Acquire(i)
      <3>1. lock' \in [SeatKeys -> LockState \union {NoLock}] /\ granted' \subseteq LockState
        BY <2>5 DEF Acquire, SetIfFree
      <3>2. step' \in [Instances -> ConsumerSteps] /\ verdict' \in [Instances -> Verdicts]
        BY <2>5 DEF Acquire
      <3> QED
        BY <2>5, <3>1, <3>2 DEF Acquire
    <2>6. CASE Remember(i)
      BY <2>6, KeysType DEF Remember
    <2>7. CASE Reply(i)
      BY <2>7, KeysType DEF Reply, Returns
    <2> QED
      BY <1>4, <2>1, <2>2, <2>3, <2>4, <2>5, <2>6, <2>7 DEF ConsumerStep
  <1>5. ASSUME NEW i \in Instances, Crash(i) PROVE TypeOK'
    BY <1>5, KeysType DEF Crash, Returns, ConsumerGoes, ConsumerSteps, HandlerSteps, Verdicts
  <1>6. ASSUME NEW k \in SeatKeys, ExpireLock(k) PROVE TypeOK'
    BY <1>6 DEF ExpireLock, Drop
  <1>7. ASSUME NEW k \in IdemKeys, ExpireIdem(k) PROVE TypeOK'
    BY <1>7 DEF ExpireIdem
  <1>8. CASE UNCHANGED vars
    BY <1>8 DEF vars
  <1> QED
    BY <1>1, <1>2, <1>3, <1>4, <1>5, <1>6, <1>7, <1>8 DEF Next

(* Type correctness.                                                       *)
THEOREM TypeCorrect == Spec => []TypeOK
  <1>1. Init => TypeOK
    BY KeysType DEF Init, TypeOK, HandlerSteps, ConsumerSteps, Verdicts
  <1> QED
    BY <1>1, TypeStep, PTL DEF Spec
-----------------------------------------------------------------------------
(* The inductive invariant: whatever says "ok" about an idempotency key,   *)
(* at any stage between Redis and the handler, rests on a lock acquired    *)
(* under that key; and a seat key still holds every lock it was ever given *)
(* unless one was removed from it.                                         *)

Backed(k) == \E g \in granted : IdemKey(g) = k

RedisInv ==
    /\ \A k \in SeatKeys : lock[k] # NoLock => lock[k] \in granted /\ SeatKey(lock[k]) = k
    /\ \A k \in IdemKeys : idem[k] # NoLock => idem[k] \in granted /\ IdemKey(idem[k]) = k
    /\ \A g \in granted : \E c \in Calls : g = LockOf(c)

ConsumerInv ==
    \A i \in Instances :
        /\ step[i] = "prior" =>
              /\ prior[i] \in granted
              /\ IdemKey(prior[i]) = IdemKey(Requested(i))
        /\ step[i] = "remember" => Requested(i) \in granted
        /\ step[i] = "reply" /\ verdict[i] = "ok" => Backed(IdemKey(Requested(i)))

AnswerInv ==
    /\ \A i \in Instances, k \in IdemKeys : outcomes[i][k] = "ok" => Backed(k)
    /\ \A c \in Calls : Told(c) => Backed(IdemKey(LockOf(c)))

HeldUntilFreed == \A g \in granted : SeatKey(g) \notin freed => lock[SeatKey(g)] = g

LockInv == TypeOK /\ RedisInv /\ ConsumerInv /\ AnswerInv /\ HeldUntilFreed

(* A lock acquired stays acquired, so that backing is never lost.          *)
LEMMA BackedStays ==
    ASSUME granted \subseteq granted', NEW k, Backed(k)
    PROVE  Backed(k)'
  BY DEF Backed, IdemKey

(* What SetIfFree does to the locks: the new one is granted, and only it.  *)
LEMMA SetIfFreeFacts ==
    ASSUME TypeOK, RedisInv, HeldUntilFreed, NEW l \in LockState, SetIfFree(l),
           \E c \in Calls : l = LockOf(c),
           UNCHANGED <<idem, freed>>
    PROVE  /\ granted \subseteq granted'
           /\ RedisInv' /\ HeldUntilFreed'
           /\ lock[SeatKey(l)] = NoLock => l \in granted'
  <1> SeatKey(l) \in SeatKeys /\ l # NoLock
    BY KeysType
  <1>1. CASE lock[SeatKey(l)] = NoLock
    <2>1. lock' = [lock EXCEPT ![SeatKey(l)] = l] /\ granted' = granted \union {l}
      BY <1>1 DEF SetIfFree
    <2>2. RedisInv'
      BY <2>1 DEF TypeOK, RedisInv, SeatKey, IdemKey
    <2>3. ASSUME NEW g \in granted', SeatKey(g) \notin freed'
          PROVE  lock'[SeatKey(g)] = g
      <3>1. CASE g = l
        BY <2>1, <3>1 DEF TypeOK
      <3>2. CASE g \in granted /\ g # l
        <4>1. lock[SeatKey(g)] = g /\ g \in LockState /\ g # NoLock
          BY <2>3, <3>2, KeysType DEF HeldUntilFreed, TypeOK
        <4>2. SeatKey(g) # SeatKey(l)
          BY <1>1, <4>1
        <4> QED
          BY <2>1, <4>1, <4>2, KeysType DEF TypeOK
      <3> QED
        BY <2>1, <2>3, <3>1, <3>2
    <2>4. HeldUntilFreed'
      BY <2>3 DEF HeldUntilFreed, SeatKey
    <2> QED
      BY <2>1, <2>2, <2>4
  <1>2. CASE lock[SeatKey(l)] # NoLock
    BY <1>2 DEF SetIfFree, RedisInv, HeldUntilFreed, SeatKey, IdemKey
  <1> QED
    BY <1>1, <1>2

(* Removing a lock, by DEL or TTL, records its key as freed.               *)
LEMMA DropFacts ==
    ASSUME TypeOK, RedisInv, HeldUntilFreed, NEW k \in SeatKeys, Drop(k),
           UNCHANGED <<idem, granted>>
    PROVE  RedisInv' /\ HeldUntilFreed'
  <1>1. RedisInv'
    BY DEF Drop, TypeOK, RedisInv, SeatKey, IdemKey
  <1>2. ASSUME NEW g \in granted, SeatKey(g) \notin freed'
        PROVE  lock'[SeatKey(g)] = g
    <2>1. lock[SeatKey(g)] = g /\ g # NoLock /\ SeatKey(g) \in SeatKeys
      BY <1>2, KeysType DEF Drop, HeldUntilFreed, TypeOK
    <2>2. SeatKey(g) # k
      BY <1>2, <2>1 DEF Drop
    <2> QED
      BY <2>1, <2>2 DEF Drop, TypeOK
  <1> QED
    BY <1>1, <1>2 DEF HeldUntilFreed, SeatKey

(* Every step of a handler keeps the invariant: a call is told its seat is *)
(* its own only by Poll, from an answer that was backed.                   *)
LEMMA HandlerKeeps ==
    ASSUME LockInv, TypeOK', NEW c \in Calls, Publish(c) \/ HandlerStep(c)
    PROVE  LockInv'
  <1> USE DEF LockInv, redisVars, requestVars, consumerVars, tableVars
  <1>0. \A d \in Calls : IdemKey(LockOf(d)) \in IdemKeys /\ SeatKey(LockOf(d)) \in SeatKeys
    BY KeysType
  <1>1. CASE Publish(c) \/ GiveUp(c) \/ Insert(c) \/ InsertFails(c)
    <2>1. UNCHANGED <<redisVars, outcomes, consumerVars, granted, freed>>
      BY <1>1 DEF Publish, GiveUp, Insert, InsertFails
    <2>2. \A d \in Calls : Told(d)' => Told(d)
      BY <1>1 DEF Publish, GiveUp, Insert, InsertFails, HandlerAt, HandlerGoes, Told, TypeOK
    <2>3. RedisInv' /\ ConsumerInv' /\ HeldUntilFreed'
      BY <2>1 DEF RedisInv, ConsumerInv, HeldUntilFreed, Backed, SeatKey, IdemKey, Requested, LockOf
    <2>4. AnswerInv'
      BY <2>1, <2>2 DEF AnswerInv, Backed, IdemKey, LockOf
    <2> QED
      BY <2>3, <2>4
  <1>2. CASE Poll(c)
    <2>1. UNCHANGED <<redisVars, consumerVars, booked, granted, freed>>
      BY <1>2 DEF Poll
    <2>2. \A d \in Calls : Told(d)' => Told(d) \/ (d = c /\ Answer(c) = "ok")
      BY <1>2, <2>1 DEF Poll, HandlerAt, HandlerGoes, Told, TypeOK
    <2>3. Answer(c) = "ok" => Backed(IdemKey(LockOf(c)))
      BY <1>0, ConstantsAssumption DEF AnswerInv, Answer
    <2>4. \A i \in Instances, k \in IdemKeys : outcomes'[i][k] \in {outcomes[i][k], "none"}
      BY <1>2, <1>0, ConstantsAssumption DEF Poll, TypeOK
    <2>5. RedisInv' /\ ConsumerInv' /\ HeldUntilFreed'
      BY <2>1 DEF RedisInv, ConsumerInv, HeldUntilFreed, Backed, SeatKey, IdemKey, Requested, LockOf
    <2>6. AnswerInv'
      BY <2>1, <2>2, <2>3, <2>4 DEF AnswerInv, Backed, IdemKey, LockOf
    <2> QED
      BY <2>5, <2>6
  <1>3. CASE Release(c)
    <2>1. UNCHANGED <<idem, outcomes, consumerVars, booked, granted>>
      BY <1>3 DEF Release
    <2>2. RedisInv' /\ HeldUntilFreed'
      <3>1. CASE Drop(SeatKey(LockOf(c)))
        BY <2>1, <3>1, <1>0, DropFacts
      <3>2. CASE UNCHANGED <<lock, freed>>
        BY <2>1, <3>2 DEF RedisInv, HeldUntilFreed, SeatKey, IdemKey
      <3> QED
        BY <1>3, <3>1, <3>2 DEF Release
    <2>3. \A d \in Calls : Told(d)' => Told(d)
      BY <1>3, <2>1 DEF Release, HandlerAt, HandlerGoes, Told, TypeOK
    <2>4. ConsumerInv' /\ AnswerInv'
      BY <2>1, <2>3 DEF ConsumerInv, AnswerInv, Backed, IdemKey, Requested, LockOf
    <2> QED
      BY <2>2, <2>4
  <1> QED
    BY <1>1, <1>2, <1>3 DEF HandlerStep

(* Every step of a consumer keeps the invariant.                           *)
LEMMA ConsumerKeeps ==
    ASSUME LockInv, TypeOK', NEW i \in Instances, ConsumerStep(i)
    PROVE  LockInv'
  <1> USE DEF LockInv, redisVars, requestVars, consumerVars, tableVars
  <1>0. /\ Requested(i) \in LockState
        /\ IdemKey(Requested(i)) \in IdemKeys
        /\ SeatKey(Requested(i)) \in SeatKeys
    BY KeysType DEF TypeOK, Requested
  <1>1. CASE Receive(i) \/ CheckIdem(i) \/ CheckPrior(i) \/ CheckSeat(i)
    <2>1. UNCHANGED <<redisVars, outcomes, pc, tableVars, granted, freed>>
      BY <1>1 DEF Receive, CheckIdem, CheckPrior, CheckSeat
    <2>2. RedisInv' /\ AnswerInv' /\ HeldUntilFreed'
      BY <2>1 DEF RedisInv, AnswerInv, HeldUntilFreed, Backed, SeatKey, IdemKey, Told, LockOf
    <2>3. ConsumerInv'
      <3>1. ASSUME NEW j \in Instances, j # i
            PROVE  UNCHANGED <<step[j], msg[j], prior[j], verdict[j]>>
        BY <1>1, <3>1 DEF Receive, CheckIdem, CheckPrior, CheckSeat, Decides, ConsumerGoes, TypeOK
      <3>2. /\ step'[i] = "prior" =>
                  /\ prior'[i] \in granted
                  /\ IdemKey(prior'[i]) = IdemKey(Requested(i)')
            /\ step'[i] # "remember"
            /\ step'[i] = "reply" /\ verdict'[i] = "ok" => Backed(IdemKey(Requested(i)'))
        <4>1. CASE Receive(i)
          BY <4>1 DEF Receive, ConsumerAt, ConsumerGoes, TypeOK
        <4>2. CASE CheckIdem(i)
          BY <4>2, <1>0 DEF CheckIdem, ConsumerAt, ConsumerGoes, Decides, TypeOK, RedisInv, Requested
        <4>3. CASE CheckPrior(i)
          BY <4>3 DEF CheckPrior, ConsumerAt, ConsumerGoes, Decides, TypeOK, ConsumerInv, Requested, Backed
        <4>4. CASE CheckSeat(i)
          BY <4>4 DEF CheckSeat, ConsumerAt, ConsumerGoes, Decides, TypeOK
        <4> QED
          BY <1>1, <4>1, <4>2, <4>3, <4>4
      <3> QED
        BY <2>1, <3>1, <3>2 DEF ConsumerInv, Backed, IdemKey, Requested, LockOf
    <2> QED
      BY <2>2, <2>3
  <1>2. CASE Acquire(i)
    <2>1. UNCHANGED <<requestVars, idem, outcomes, msg, prior, pc, tableVars, freed>>
      BY <1>2 DEF Acquire
    <2>2. /\ granted \subseteq granted'
          /\ RedisInv' /\ HeldUntilFreed'
          /\ step'[i] = "remember" => Requested(i) \in granted'
      <3>1. CASE SetIfFree(Requested(i))
        <4>1. lock[SeatKey(Requested(i))] # NoLock => step'[i] # "remember"
          BY <1>2 DEF Acquire, ConsumerAt, ConsumerGoes, Decides, TypeOK
        <4> QED
          BY <2>1, <3>1, <4>1, <1>0, SetIfFreeFacts DEF TypeOK, Requested
      <3>2. CASE Decides(i, "INVALID_REQUEST") /\ UNCHANGED <<lock, granted>>
        BY <2>1, <3>2 DEF Decides, ConsumerGoes, TypeOK, RedisInv, HeldUntilFreed, SeatKey, IdemKey
      <3> QED
        BY <1>2, <3>1, <3>2 DEF Acquire
    <2>3. \A k : Backed(k) => Backed(k)'
      BY <2>2, BackedStays
    <2>4. AnswerInv'
      BY <2>1, <2>3 DEF AnswerInv, Told, IdemKey, LockOf
    <2>5. ConsumerInv'
      <3>1. ASSUME NEW j \in Instances, j # i
            PROVE  UNCHANGED <<step[j], verdict[j]>>
        BY <1>2, <3>1 DEF Acquire, Decides, ConsumerGoes, TypeOK
      <3>2. /\ step'[i] \in {"remember", "reply"}
            /\ step'[i] = "reply" => verdict'[i] # "ok"
        BY <1>2 DEF Acquire, Decides, ConsumerGoes, TypeOK
      <3> QED
        BY <2>1, <2>2, <2>3, <3>1, <3>2 DEF ConsumerInv, IdemKey, Requested, LockOf
    <2> QED
      BY <2>2, <2>4, <2>5
  <1>3. CASE Remember(i)
    <2>1. UNCHANGED <<requestVars, lock, outcomes, msg, prior, pc, tableVars, granted, freed>>
      BY <1>3 DEF Remember
    <2>2. Requested(i) \in granted
      BY <1>3 DEF Remember, ConsumerAt, ConsumerInv
    <2>3. RedisInv'
      <3>1. \A k \in IdemKeys : idem'[k] \in {idem[k], Requested(i)}
                               /\ (idem'[k] # idem[k] => k = IdemKey(Requested(i)))
        BY <1>3, <1>0 DEF Remember, TypeOK
      <3> QED
        BY <2>1, <2>2, <3>1 DEF RedisInv, SeatKey, IdemKey
    <2>4. AnswerInv' /\ HeldUntilFreed'
      BY <2>1 DEF AnswerInv, HeldUntilFreed, Backed, SeatKey, IdemKey, Told, LockOf
    <2>5. ConsumerInv'
      <3>1. ASSUME NEW j \in Instances, j # i
            PROVE  UNCHANGED <<step[j], verdict[j]>>
        BY <1>3, <3>1 DEF Remember, Decides, ConsumerGoes, TypeOK
      <3>2. step'[i] = "reply"
        BY <1>3 DEF Remember, Decides, ConsumerGoes, TypeOK
      <3> QED
        BY <2>1, <2>2, <3>1, <3>2 DEF ConsumerInv, Backed, IdemKey, Requested, LockOf
    <2> QED
      BY <2>3, <2>4, <2>5
  <1>4. CASE Reply(i)
    <2>1. UNCHANGED <<requestVars, redisVars, pc, tableVars, granted, freed>>
      BY <1>4 DEF Reply
    <2>2. \A j \in Instances, k \in IdemKeys :
             \/ outcomes'[j][k] = outcomes[j][k]
             \/ j = i /\ k = IdemKey(Requested(i)) /\ outcomes'[j][k] = verdict[i]
      BY <1>4, <1>0 DEF Reply, TypeOK
    <2>3. verdict[i] = "ok" => Backed(IdemKey(Requested(i)))
      BY <1>4 DEF Reply, ConsumerAt, ConsumerInv
    <2>4. AnswerInv'
      BY <2>1, <2>2, <2>3 DEF AnswerInv, Backed, IdemKey, Told, LockOf
    <2>5. RedisInv' /\ HeldUntilFreed'
      BY <2>1 DEF RedisInv, HeldUntilFreed, SeatKey, IdemKey
    <2>6. \A j \in Instances : IF j = i THEN step'[j] = "read"
                               ELSE UNCHANGED <<step[j], msg[j], prior[j], verdict[j]>>
      BY <1>4 DEF Reply, Returns, ConsumerGoes, TypeOK
    <2>7. ConsumerInv'
      BY <2>1, <2>6 DEF ConsumerInv, Backed, IdemKey, Requested, LockOf
    <2> QED
      BY <2>4, <2>5, <2>7
  <1> QED
    BY <1>1, <1>2, <1>3, <1>4 DEF ConsumerStep

(* Payments, crashes and the passing of time keep the invariant.           *)
LEMMA EnvironmentKeeps ==
    ASSUME LockInv, TypeOK',
           \/ \E c \in Calls : OpenCheckout(c) \/ CompletePayment(c)
           \/ \E i \in Instances : Crash(i)
           \/ \E k \in SeatKeys : ExpireLock(k)
           \/ \E k \in IdemKeys : ExpireIdem(k)
    PROVE  LockInv'
  <1> USE DEF LockInv, redisVars, requestVars, consumerVars, tableVars
  <1>1. ASSUME NEW c \in Calls, OpenCheckout(c) PROVE LockInv'
    BY <1>1 DEF OpenCheckout, RedisInv, ConsumerInv, AnswerInv, HeldUntilFreed,
                Backed, SeatKey, IdemKey, Requested, LockOf, Told
  <1>2. ASSUME NEW k \in SeatKeys, Drop(k),
               UNCHANGED <<idem, outcomes, consumerVars, pc, booked, granted>>
        PROVE  LockInv'
    <2>1. RedisInv' /\ HeldUntilFreed'
      BY <1>2, DropFacts
    <2>2. ConsumerInv' /\ AnswerInv'
      BY <1>2 DEF ConsumerInv, AnswerInv, Backed, IdemKey, Requested, LockOf, Told
    <2> QED
      BY <2>1, <2>2
  <1>3. ASSUME NEW c \in Calls, CompletePayment(c) PROVE LockInv'
    BY <1>2, <1>3, KeysType DEF CompletePayment
  <1>4. ASSUME NEW k \in SeatKeys, ExpireLock(k) PROVE LockInv'
    BY <1>2, <1>4 DEF ExpireLock
  <1>5. ASSUME NEW k \in IdemKeys, ExpireIdem(k) PROVE LockInv'
    <2>1. \A j \in IdemKeys : idem'[j] \in {idem[j], NoLock}
      BY <1>5 DEF ExpireIdem, TypeOK
    <2>2. UNCHANGED <<lock, outcomes, consumerVars, pc, booked, granted, freed>>
      BY <1>5 DEF ExpireIdem
    <2>3. RedisInv'
      BY <2>1, <2>2 DEF RedisInv, SeatKey, IdemKey
    <2>4. ConsumerInv' /\ AnswerInv' /\ HeldUntilFreed'
      BY <2>2 DEF ConsumerInv, AnswerInv, HeldUntilFreed, Backed, SeatKey, IdemKey,
                  Requested, LockOf, Told
    <2> QED
      BY <2>3, <2>4
  <1>6. ASSUME NEW i \in Instances, Crash(i) PROVE LockInv'
    <2>1. UNCHANGED <<redisVars, booked, granted, freed>>
      BY <1>6 DEF Crash
    <2>2. \A j \in Instances : step'[j] = "read" \/
                               UNCHANGED <<step[j], msg[j], prior[j], verdict[j]>>
      BY <1>6 DEF Crash, Returns, ConsumerGoes, TypeOK
    <2>3. \A j \in Instances, k \in IdemKeys : outcomes'[j][k] \in {outcomes[j][k], "none"}
      BY <1>6 DEF Crash, TypeOK
    <2>4. \A c \in Calls : Told(c)' => Told(c)
      BY <1>6, <2>1 DEF Crash, Told, TypeOK
    <2>5. RedisInv' /\ HeldUntilFreed'
      BY <2>1 DEF RedisInv, HeldUntilFreed, SeatKey, IdemKey
    <2>6. ConsumerInv' /\ AnswerInv'
      BY <2>1, <2>2, <2>3, <2>4 DEF ConsumerInv, AnswerInv, Backed, IdemKey, Requested, LockOf
    <2> QED
      BY <2>5, <2>6
  <1> QED
    BY <1>1, <1>3, <1>4, <1>5, <1>6

(* The invariant holds in every reachable state.                           *)
THEOREM LockInvariance == Spec => []LockInv
  <1>1. Init => LockInv
    <2> SUFFICES ASSUME Init PROVE LockInv
      OBVIOUS
    <2>1. TypeOK
      BY KeysType DEF Init, TypeOK, HandlerSteps, ConsumerSteps, Verdicts
    <2> QED
      BY <2>1 DEF Init, LockInv, RedisInv, ConsumerInv, AnswerInv, HeldUntilFreed, Told
  <1>2. LockInv /\ [Next]_vars => LockInv'
    <2> SUFFICES ASSUME LockInv, [Next]_vars PROVE LockInv'
      OBVIOUS
    <2>0. TypeOK'
      BY TypeStep DEF LockInv
    <2>1. CASE \E c \in Calls : Publish(c) \/ HandlerStep(c)
      BY <2>0, <2>1, HandlerKeeps
    <2>2. CASE \E i \in Instances : ConsumerStep(i)
      BY <2>0, <2>2, ConsumerKeeps
    <2>3. CASE \/ \E c \in Calls : OpenCheckout(c) \/ CompletePayment(c)
               \/ \E i \in Instances : Crash(i)
               \/ \E k \in SeatKeys : ExpireLock(k)
               \/ \E k \in IdemKeys : ExpireIdem(k)
      BY <2>0, <2>3, EnvironmentKeeps
    <2>4. CASE UNCHANGED vars
      BY <2>0, <2>4 DEF vars, LockInv, RedisInv, ConsumerInv, AnswerInv, HeldUntilFreed,
                        Backed, SeatKey, IdemKey, Requested, LockOf, Told
    <2> QED
      BY <2>1, <2>2, <2>3, <2>4 DEF Next
  <1> QED
    BY <1>1, <1>2, PTL DEF Spec

-----------------------------------------------------------------------------
(* The properties that follow.                                             *)

(* Whoever is told the seat is theirs acquired, at some time, a lock under *)
(* their own user, seat and session.                                       *)
THEOREM GrantsBacked == Spec => []GrantsAreBacked
  <1>1. LockInv => GrantsAreBacked
    BY DEF LockInv, AnswerInv, GrantsAreBacked, Backed
  <1> QED
    BY <1>1, LockInvariance, PTL

(* Two clients book the same seat only if a lock of it expired or was      *)
(* deleted in between, or with the session of a lock of another event: a   *)
(* seat key never gone holds all it was given.                             *)
THEOREM OneOwner == Spec => []OneOwnerUntilFreed
  <1>1. LockInv => OneOwnerUntilFreed
    <2> SUFFICES ASSUME LockInv, NEW c \in booked, NEW d \in booked,
                        SeatKey(LockOf(c)) = SeatKey(LockOf(d)),
                        SeatKey(LockOf(c)) \notin freed,
                        ~Crossed(c), ~Crossed(d)
                 PROVE  ClientOf[c] = ClientOf[d]
      BY DEF OneOwnerUntilFreed
    <2>1. ASSUME NEW b \in booked, ~Crossed(b), SeatKey(LockOf(b)) \notin freed
          PROVE  lock[SeatKey(LockOf(b))].client = ClientOf[b]
      <3>1. PICK g \in granted : IdemKey(g) = IdemKey(LockOf(b))
        BY DEF LockInv, TypeOK, AnswerInv, Told, Backed
      <3>2. SeatKey(g) = SeatKey(LockOf(b))
        BY <2>1, <3>1 DEF Crossed
      <3>3. lock[SeatKey(LockOf(b))] = g
        BY <2>1, <3>2 DEF LockInv, HeldUntilFreed
      <3>4. g.client = ClientOf[b]
        BY <3>1 DEF IdemKey, LockOf
      <3> QED
        BY <3>3, <3>4
    <2>2. lock[SeatKey(LockOf(c))].client = ClientOf[c]
      BY <2>1
    <2>3. lock[SeatKey(LockOf(d))].client = ClientOf[d]
      BY <2>1
    <2> QED
      BY <2>2, <2>3
  <1> QED
    BY <1>1, LockInvariance, PTL

(* A held lock passes to nobody else before it is removed.                 *)
THEOREM LockNotTakenOver == Spec => NoTakeover
  <1>1. TypeOK /\ [Next]_vars
        => [\A k \in SeatKeys : lock[k] # NoLock => lock'[k] \in {lock[k], NoLock}]_lock
    <2> SUFFICES ASSUME TypeOK, [Next]_vars, NEW k \in SeatKeys, lock[k] # NoLock
                 PROVE  lock'[k] \in {lock[k], NoLock}
      OBVIOUS
    <2>1. ASSUME NEW j \in SeatKeys, Drop(j) PROVE lock'[k] \in {lock[k], NoLock}
      BY <2>1 DEF Drop, TypeOK
    <2>2. ASSUME NEW l \in LockState, SetIfFree(l) PROVE lock'[k] \in {lock[k], NoLock}
      BY <2>2 DEF SetIfFree, TypeOK
    <2>3. ASSUME UNCHANGED lock PROVE lock'[k] \in {lock[k], NoLock}
      BY <2>3
    <2>4. ASSUME NEW c \in Calls,
                 Publish(c) \/ HandlerStep(c) \/ OpenCheckout(c) \/ CompletePayment(c)
          PROVE  UNCHANGED lock \/ Drop(SeatKey(LockOf(c)))
      BY <2>4 DEF Publish, HandlerStep, Poll, GiveUp, Insert, InsertFails, Release,
                  OpenCheckout, CompletePayment, redisVars
    <2>5. ASSUME NEW i \in Instances, ConsumerStep(i) \/ Crash(i)
          PROVE  UNCHANGED lock \/ SetIfFree(Requested(i))
      BY <2>5 DEF ConsumerStep, Receive, CheckIdem, CheckPrior, CheckSeat, Acquire,
                  Remember, Reply, Crash, redisVars
    <2> QED
      BY <2>1, <2>2, <2>3, <2>4, <2>5, KeysType
         DEF Next, ExpireLock, ExpireIdem, vars, TypeOK, Requested
  <1> QED
    BY <1>1, TypeCorrect, PTL DEF Spec, NoTakeover

(* What Redis holds under a seat key was acquired for that seat, and what  *)
(* was once acquired stays so.                                             *)
LEMMA GrantedStays ==
    ASSUME TypeOK, [Next]_vars
    PROVE  granted \subseteq granted'
  <1> USE DEF redisVars, requestVars, consumerVars, tableVars
  <1>1. ASSUME NEW c \in Calls,
               Publish(c) \/ OpenCheckout(c) \/ CompletePayment(c) \/ HandlerStep(c)
        PROVE  UNCHANGED granted
    BY <1>1 DEF Publish, HandlerStep, Poll, GiveUp, Insert, InsertFails, Release,
                OpenCheckout, CompletePayment
  <1>2. ASSUME NEW i \in Instances, ConsumerStep(i) \/ Crash(i)
        PROVE  UNCHANGED granted \/ SetIfFree(Requested(i))
    BY <1>2 DEF ConsumerStep, Receive, CheckIdem, CheckPrior, CheckSeat, Acquire,
                Remember, Reply, Crash
  <1> QED
    BY <1>1, <1>2 DEF Next, vars, SetIfFree, ExpireLock, ExpireIdem

(* The consumers that did not take a step are where they were.             *)
LEMMA OthersWait ==
    ASSUME TypeOK, NEW i \in Instances, ConsumerStep(i)
    PROVE  \A j \in Instances : j # i => UNCHANGED <<step[j], msg[j], prior[j], verdict[j]>>
  BY DEF ConsumerStep, Receive, CheckIdem, CheckPrior, CheckSeat, Acquire, Remember, Reply,
         Returns, Decides, ConsumerGoes, TypeOK

(* ALREADY_LOCKED is answered only for a seat that was locked: by the lock *)
(* the consumer saw, or by its own, set in an EVAL whose reply was lost.   *)
THEOREM RefusalsHaveCause == Spec => []RefusalHasCause
  <1> USE DEF redisVars, requestVars, consumerVars, tableVars
  <1>1. Init => RefusalHasCause
    BY DEF Init, RefusalHasCause
  <1>2. ASSUME LockInv, RefusalHasCause, [Next]_vars PROVE RefusalHasCause'
    <2> USE DEF LockInv
    <2>1. granted \subseteq granted'
      BY <1>2, GrantedStays
    <2>2. ASSUME NEW i \in Instances, step'[i] = step[i], verdict'[i] = verdict[i], msg'[i] = msg[i],
                 step'[i] = "reply", verdict'[i] = "ALREADY_LOCKED"
          PROVE  \E g \in granted' : SeatKey(g) = SeatKey(Requested(i)')
      BY <1>2, <2>1, <2>2 DEF RefusalHasCause, Requested, LockOf
    <2>3. ASSUME UNCHANGED <<step, msg, verdict>> PROVE RefusalHasCause'
      BY <2>2, <2>3 DEF RefusalHasCause, SeatKey, Requested
    <2>4. ASSUME NEW i \in Instances, ConsumerStep(i),
                 step'[i] = "reply", verdict'[i] = "ALREADY_LOCKED"
          PROVE  \E g \in granted' : SeatKey(g) = SeatKey(Requested(i)')
      <3>0. /\ Requested(i) \in LockState /\ SeatKey(Requested(i)) \in SeatKeys
            /\ step' \in [Instances -> ConsumerSteps] /\ verdict' \in [Instances -> Verdicts]
        BY <1>2, TypeStep, KeysType DEF TypeOK, Requested
      <3>1. ASSUME lock[SeatKey(Requested(i))] # NoLock
            PROVE  \E g \in granted' : SeatKey(g) = SeatKey(Requested(i))
        BY <1>2, <2>1, <3>0, <3>1 DEF RedisInv
      <3>2. CASE CheckSeat(i)
        <4>1. lock[SeatKey(Requested(i))] # NoLock /\ UNCHANGED msg
          BY <1>2, <2>4, <3>2 DEF CheckSeat, ConsumerAt, ConsumerGoes, Decides, TypeOK
        <4> QED
          BY <3>1, <4>1 DEF Requested, LockOf
      <3>3. CASE Acquire(i)
        <4>1. UNCHANGED msg /\ SetIfFree(Requested(i))
          BY <1>2, <2>4, <3>3 DEF Acquire, Decides, ConsumerGoes, TypeOK
        <4>2. lock[SeatKey(Requested(i))] = NoLock => Requested(i) \in granted'
          BY <4>1 DEF SetIfFree
        <4> QED
          BY <3>1, <4>1, <4>2 DEF Requested, LockOf
      <3>4. CASE Receive(i) \/ CheckIdem(i) \/ CheckPrior(i) \/ Remember(i) \/ Reply(i)
        <4>1. ~(step'[i] = "reply" /\ verdict'[i] = "ALREADY_LOCKED")
          BY <1>2, <3>0, <3>4 DEF Receive, CheckIdem, CheckPrior, Remember, Reply, Returns,
                      ConsumerAt, ConsumerGoes, Decides, TypeOK
        <4> QED
          BY <2>4, <4>1
      <3> QED
        BY <2>4, <3>2, <3>3, <3>4 DEF ConsumerStep
    <2>5. ASSUME NEW i \in Instances, ConsumerStep(i) PROVE RefusalHasCause'
      <3>1. \A j \in Instances : j # i => UNCHANGED <<step[j], msg[j], prior[j], verdict[j]>>
        BY <1>2, <2>5, OthersWait
      <3>2. ASSUME NEW j \in Instances, step'[j] = "reply", verdict'[j] = "ALREADY_LOCKED"
            PROVE  \E g \in granted' : SeatKey(g) = SeatKey(Requested(j)')
        BY <2>2, <2>4, <2>5, <3>1, <3>2
      <3> QED
        BY <3>2 DEF RefusalHasCause, SeatKey, Requested
    <2>6. ASSUME NEW i \in Instances, Crash(i) PROVE RefusalHasCause'
      <3>1. \A j \in Instances : IF j = i THEN step'[j] = "read"
                                 ELSE UNCHANGED <<step[j], msg[j], verdict[j]>>
        BY <1>2, <2>6 DEF Crash, Returns, ConsumerGoes, TypeOK
      <3> QED
        BY <2>2, <3>1 DEF RefusalHasCause, SeatKey, Requested
    <2>7. ASSUME NEW c \in Calls,
                 Publish(c) \/ OpenCheckout(c) \/ CompletePayment(c) \/ HandlerStep(c)
          PROVE  UNCHANGED <<step, msg, verdict>>
      BY <2>7 DEF Publish, HandlerStep, Poll, GiveUp, Insert, InsertFails, Release,
                  OpenCheckout, CompletePayment
    <2> QED
      BY <1>2, <2>3, <2>5, <2>6, <2>7 DEF Next, vars, ExpireLock, ExpireIdem
  <1> QED
    BY <1>1, <1>2, LockInvariance, PTL DEF Spec

-----------------------------------------------------------------------------
(* The retry of an owner.  With one instance that is never restarted and a *)
(* Redis that answers, a lock that is held is under its idempotency key    *)
(* (or the consumer is about to set that key), and a consumer at work on a *)
(* request knows a lock held under the key of its own request.             *)

OwnLock(i, k) == lock[k] # NoLock /\ IdemKey(lock[k]) = IdemKey(Requested(i))

HeldIsRemembered ==
    \A k \in SeatKeys : lock[k] # NoLock =>
        \/ idem[IdemKey(lock[k])] = lock[k]
        \/ \E i \in Instances : step[i] = "remember" /\ Requested(i) = lock[k]

OwnLockKnown ==
    \A i \in Instances, k \in SeatKeys : OwnLock(i, k) =>
        /\ step[i] = "prior" => prior[i] = lock[k]
        /\ step[i] \notin {"seat", "acquire"}
        /\ step[i] = "remember" => Requested(i) = lock[k]
        /\ step[i] = "reply" => verdict[i] # "ALREADY_LOCKED"

OwnerInv == HeldIsRemembered /\ OwnLockKnown

(* A step that leaves every lock as it is or removes it, and moves neither *)
(* a consumer nor an idempotency key, keeps the invariant.                 *)
LEMMA OwnerKeptByRemoval ==
    ASSUME LockInv, OwnerInv,
           \A k \in SeatKeys : lock'[k] \in {lock[k], NoLock},
           UNCHANGED <<idem, consumerVars>>
    PROVE  OwnerInv'
  <1> USE DEF requestVars, consumerVars, OwnerInv
  <1>1. HeldIsRemembered'
    BY DEF HeldIsRemembered, IdemKey, Requested, LockOf
  <1>2. OwnLockKnown'
    BY DEF OwnLockKnown, OwnLock, IdemKey, Requested, LockOf
  <1> QED
    BY <1>1, <1>2

(* The steps of the only consumer keep the invariant.                      *)
LEMMA OwnerKeptByConsumer ==
    ASSUME LockInv, OwnerInv, TypeOK', ~May("redis"),
           NEW i \in Instances, \A j \in Instances : j = i,
           ConsumerStep(i)
    PROVE  OwnerInv'
  <1> USE DEF LockInv, OwnerInv, redisVars, requestVars, consumerVars, tableVars
  <1>0. /\ Requested(i) \in LockState /\ Requested(i) # NoLock
        /\ IdemKey(Requested(i)) \in IdemKeys
        /\ SeatKey(Requested(i)) \in SeatKeys
    BY KeysType DEF TypeOK, Requested
  <1>a. \A k \in SeatKeys : lock[k] # NoLock => IdemKey(lock[k]) \in IdemKeys /\ SeatKey(lock[k]) = k
    BY KeysType DEF TypeOK, RedisInv
  <1>1. CASE Receive(i)
    <2>1. UNCHANGED <<lock, idem>> /\ step'[i] \in {"read", "idem"} /\ step[i] = "read"
      BY <1>1 DEF Receive, ConsumerAt, ConsumerGoes, TypeOK
    <2>2. HeldIsRemembered'
      BY <2>1 DEF HeldIsRemembered, IdemKey
    <2>3. OwnLockKnown'
      BY <2>1 DEF OwnLockKnown
    <2> QED
      BY <2>2, <2>3
  <1>2. CASE CheckIdem(i)
    <2>1. /\ UNCHANGED <<lock, idem, msg>>
          /\ step[i] = "idem"
          /\ prior'[i] = idem[IdemKey(Requested(i))]
          /\ step'[i] = IF prior'[i] = NoLock THEN "seat" ELSE "prior"
      BY <1>2 DEF CheckIdem, ConsumerAt, ConsumerGoes, TypeOK
    <2>2. \A k \in SeatKeys : OwnLock(i, k) => idem[IdemKey(Requested(i))] = lock[k]
      BY <2>1 DEF HeldIsRemembered, OwnLock
    <2>3. HeldIsRemembered'
      BY <2>1 DEF HeldIsRemembered, IdemKey
    <2>4. OwnLockKnown'
      BY <2>1, <2>2 DEF OwnLockKnown, OwnLock, IdemKey, Requested, LockOf
    <2> QED
      BY <2>3, <2>4
  <1>3. CASE CheckPrior(i)
    <2>1. /\ UNCHANGED <<lock, idem, msg>>
          /\ step[i] = "prior"
          /\ \/ step'[i] = "reply" /\ verdict'[i] = "ok"
             \/ step'[i] = "seat" /\ lock[SeatKey(prior[i])] = NoLock
      BY <1>3 DEF CheckPrior, ConsumerAt, ConsumerGoes, Decides, TypeOK
    <2>2. \A k \in SeatKeys : OwnLock(i, k) => lock[SeatKey(prior[i])] # NoLock
      BY <2>1, <1>a DEF OwnLockKnown, OwnLock
    <2>3. HeldIsRemembered'
      BY <2>1 DEF HeldIsRemembered, IdemKey
    <2>4. OwnLockKnown'
      BY <2>1, <2>2 DEF OwnLockKnown, OwnLock, IdemKey, Requested, LockOf
    <2> QED
      BY <2>3, <2>4
  <1>4. CASE CheckSeat(i)
    <2>1. UNCHANGED <<lock, idem, msg>> /\ step[i] = "seat" /\ step'[i] \in {"reply", "acquire"}
      BY <1>4 DEF CheckSeat, ConsumerAt, ConsumerGoes, Decides, TypeOK
    <2>2. HeldIsRemembered'
      BY <2>1 DEF HeldIsRemembered, IdemKey
    <2>3. OwnLockKnown'
      BY <2>1 DEF OwnLockKnown, OwnLock, IdemKey, Requested, LockOf
    <2> QED
      BY <2>2, <2>3
  <1>5. CASE Acquire(i)
    <2>1. /\ UNCHANGED <<idem, msg>> /\ SetIfFree(Requested(i)) /\ step[i] = "acquire"
          /\ IF lock[SeatKey(Requested(i))] = NoLock THEN step'[i] = "remember"
                                                     ELSE step'[i] = "reply"
      BY <1>5 DEF Acquire, ConsumerAt, ConsumerGoes, Decides, TypeOK
    <2>2. \A k \in SeatKeys : ~OwnLock(i, k)
      BY <2>1 DEF OwnLockKnown
    <2>3. \A k \in SeatKeys :
             \/ lock'[k] = lock[k]
             \/ lock'[k] = Requested(i) /\ step'[i] = "remember"
      BY <2>1, <1>0 DEF SetIfFree, TypeOK
    <2>4. HeldIsRemembered'
      BY <2>1, <2>3 DEF HeldIsRemembered, IdemKey, Requested, LockOf
    <2>5. OwnLockKnown'
      BY <2>1, <2>2, <2>3 DEF OwnLockKnown, OwnLock, IdemKey, Requested, LockOf
    <2> QED
      BY <2>4, <2>5
  <1>6. CASE Remember(i)
    <2>1. /\ UNCHANGED <<lock, msg>> /\ step[i] = "remember"
          /\ step'[i] = "reply" /\ verdict'[i] = "ok"
          /\ idem' = [idem EXCEPT ![IdemKey(Requested(i))] = Requested(i)]
      BY <1>6 DEF Remember, ConsumerAt, ConsumerGoes, Decides, TypeOK
    <2>2. ASSUME NEW k \in SeatKeys, lock[k] # NoLock
          PROVE  idem'[IdemKey(lock[k])] = lock[k]
      <3>1. CASE IdemKey(lock[k]) = IdemKey(Requested(i))
        BY <2>1, <2>2, <3>1, <1>0 DEF OwnLockKnown, OwnLock, TypeOK
      <3>2. CASE IdemKey(lock[k]) # IdemKey(Requested(i))
        BY <2>1, <2>2, <3>2, <1>a DEF HeldIsRemembered, TypeOK
      <3> QED
        BY <3>1, <3>2
    <2>3. HeldIsRemembered'
      BY <2>1, <2>2 DEF HeldIsRemembered, IdemKey
    <2>4. OwnLockKnown'
      BY <2>1 DEF OwnLockKnown
    <2> QED
      BY <2>3, <2>4
  <1>7. CASE Reply(i)
    <2>1. UNCHANGED <<lock, idem>> /\ step[i] = "reply" /\ step'[i] = "read"
      BY <1>7 DEF Reply, Returns, ConsumerAt, ConsumerGoes, TypeOK
    <2>2. HeldIsRemembered'
      BY <2>1 DEF HeldIsRemembered, IdemKey
    <2>3. OwnLockKnown'
      BY <2>1 DEF OwnLockKnown
    <2> QED
      BY <2>2, <2>3
  <1> QED
    BY <1>1, <1>2, <1>3, <1>4, <1>5, <1>6, <1>7 DEF ConsumerStep

(* An idempotency key expires only after the lock it describes.            *)
LEMMA OwnerKeptByExpiry ==
    ASSUME LockInv, OwnerInv, NEW k \in IdemKeys, ExpireIdem(k)
    PROVE  OwnerInv'
  <1> USE DEF LockInv, OwnerInv, redisVars, requestVars, consumerVars, tableVars
  <1>1. /\ UNCHANGED <<lock, consumerVars>>
        /\ idem' = [idem EXCEPT ![k] = NoLock]
        /\ lock[SeatKey(idem[k])] # idem[k]
    BY DEF ExpireIdem
  <1>2. ASSUME NEW s \in SeatKeys, lock[s] # NoLock, idem[IdemKey(lock[s])] = lock[s]
        PROVE  idem'[IdemKey(lock[s])] = lock[s]
    <2>1. SeatKey(lock[s]) = s /\ IdemKey(lock[s]) \in IdemKeys
      BY <1>2, KeysType DEF TypeOK, RedisInv
    <2>2. IdemKey(lock[s]) # k
      BY <1>1, <1>2, <2>1
    <2> QED
      BY <1>1, <1>2, <2>1, <2>2 DEF TypeOK
  <1>3. HeldIsRemembered'
    BY <1>1, <1>2 DEF HeldIsRemembered, IdemKey, Requested, LockOf
  <1>4. OwnLockKnown'
    BY <1>1 DEF OwnLockKnown, OwnLock, IdemKey, Requested, LockOf
  <1> QED
    BY <1>3, <1>4

(* A client that asks again while it holds the lock is never told that the *)
(* seat is taken, whatever expires, is paid, or goes wrong in Kafka and in *)
(* the database: but only with one instance, no restart and no Redis error. *)
THEOREM OwnerIsNotRefused ==
    ASSUME \A i, j \in Instances : i = j, ~May("redis"), ~May("crash")
    PROVE  Spec => []OwnerNotRefused
  <1> USE DEF redisVars, requestVars, consumerVars, tableVars
  <1>1. Init => OwnerInv
    BY DEF Init, OwnerInv, HeldIsRemembered, OwnLockKnown, OwnLock
  <1>2. LockInv /\ OwnerInv /\ [Next]_vars => OwnerInv'
    <2> SUFFICES ASSUME LockInv, OwnerInv, [Next]_vars PROVE OwnerInv'
      OBVIOUS
    <2>1. ASSUME NEW k \in SeatKeys, Drop(k), UNCHANGED <<idem, consumerVars>>
          PROVE  OwnerInv'
      <3>1. \A j \in SeatKeys : lock'[j] \in {lock[j], NoLock}
        BY <2>1 DEF Drop, LockInv, TypeOK
      <3> QED
        BY <2>1, <3>1, OwnerKeptByRemoval
    <2>2. ASSUME UNCHANGED <<lock, idem, consumerVars>> PROVE OwnerInv'
      BY <2>2, OwnerKeptByRemoval
    <2>3. ASSUME NEW c \in Calls,
                 Publish(c) \/ OpenCheckout(c) \/ CompletePayment(c) \/ HandlerStep(c)
          PROVE  /\ UNCHANGED <<idem, consumerVars>>
                 /\ UNCHANGED lock \/ Drop(SeatKey(LockOf(c)))
      BY <2>3 DEF Publish, HandlerStep, Poll, GiveUp, Insert, InsertFails, Release,
                  OpenCheckout, CompletePayment
    <2>4. ASSUME NEW i \in Instances, ConsumerStep(i) PROVE OwnerInv'
      <3>1. TypeOK'
        BY TypeStep DEF LockInv
      <3> QED
        BY <2>4, <3>1, OwnerKeptByConsumer
    <2>5. ASSUME NEW k \in SeatKeys, ExpireLock(k) PROVE OwnerInv'
      BY <2>1, <2>5 DEF ExpireLock
    <2>6. ASSUME NEW k \in IdemKeys, ExpireIdem(k) PROVE OwnerInv'
      BY <2>6, OwnerKeptByExpiry
    <2>7. ASSUME NEW i \in Instances PROVE ~Crash(i)
      BY DEF Crash
    <2>8. ASSUME NEW c \in Calls,
                 Publish(c) \/ OpenCheckout(c) \/ CompletePayment(c) \/ HandlerStep(c)
          PROVE  OwnerInv'
      BY <2>1, <2>2, <2>3, <2>8, KeysType
    <2> QED
      BY <2>2, <2>4, <2>5, <2>6, <2>7, <2>8 DEF Next, vars
  <1>3. LockInv /\ OwnerInv => OwnerNotRefused
    <2> SUFFICES ASSUME LockInv, OwnerInv, NEW i \in Instances, step[i] = "reply",
                        lock[SeatKey(Requested(i))] = Requested(i)
                 PROVE  verdict[i] # "ALREADY_LOCKED"
      BY DEF OwnerNotRefused
    <2>1. Requested(i) # NoLock /\ SeatKey(Requested(i)) \in SeatKeys
      BY KeysType DEF LockInv, TypeOK, Requested
    <2> QED
      BY <2>1 DEF OwnerInv, OwnLockKnown, OwnLock
  <1> QED
    BY <1>1, <1>2, <1>3, LockInvariance, PTL DEF Spec

-----------------------------------------------------------------------------
(* The seat lock implements the reservation: every step grants a free      *)
(* seat, vacates one, books for an entitled client, or changes nothing.    *)
LEMMA ReservationStep ==
    ASSUME LockInv, [Next]_vars
    PROVE  [Reservation!Next]_(Reservation!avars)
  <1> DEFINE entitled == {IdemKey(g) : g \in granted}
  <1> SUFFICES Reservation!Next \/ UNCHANGED <<lock, granted, booked>>
    BY DEF Reservation!avars, IdemKey
  <1> USE DEF LockInv, redisVars, requestVars, consumerVars, tableVars
  <1>1. ASSUME NEW k \in SeatKeys, Drop(k), UNCHANGED <<granted, booked>>
        PROVE  Reservation!Next
    <2>1. Reservation!Vacate(k)
      BY <1>1 DEF Reservation!Vacate, Drop, IdemKey
    <2> QED
      BY <2>1 DEF Reservation!Next
  <1>2. ASSUME NEW c \in Calls, Publish(c) \/ HandlerStep(c) PROVE Reservation!Next \/ UNCHANGED <<lock, granted, booked>>
    <2>1. CASE pc[c] = "insert" /\ (Insert(c) \/ InsertFails(c))
      <3>1. UNCHANGED <<lock, granted>> /\ booked' \in {booked, booked \union {c}}
        BY <2>1 DEF Insert, InsertFails
      <3>2. IdemKeyOf(c) \in entitled
        BY <2>1 DEF AnswerInv, Told, Backed, IdemKeyOf
      <3>3. CASE booked' = booked \union {c}
        <4>1. Reservation!Book(c)
          BY <3>1, <3>2, <3>3 DEF Reservation!Book, IdemKey
        <4> QED
          BY <4>1 DEF Reservation!Next
      <3> QED
        BY <3>1, <3>3
    <2>2. CASE Release(c)
      BY <1>1, <2>2, KeysType DEF Release
    <2> QED
      BY <1>2, <2>1, <2>2 DEF Publish, HandlerStep, Poll, GiveUp, Insert, InsertFails, HandlerAt
  <1>3. ASSUME NEW c \in Calls, OpenCheckout(c) \/ CompletePayment(c)
        PROVE  Reservation!Next \/ UNCHANGED <<lock, granted, booked>>
    BY <1>1, <1>3, KeysType DEF OpenCheckout, CompletePayment
  <1>4. ASSUME NEW i \in Instances, ConsumerStep(i) PROVE Reservation!Next \/ UNCHANGED <<lock, granted, booked>>
    <2>1. UNCHANGED booked /\ (UNCHANGED <<lock, granted>> \/ SetIfFree(Requested(i)))
      BY <1>4 DEF ConsumerStep, Receive, CheckIdem, CheckPrior, CheckSeat, Acquire, Remember, Reply
    <2>2. CASE UNCHANGED booked /\ SetIfFree(Requested(i)) /\ lock[SeatKey(Requested(i))] = NoLock
      <3>1. msg[i] \in Calls /\ Requested(i) = LockOf(msg[i])
        BY DEF TypeOK, Requested
      <3>2. /\ lock' = [lock EXCEPT ![SeatKey(Requested(i))] = Requested(i)]
            /\ granted' = granted \union {Requested(i)}
        BY <2>2 DEF SetIfFree
      <3>3. entitled' = entitled \union {IdemKey(Requested(i))}
        BY <3>2 DEF IdemKey
      <3>4. Reservation!Grant(msg[i])
        BY <2>2, <3>1, <3>2, <3>3 DEF Reservation!Grant, SeatKeyOf, IdemKeyOf
      <3> QED
        BY <3>1, <3>4 DEF Reservation!Next
    <2> QED
      BY <2>1, <2>2 DEF SetIfFree
  <1>5. ASSUME NEW i \in Instances, Crash(i) PROVE UNCHANGED <<lock, granted, booked>>
    BY <1>5 DEF Crash
  <1>6. ASSUME NEW k \in SeatKeys, ExpireLock(k) PROVE Reservation!Next
    BY <1>1, <1>6 DEF ExpireLock
  <1>7. ASSUME NEW k \in IdemKeys, ExpireIdem(k) PROVE UNCHANGED <<lock, granted, booked>>
    BY <1>7 DEF ExpireIdem
  <1> QED
    BY <1>2, <1>3, <1>4, <1>5, <1>6, <1>7 DEF Next, vars

(* Hence the specification implements SeatReservation.                     *)
THEOREM Implementation == Spec => ImplementsReservation
  <1>1. Init => Reservation!Init
    BY DEF Init, Reservation!Init
  <1> QED
    BY <1>1, ReservationStep, LockInvariance, PTL DEF Spec, ImplementsReservation, Reservation!Spec

=============================================================================
