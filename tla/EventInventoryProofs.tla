------------------------ MODULE EventInventoryProofs ------------------------
(* Proofs about EventInventory, for all requests, owners, bookings, numbers *)
(* of tickets and whatever the environment may do.                         *)
EXTENDS EventInventory, TLAPS

-----------------------------------------------------------------------------
(* The inductive invariant.                                                *)

\* An id that was not given out has no row, no tickets taken off and no answer of its own.
Unborn ==
    ~born =>
        /\ row = NoEvent
        /\ takenOff = 0
        /\ cache["byId"] = Empty
        /\ \A p \in Procs : at[p] = "fill" => key[p] # "byId"

\* What a handler is about to write has passed the checks.
WritesAcceptable ==
    \A p \in Procs :
        at[p] = "write" => seen[p] \in Events /\ Acceptable(Patched(seen[p], patch[p]))

\* Only processes that delete keys have keys to delete; at the last step, the pages.
TodoFits ==
    \A p \in Procs :
        /\ at[p] \notin {"sweep", "pages"} => todo[p] = {}
        /\ at[p] = "pages" => todo[p] \subseteq {"upcoming"}

\* The consumer works on a message, and deletes keys after it has taken tickets off.
ConsumerBusy ==
    /\ at[Consumer] \in {"idle", "reduce", "sweep", "pages"}
    /\ at[Consumer] # "idle" => taken \in Bookings /\ inbox[taken] > 0
    /\ at[Consumer] \in {"sweep", "pages"} => deducted[taken] > 0

\* Whether the message in hand has been counted in deducted already.
Counted(b) == IF at[Consumer] \in {"sweep", "pages"} /\ taken = b THEN 1 ELSE 0

\* How often messages sent so often can have been delivered.
MostDeliveries(n, r) == n * (1 + r)

\* A message is held once, and each of its deliveries can take tickets off once.
Deliveries ==
    \A b \in Bookings :
        /\ inbox[b] + resolved[b] <= sent[b]
        /\ deducted[b] + inbox[b] - Counted(b) <= MostDeliveries(sent[b], restarts)

IInv ==
    /\ TypeOK
    /\ Unborn
    /\ WritesAcceptable
    /\ TodoFits
    /\ ConsumerBusy
    /\ Deliveries
    /\ WithinTotal
    /\ TicketsAccounted
    /\ PaidIsNotLost
    /\ StaleHasCause

-----------------------------------------------------------------------------
(* What processes keep to themselves.                                      *)

LEMMA ConstantTypes ==
    /\ Consumer \in Procs /\ Consumer \notin Handlers
    /\ Handlers \subseteq Procs
    /\ \A p \in Procs : p # Consumer => p \in Handlers
    /\ {"all", "byId", "upcoming"} \subseteq Keys /\ Owners \subseteq Keys /\ ReadKeys \subseteq Keys
    /\ ListKeys \subseteq Keys
    /\ NoEvent \in Snapshots /\ Events \subseteq Snapshots
    /\ NoPatch \in PatchType /\ Patches \subseteq PatchType
    /\ Empty \notin Snapshots
BY ConstantsAssumption DEF Procs, Keys, Snapshots, NoPatch, PatchType, ListKeys

\* A row that is there is an event; the others, and what they make cached, are snapshots.
LEMMA RowTypes ==
    ASSUME TypeOK
    PROVE  /\ row # NoEvent => row \in Events
           /\ \A e \in Snapshots : OwnerKey(e) \subseteq Keys
           /\ \A e \in Snapshots, k \in Keys : View(e, k) \in Snapshots
BY ConstantTypes DEF TypeOK, Snapshots, OwnerKey, View, Keys

\* An update that passes the checks makes an event of what it has read.
LEMMA PatchedType ==
    ASSUME NEW e \in Events, NEW q \in PatchType, Acceptable(Patched(e, q))
    PROVE  Patched(e, q) \in Events
BY DEF Events, PatchType, Acceptable, Patched

\* A process goes to a step with these locals, and the step asks no more of them.
GoesWell(p, step, e, k, q, ks) ==
    /\ Goes(p, step, e, k, q, ks)
    /\ step \in {"sweep", "pages"} \/ ks = {}
    /\ step = "pages" => ks \subseteq {"upcoming"}
    /\ step = "write" => e \in Events /\ Acceptable(Patched(e, q))
    /\ step = "fill" /\ k = "byId" => born'
    /\ p = Consumer => step \in {"idle", "reduce", "sweep", "pages"}

SomeGoesWell ==
    \E p \in Procs, step \in Steps, e \in Snapshots, k \in Keys, q \in PatchType, ks \in SUBSET Keys :
        GoesWell(p, step, e, k, q, ks)

\* Steps that end the work of a process, or leave it with keys to delete.
LEMMA GoesWellCases ==
    ASSUME NEW p \in Procs,
           Idle(p) \/ \E ks \in SUBSET Keys : Sweeps(p, ks)
    PROVE  SomeGoesWell
  <1>1. CASE Idle(p)
    <2>1. GoesWell(p, "idle", NoEvent, "all", NoPatch, {})
      BY <1>1 DEF Idle, GoesWell
    <2> QED
      BY <2>1, ConstantTypes DEF SomeGoesWell, Steps
  <1>2. ASSUME NEW ks \in SUBSET Keys, Sweeps(p, ks) PROVE SomeGoesWell
    <2>1. GoesWell(p, "sweep", NoEvent, "all", NoPatch, ks)
      BY <1>2 DEF Sweeps, GoesWell
    <2> QED
      BY <2>1, ConstantTypes DEF SomeGoesWell, Steps
  <1> QED
    BY <1>1, <1>2

\* Every step either leaves the locals alone, forgets them all, or is one of a process.
LEMMA LocalSteps ==
    ASSUME TypeOK, Unborn, TodoFits, [Next]_vars
    PROVE  UNCHANGED procVars \/ Restart \/ SomeGoesWell
  <1>0. \A p \in Procs : todo[p] \subseteq Keys
    BY DEF TypeOK
  <1>1. ASSUME NEW p \in Procs, Invalidate(p) PROVE SomeGoesWell
    <2>1. CASE Sweep(p)
      <3>1. PICK ks \in NextKeys(todo[p]) : Sweeps(p, todo[p] \ ks) \/ GivesUp(p, todo[p])
        BY <2>1 DEF Sweep
      <3> QED
        BY <1>0, <3>1, GoesWellCases DEF GivesUp, Finish
    <2>2. CASE FindPages(p)
      <3>1. CASE Goes(p, "pages", NoEvent, "all", NoPatch, todo[p])
        <4>1. GoesWell(p, "pages", NoEvent, "all", NoPatch, todo[p])
          BY <2>2, <3>1 DEF FindPages, GoesWell
        <4> QED
          BY <1>0, <4>1, ConstantTypes DEF SomeGoesWell, Steps
      <3> QED
        BY <2>2, <3>1, GoesWellCases DEF FindPages, GivesUp, Finish
    <2>3. CASE DeletePages(p)
      BY <2>3, GoesWellCases DEF DeletePages, GivesUp, Finish
    <2> QED
      BY <1>1, <2>1, <2>2, <2>3 DEF Invalidate
  <1>2. ASSUME NEW h \in Handlers, NEW k \in ReadKeys, Get(h, k) PROVE SomeGoesWell
    <2>1. GoesWell(h, "select", NoEvent, k, NoPatch, {})
      BY <1>2, ConstantTypes DEF Get, GoesWell
    <2> QED
      BY <2>1, ConstantTypes DEF SomeGoesWell, Steps
  <1>3. ASSUME NEW h \in Handlers, Select(h) PROVE SomeGoesWell
    <2>1. key[h] \in Keys /\ View(row, key[h]) \in Snapshots /\ h \in Procs
      BY RowTypes, ConstantTypes DEF TypeOK
    <2>2. CASE NotFound(key[h])
      BY <1>3, <2>1, <2>2, GoesWellCases DEF Select
    <2>3. CASE ~NotFound(key[h])
      <3>1. GoesWell(h, "fill", View(row, key[h]), key[h], NoPatch, {})
        BY <1>3, <2>3, ConstantTypes DEF Select, GoesWell, NotFound, Unborn
      <3> QED
        BY <2>1, <3>1, ConstantTypes DEF SomeGoesWell, Steps
    <2> QED
      BY <2>2, <2>3
  <1>4. ASSUME NEW h \in Handlers, Fill(h) PROVE SomeGoesWell
    BY <1>4, GoesWellCases, ConstantTypes DEF Fill
  <1>5. ASSUME NEW h \in Handlers, Create(h) \/ Update(h) \/ Delete(h) PROVE SomeGoesWell
    <2>1. h \in Procs /\ seen[h] \in Snapshots
      BY ConstantTypes DEF TypeOK
    <2>2. CASE Create(h)
      <3>1. OwnerKey(row') \subseteq Keys
        BY ConstantTypes DEF OwnerKey
      <3>2. {"all", "upcoming"} \union OwnerKey(row') \in SUBSET Keys
        BY <3>1, ConstantTypes
      <3>3. Sweeps(h, {"all", "upcoming"} \union OwnerKey(row'))
        BY <2>2 DEF Create
      <3> HIDE DEF OwnerKey
      <3> QED
        BY <2>1, <3>2, <3>3, GoesWellCases
    <2>3. CASE Update(h)
      <3>1. \A e : OwnerKey(e) \subseteq Keys
        BY ConstantTypes DEF OwnerKey
      <3>2. SweptByUpdate(seen[h], row') \in SUBSET Keys /\ ListKeys \union OwnerKey(seen[h]) \in SUBSET Keys
        BY <3>1, ConstantTypes DEF SweptByUpdate
      <3>3. Sweeps(h, SweptByUpdate(seen[h], row')) \/ Sweeps(h, ListKeys \union OwnerKey(seen[h])) \/ Idle(h)
        BY <2>3 DEF Update
      <3> QED
        BY <2>1, <3>2, <3>3, GoesWellCases
    <2>4. CASE Delete(h)
      <3>1. ListKeys \union {"upcoming"} \union OwnerKey(row) \in SUBSET Keys
        BY ConstantTypes DEF OwnerKey
      <3>2. Sweeps(h, ListKeys \union {"upcoming"} \union OwnerKey(row))
        BY <2>4 DEF Delete
      <3> QED
        BY <2>1, <3>1, <3>2, GoesWellCases
    <2> QED
      BY <1>5, <2>2, <2>3, <2>4
  <1>6. ASSUME NEW h \in Handlers, NEW q \in Patches, ReadForUpdate(h, q) PROVE SomeGoesWell
    <2>1. GoesWell(h, "write", row, "all", q, {})
      BY <1>6, ConstantTypes, RowTypes DEF ReadForUpdate, GoesWell
    <2> QED
      BY <2>1, ConstantTypes DEF SomeGoesWell, Steps, TypeOK
  <1>7. ASSUME NEW b \in Bookings, FetchBooking(b) PROVE UNCHANGED procVars \/ SomeGoesWell
    <2>1. CASE Goes(Consumer, "reduce", NoEvent, "all", NoPatch, {})
      <3>1. GoesWell(Consumer, "reduce", NoEvent, "all", NoPatch, {})
        BY <2>1 DEF GoesWell
      <3> QED
        BY <3>1, ConstantTypes DEF SomeGoesWell, Steps
    <2> QED
      BY <1>7, <2>1 DEF FetchBooking
  <1>8. CASE Reduce
    <2>1. ListKeys \union OwnerKey(row) \in SUBSET Keys
      BY ConstantTypes DEF OwnerKey
    <2>2. Sweeps(Consumer, ListKeys \union OwnerKey(row)) \/ Idle(Consumer)
      BY <1>8 DEF Reduce, Finish
    <2> QED
      BY <2>1, <2>2, ConstantTypes, GoesWellCases
  <1>9. CASE Commit \/ (\E b \in Bookings : Book(b) \/ Send(b)) \/ (\E k \in Keys : Expire(k)) \/ UNCHANGED vars
    BY <1>9 DEF Commit, Book, Send, Expire, vars, procVars
  <1> QED
    BY <1>1, <1>2, <1>3, <1>4, <1>5, <1>6, <1>7, <1>8, <1>9, ConstantTypes
    DEF Next, HandlerStep, ConsumerStep

-----------------------------------------------------------------------------
(* Types, and what the locals of the processes promise.                    *)

\* What a process that goes to a step has there; the others keep what they have.
LEMMA GoesFacts ==
    ASSUME TypeOK, NEW p \in Procs, NEW step \in Steps, NEW e \in Snapshots, NEW k \in Keys,
           NEW q \in PatchType, NEW ks \in SUBSET Keys, Goes(p, step, e, k, q, ks)
    PROVE  /\ at' \in [Procs -> Steps] /\ seen' \in [Procs -> Snapshots] /\ key' \in [Procs -> Keys]
           /\ patch' \in [Procs -> PatchType] /\ todo' \in [Procs -> SUBSET Keys]
           /\ at'[p] = step /\ seen'[p] = e /\ key'[p] = k /\ patch'[p] = q /\ todo'[p] = ks
           /\ \A r \in Procs \ {p} :
                 /\ at'[r] = at[r] /\ seen'[r] = seen[r] /\ key'[r] = key[r]
                 /\ patch'[r] = patch[r] /\ todo'[r] = todo[r]
BY DEF TypeOK, Goes

\* After a restart nobody is anywhere.
LEMMA RestartFacts ==
    ASSUME Restart
    PROVE  /\ at' \in [Procs -> Steps] /\ seen' \in [Procs -> Snapshots] /\ key' \in [Procs -> Keys]
           /\ patch' \in [Procs -> PatchType] /\ todo' \in [Procs -> SUBSET Keys]
           /\ \A p \in Procs : at'[p] = "idle" /\ todo'[p] = {}
BY ConstantTypes DEF Restart, Steps

LEMMA LocalsStep ==
    TypeOK /\ Unborn /\ TodoFits /\ WritesAcceptable /\ [Next]_vars
    => /\ at' \in [Procs -> Steps] /\ seen' \in [Procs -> Snapshots] /\ key' \in [Procs -> Keys]
       /\ patch' \in [Procs -> PatchType] /\ todo' \in [Procs -> SUBSET Keys]
       /\ TodoFits' /\ WritesAcceptable'
       /\ at'[Consumer] \in {"idle", "reduce", "sweep", "pages"} \/ at'[Consumer] = at[Consumer]
       /\ ~born' => \A p \in Procs : at'[p] = "fill" => key'[p] # "byId" \/ (at[p] = "fill" /\ key[p] = "byId")
  <1> SUFFICES ASSUME TypeOK, Unborn, TodoFits, WritesAcceptable, [Next]_vars
               PROVE  /\ at' \in [Procs -> Steps] /\ seen' \in [Procs -> Snapshots] /\ key' \in [Procs -> Keys]
                      /\ patch' \in [Procs -> PatchType] /\ todo' \in [Procs -> SUBSET Keys]
                      /\ TodoFits' /\ WritesAcceptable'
                      /\ at'[Consumer] \in {"idle", "reduce", "sweep", "pages"} \/ at'[Consumer] = at[Consumer]
                      /\ ~born' => \A p \in Procs : at'[p] = "fill" => key'[p] # "byId" \/ (at[p] = "fill" /\ key[p] = "byId")
    OBVIOUS
  <1>1. CASE UNCHANGED procVars
    BY <1>1 DEF procVars, TypeOK, TodoFits, WritesAcceptable
  <1>2. CASE Restart
    BY <1>2, RestartFacts, ConstantTypes DEF TodoFits, WritesAcceptable
  <1>3. ASSUME NEW p \in Procs, NEW step \in Steps, NEW e \in Snapshots, NEW k \in Keys,
               NEW q \in PatchType, NEW ks \in SUBSET Keys, GoesWell(p, step, e, k, q, ks)
        PROVE  /\ at' \in [Procs -> Steps] /\ seen' \in [Procs -> Snapshots] /\ key' \in [Procs -> Keys]
               /\ patch' \in [Procs -> PatchType] /\ todo' \in [Procs -> SUBSET Keys]
               /\ TodoFits' /\ WritesAcceptable'
               /\ at'[Consumer] \in {"idle", "reduce", "sweep", "pages"} \/ at'[Consumer] = at[Consumer]
               /\ ~born' => \A r \in Procs : at'[r] = "fill" => key'[r] # "byId" \/ (at[r] = "fill" /\ key[r] = "byId")
    <2>0. Goes(p, step, e, k, q, ks)
      BY <1>3 DEF GoesWell
    <2>1. /\ at' \in [Procs -> Steps] /\ seen' \in [Procs -> Snapshots] /\ key' \in [Procs -> Keys]
          /\ patch' \in [Procs -> PatchType] /\ todo' \in [Procs -> SUBSET Keys]
          /\ at'[p] = step /\ seen'[p] = e /\ key'[p] = k /\ patch'[p] = q /\ todo'[p] = ks
          /\ \A r \in Procs \ {p} :
                /\ at'[r] = at[r] /\ seen'[r] = seen[r] /\ key'[r] = key[r]
                /\ patch'[r] = patch[r] /\ todo'[r] = todo[r]
      BY <2>0, GoesFacts
    <2>2. TodoFits'
      BY <1>3, <2>1 DEF TodoFits, GoesWell
    <2>3. WritesAcceptable'
      BY <1>3, <2>1 DEF WritesAcceptable, GoesWell
    <2>4. at'[Consumer] \in {"idle", "reduce", "sweep", "pages"} \/ at'[Consumer] = at[Consumer]
      BY <1>3, <2>1, ConstantTypes DEF GoesWell
    <2>5. ~born' => \A r \in Procs : at'[r] = "fill" => key'[r] # "byId" \/ (at[r] = "fill" /\ key[r] = "byId")
      BY <1>3, <2>1 DEF GoesWell
    <2> QED
      BY <2>1, <2>2, <2>3, <2>4, <2>5
  <1> QED
    BY <1>1, <1>2, <1>3, LocalSteps DEF SomeGoesWell

\* The row of the event changes in four actions only.
LEMMA RowSteps ==
    ASSUME [Next]_vars
    PROVE  \/ UNCHANGED <<row, born, takenOff, adrift>>
           \/ \E h \in Handlers : Create(h) \/ Update(h) \/ Delete(h)
           \/ Reduce
BY DEF Next, HandlerStep, ConsumerStep, Invalidate, Select, Fill, Sweep, FindPages, DeletePages, Get,
       ReadForUpdate, FetchBooking, Commit, Book, Send, Expire, Restart, vars, countVars

\* The row has its type, its tickets are within the total and accounted for.
LEMMA RowStep ==
    TypeOK /\ Unborn /\ WritesAcceptable /\ ConsumerBusy /\ WithinTotal /\ TicketsAccounted /\ [Next]_vars
    => /\ row' \in Snapshots /\ born' \in BOOLEAN /\ takenOff' \in Nat /\ adrift' \in BOOLEAN
       /\ WithinTotal' /\ TicketsAccounted'
       /\ ~born' => row' = NoEvent /\ takenOff' = 0 /\ ~born
  <1> SUFFICES ASSUME TypeOK, Unborn, WritesAcceptable, ConsumerBusy, WithinTotal, TicketsAccounted, [Next]_vars
               PROVE  /\ row' \in Snapshots /\ born' \in BOOLEAN /\ takenOff' \in Nat /\ adrift' \in BOOLEAN
                      /\ WithinTotal' /\ TicketsAccounted'
                      /\ ~born' => row' = NoEvent /\ takenOff' = 0 /\ ~born
    OBVIOUS
  <1>0. row # NoEvent => born /\ row \in Events
    BY RowTypes DEF Unborn
  <1>1. CASE UNCHANGED <<row, born, takenOff, adrift>>
    BY <1>1 DEF TypeOK, Unborn, WithinTotal, TicketsAccounted
  <1>2. ASSUME NEW h \in Handlers, Create(h)
        PROVE  /\ row' \in Snapshots /\ born' /\ UNCHANGED <<takenOff, adrift>>
               /\ WithinTotal' /\ TicketsAccounted'
    <2>1. PICK t \in Totals, o \in OwnerIds :
             ValidTotal(t) /\ row' = [total |-> t, available |-> t, owner |-> o]
      BY <1>2 DEF Create
    <2>2. t \in Nat /\ row' \in Events
      BY <2>1, ConstantsAssumption DEF ValidTotal, Events
    <2>3. takenOff = 0 /\ born' /\ UNCHANGED <<takenOff, adrift>>
      BY <1>2 DEF Create, Unborn, countVars
    <2> QED
      BY <2>1, <2>2, <2>3, ConstantTypes DEF WithinTotal, TicketsAccounted
  <1>3. ASSUME NEW h \in Handlers, Update(h), row # NoEvent, row' = Patched(seen[h], patch[h]),
               adrift' = (adrift \/ SetsNumbers(patch[h]) \/ row # seen[h])
        PROVE  row' \in Snapshots /\ WithinTotal' /\ TicketsAccounted' /\ UNCHANGED <<born, takenOff>>
    <2>1. h \in Procs /\ seen[h] \in Events /\ Acceptable(row') /\ patch[h] \in PatchType
      BY <1>3, ConstantTypes DEF Update, WritesAcceptable, TypeOK
    <2>2. row' \in Events
      BY <1>3, <2>1, PatchedType
    <2>3. WithinTotal'
      BY <2>1, <2>2 DEF WithinTotal, Acceptable
    <2>4. ~adrift' => ~adrift /\ ~SetsNumbers(patch[h]) /\ row = seen[h]
      BY <1>3
    <2>5. UNCHANGED <<born, takenOff>>
      BY <1>3 DEF Update
    <2>6. TicketsAccounted'
      BY <1>3, <2>1, <2>4, <2>5 DEF TicketsAccounted, SetsNumbers, Patched
    <2> QED
      BY <2>2, <2>3, <2>5, <2>6, ConstantTypes
  <1>4. ASSUME NEW h \in Handlers, Update(h), UNCHANGED <<row, adrift>>
        PROVE  UNCHANGED <<row, born, takenOff, adrift>>
    BY <1>4 DEF Update
  <1>5. ASSUME NEW h \in Handlers, Delete(h)
        PROVE  row' = NoEvent /\ row # NoEvent /\ UNCHANGED <<born, takenOff, adrift>>
    BY <1>5 DEF Delete, countVars
  <1>6. CASE Reduce /\ UNCHANGED <<row, takenOff>>
    BY <1>6, <1>1 DEF Reduce
  <1>7. CASE Reduce /\ Suffices(TicketsOf[taken]) /\ row' = [row EXCEPT !.available = @ - TicketsOf[taken]]
             /\ takenOff' = takenOff + TicketsOf[taken]
    <2>1. taken \in Bookings /\ TicketsOf[taken] \in Nat /\ row \in Events /\ row.available >= TicketsOf[taken] /\ born
      BY <1>0, <1>7, ConstantsAssumption DEF Reduce, ConsumerBusy, Suffices
    <2>2. /\ row'.available = row.available - TicketsOf[taken] /\ row'.total = row.total
          /\ row' \in Events /\ row # NoEvent
      BY <1>7, <2>1 DEF Events, Suffices
    <2>3. UNCHANGED <<born, adrift>>
      BY <1>7 DEF Reduce
    <2> QED
      BY <1>7, <2>1, <2>2, <2>3, ConstantTypes DEF WithinTotal, TicketsAccounted, TypeOK, Events
  <1>8. ASSUME NEW h \in Handlers, Update(h) PROVE adrift' \in BOOLEAN
    BY <1>8 DEF Update, TypeOK
  <1>9. ASSUME NEW h \in Handlers, Update(h)
        PROVE  \/ UNCHANGED <<row, adrift>>
               \/ /\ row # NoEvent /\ row' = Patched(seen[h], patch[h])
                  /\ adrift' = (adrift \/ SetsNumbers(patch[h]) \/ row # seen[h])
    BY <1>9 DEF Update
  <1>10. ASSUME Reduce
         PROVE  \/ UNCHANGED <<row, takenOff>>
                \/ /\ Suffices(TicketsOf[taken]) /\ row' = [row EXCEPT !.available = @ - TicketsOf[taken]]
                   /\ takenOff' = takenOff + TicketsOf[taken]
    BY <1>10 DEF Reduce
  <1>11. ASSUME NEW h \in Handlers, Create(h) \/ Update(h) \/ Delete(h)
         PROVE  /\ row' \in Snapshots /\ born' \in BOOLEAN /\ takenOff' \in Nat /\ adrift' \in BOOLEAN
                /\ WithinTotal' /\ TicketsAccounted'
                /\ ~born' => row' = NoEvent /\ takenOff' = 0 /\ ~born
    <2>1. CASE Create(h)
      BY <1>2, <2>1 DEF TypeOK
    <2>2. CASE Delete(h)
      BY <1>0, <1>5, <2>2, ConstantTypes DEF TypeOK, WithinTotal, TicketsAccounted
    <2>3. CASE Update(h)
      BY <1>0, <1>1, <1>3, <1>4, <1>8, <1>9, <2>3 DEF TypeOK
    <2> QED
      BY <1>11, <2>1, <2>2, <2>3
  <1> QED
    BY <1>1, <1>6, <1>7, <1>10, <1>11, RowSteps

-----------------------------------------------------------------------------
(* The messages of the topic payments.                                     *)

messageVars == <<inbox, resolved, taken, sent, deducted, givenUp, restarts>>

\* The consumer is done with the message in hand.
Done ==
    /\ at'[Consumer] = "idle"
    /\ inbox' = [inbox EXCEPT ![taken] = @ - 1]
    /\ resolved' = [resolved EXCEPT ![taken] = @ + 1]
    /\ taken' = NoBooking

\* It goes on with it, after the UPDATE.
GoesOn == at'[Consumer] \in {"sweep", "pages"} /\ UNCHANGED <<inbox, resolved, taken>>

LEMMA GoesAt ==
    ASSUME TypeOK, NEW p \in Procs, NEW step, NEW e, NEW k, NEW q, NEW ks, Goes(p, step, e, k, q, ks)
    PROVE  at'[p] = step /\ \A r \in Procs \ {p} : at'[r] = at[r]
BY DEF TypeOK, Goes

\* A process that deletes keys deletes the next or is finished.
LEMMA InvalidateSteps ==
    ASSUME TypeOK, NEW p \in Procs, Invalidate(p)
    PROVE  /\ UNCHANGED <<sent, deducted, givenUp, restarts>>
           /\ at[p] \in {"sweep", "pages"}
           /\ \/ Finish(p)
              \/ at'[p] \in {"sweep", "pages"} /\ UNCHANGED msgVars
           /\ \A r \in Procs \ {p} : at'[r] = at[r]
  <1>1. UNCHANGED <<sent, deducted, givenUp, restarts>>
    BY DEF Invalidate, Sweep, FindPages, DeletePages, payVars, histVars
  <1>2. at[p] \in {"sweep", "pages"}
    BY DEF Invalidate, Sweep, FindPages, DeletePages
  <1>3. \/ Finish(p)
        \/ UNCHANGED msgVars /\ Goes(p, "pages", NoEvent, "all", NoPatch, todo[p])
        \/ UNCHANGED msgVars /\ \E ks : Goes(p, "sweep", NoEvent, "all", NoPatch, ks)
    BY DEF Invalidate, Sweep, FindPages, DeletePages, GivesUp, Sweeps
  <1>4. CASE Finish(p)
    BY <1>1, <1>2, <1>4, GoesAt DEF Finish, Idle
  <1>5. CASE UNCHANGED msgVars /\ Goes(p, "pages", NoEvent, "all", NoPatch, todo[p])
    BY <1>1, <1>2, <1>5, GoesAt
  <1>6. ASSUME NEW ks, UNCHANGED msgVars, Goes(p, "sweep", NoEvent, "all", NoPatch, ks)
        PROVE  at'[p] \in {"sweep", "pages"} /\ \A r \in Procs \ {p} : at'[r] = at[r]
    BY <1>6, GoesAt
  <1> QED
    BY <1>1, <1>2, <1>3, <1>4, <1>5, <1>6

\* What a step does to the messages and to the consumer.
MessageChange ==
    \/ UNCHANGED messageVars /\ at'[Consumer] = at[Consumer]
    \/ \E b \in Bookings :
          /\ sent' = [sent EXCEPT ![b] = @ + 1]
          /\ inbox' = [inbox EXCEPT ![b] = @ + 1]
          /\ UNCHANGED <<resolved, taken, deducted, givenUp, restarts>> /\ at'[Consumer] = at[Consumer]
    \/ \E b \in Bookings :
          /\ at[Consumer] = "idle" /\ inbox[b] > 0 /\ UNCHANGED <<sent, deducted, restarts>>
          /\ \/ taken' = b /\ at'[Consumer] = "reduce" /\ UNCHANGED <<inbox, resolved, givenUp>>
             \/ /\ at'[Consumer] = at[Consumer] /\ UNCHANGED taken
                /\ inbox' = [inbox EXCEPT ![b] = @ - 1]
                /\ resolved' = [resolved EXCEPT ![b] = @ + 1]
                /\ givenUp' = givenUp \union {b}
    \/ /\ at[Consumer] = "reduce" /\ UNCHANGED <<sent, restarts>>
       /\ \/ GoesOn /\ deducted' = [deducted EXCEPT ![taken] = @ + 1] /\ UNCHANGED givenUp
          \/ Done /\ givenUp' = givenUp \union {taken} /\ UNCHANGED deducted
    \/ /\ at[Consumer] \in {"sweep", "pages"} /\ UNCHANGED <<sent, deducted, givenUp, restarts>>
       /\ Done \/ GoesOn
    \/ /\ at[Consumer] = "idle" /\ at'[Consumer] = "idle"
       /\ resolved' = [b \in Bookings |-> 0]
       /\ UNCHANGED <<inbox, taken, sent, deducted, givenUp, restarts>>
    \/ /\ at'[Consumer] = "idle" /\ taken' = NoBooking /\ restarts' = restarts + 1
       /\ inbox' = [b \in Bookings |-> inbox[b] + resolved[b]]
       /\ resolved' = [b \in Bookings |-> 0]
       /\ UNCHANGED <<sent, deducted, givenUp>>

LEMMA MessageSteps == ASSUME TypeOK, [Next]_vars PROVE MessageChange
  <1>0. Consumer \in Procs /\ Consumer \notin Handlers /\ Handlers \subseteq Procs
    BY ConstantTypes
  <1>1. ASSUME NEW h \in Handlers, HandlerStep(h) \/ Create(h) \/ Delete(h)
        PROVE  UNCHANGED messageVars /\ at'[Consumer] = at[Consumer]
    <2>1. CASE Invalidate(h)
      BY <1>0, <2>1, InvalidateSteps DEF messageVars, msgVars, Finish
    <2>2. CASE Select(h) \/ Fill(h) \/ Update(h) \/ Create(h) \/ Delete(h)
      <3>1. UNCHANGED messageVars
        BY <2>2 DEF Select, Fill, Update, Create, Delete, messageVars, msgVars, payVars, histVars
      <3>2. \E step, e, k, q, ks : Goes(h, step, e, k, q, ks)
        BY <2>2 DEF Select, Fill, Update, Create, Delete, Idle, Sweeps
      <3> QED
        BY <1>0, <3>1, <3>2, GoesAt
    <2> QED
      BY <1>1, <2>1, <2>2 DEF HandlerStep
  <1>2. ASSUME NEW h \in Handlers,
               (\E k \in ReadKeys : Get(h, k)) \/ (\E q \in Patches : ReadForUpdate(h, q))
        PROVE  UNCHANGED messageVars /\ at'[Consumer] = at[Consumer]
    <2>1. UNCHANGED messageVars
      BY <1>2 DEF Get, ReadForUpdate, messageVars, msgVars, payVars, histVars
    <2>2. \E step, e, k, q, ks : Goes(h, step, e, k, q, ks)
      BY <1>2 DEF Get, ReadForUpdate
    <2> QED
      BY <1>0, <2>1, <2>2, GoesAt
  <1>3. ASSUME NEW b \in Bookings, Send(b) PROVE MessageChange
    BY <1>3 DEF Send, MessageChange, procVars, histVars
  <1>4. ASSUME NEW b \in Bookings, FetchBooking(b) PROVE MessageChange
    <2>1. CASE taken' = b /\ Goes(Consumer, "reduce", NoEvent, "all", NoPatch, {}) /\ UNCHANGED <<inbox, resolved, givenUp>>
      BY <1>0, <1>4, <2>1, GoesAt DEF FetchBooking, MessageChange, payVars
    <2>2. CASE UNCHANGED procVars /\ UNCHANGED taken /\ inbox' = [inbox EXCEPT ![b] = @ - 1]
               /\ resolved' = [resolved EXCEPT ![b] = @ + 1] /\ givenUp' = givenUp \union {b}
      BY <1>4, <2>2 DEF FetchBooking, MessageChange, payVars, procVars
    <2> QED
      BY <1>4, <2>1, <2>2 DEF FetchBooking
  <1>5. CASE Reduce
    <2>1. at[Consumer] = "reduce" /\ UNCHANGED <<sent, restarts>>
      BY <1>5 DEF Reduce, payVars
    <2>2. CASE Finish(Consumer) /\ givenUp' = givenUp \union {taken} /\ UNCHANGED deducted
      BY <1>0, <2>1, <2>2, GoesAt DEF Finish, Idle, Done, MessageChange
    <2>3. CASE /\ Sweeps(Consumer, ListKeys \union OwnerKey(row)) /\ UNCHANGED <<msgVars, givenUp>>
               /\ deducted' = [deducted EXCEPT ![taken] = @ + 1]
      BY <1>0, <2>1, <2>3, GoesAt DEF Sweeps, GoesOn, MessageChange, msgVars
    <2> QED
      BY <1>5, <2>2, <2>3 DEF Reduce
  <1>6. CASE Invalidate(Consumer)
    <2>1. /\ UNCHANGED <<sent, deducted, givenUp, restarts>> /\ at[Consumer] \in {"sweep", "pages"}
          /\ Finish(Consumer) \/ (at'[Consumer] \in {"sweep", "pages"} /\ UNCHANGED msgVars)
      BY <1>0, <1>6, InvalidateSteps
    <2>2. Finish(Consumer) => Done
      BY <1>0, GoesAt DEF Finish, Idle, Done
    <2> QED
      BY <2>1, <2>2 DEF MessageChange, GoesOn, msgVars
  <1>7. CASE Commit
    BY <1>7 DEF Commit, MessageChange, procVars, payVars, histVars
  <1>8. CASE Restart
    BY <1>0, <1>8, RestartFacts DEF Restart, MessageChange, payVars, histVars
  <1>9. CASE (\E b \in Bookings : Book(b)) \/ (\E k \in Keys : Expire(k)) \/ UNCHANGED vars
    BY <1>9 DEF Book, Expire, vars, messageVars, procVars, payVars, msgVars, histVars, MessageChange
  <1> QED
    BY <1>1, <1>2, <1>3, <1>4, <1>5, <1>6, <1>7, <1>8, <1>9 DEF Next, ConsumerStep, MessageChange

\* Deliveries in numbers.
LEMMA MostDeliveriesFacts ==
    ASSUME NEW n \in Nat, NEW r \in Nat
    PROVE  /\ MostDeliveries(n, r) \in Nat
           /\ MostDeliveries(n + 1, r) >= MostDeliveries(n, r) + 1
           /\ MostDeliveries(n, r + 1) = MostDeliveries(n, r) + n
BY DEF MostDeliveries

MessageTypes ==
    /\ sent \in [Bookings -> Nat]
    /\ inbox \in [Bookings -> Nat]
    /\ resolved \in [Bookings -> Nat]
    /\ taken \in Bookings \union {NoBooking}
    /\ restarts \in Nat
    /\ deducted \in [Bookings -> Nat]
    /\ givenUp \subseteq Bookings

\* Messages keep their types and are neither lost nor delivered more often than that.
LEMMA MessagesStep ==
    ASSUME MessageTypes, ConsumerBusy, Deliveries, PaidIsNotLost, MessageChange
    PROVE  MessageTypes' /\ ConsumerBusy' /\ Deliveries' /\ PaidIsNotLost'
  <1>0. ASSUME NEW c \in Bookings
        PROVE  /\ inbox[c] \in Nat /\ resolved[c] \in Nat /\ sent[c] \in Nat /\ deducted[c] \in Nat /\ restarts \in Nat
               /\ MostDeliveries(sent[c], restarts) \in Nat
               /\ inbox[c] + resolved[c] <= sent[c]
               /\ deducted[c] + inbox[c] - Counted(c) <= MostDeliveries(sent[c], restarts)
               /\ Counted(c) \in {0, 1} /\ Counted(c) <= inbox[c]
    <2>1. inbox[c] \in Nat /\ resolved[c] \in Nat /\ sent[c] \in Nat /\ deducted[c] \in Nat /\ restarts \in Nat
      BY DEF MessageTypes
    <2>2. MostDeliveries(sent[c], restarts) \in Nat
      BY <2>1, MostDeliveriesFacts
    <2>3. Counted(c) \in {0, 1} /\ Counted(c) <= inbox[c]
      BY <2>1 DEF Counted, ConsumerBusy
    <2> QED
      BY <2>1, <2>2, <2>3 DEF Deliveries
  <1>1. CASE UNCHANGED messageVars /\ at'[Consumer] = at[Consumer]
    BY <1>1 DEF messageVars, MessageTypes, ConsumerBusy, Deliveries, PaidIsNotLost, Counted
  <1>2. ASSUME NEW b \in Bookings,
               sent' = [sent EXCEPT ![b] = @ + 1],
               inbox' = [inbox EXCEPT ![b] = @ + 1],
               UNCHANGED <<resolved, taken, deducted, givenUp, restarts>>, at'[Consumer] = at[Consumer]
        PROVE  MessageTypes' /\ ConsumerBusy' /\ Deliveries' /\ PaidIsNotLost'
    <2>1. MessageTypes' /\ ConsumerBusy' /\ PaidIsNotLost'
      BY <1>2 DEF MessageTypes, ConsumerBusy, PaidIsNotLost
    <2>2. ASSUME NEW c \in Bookings
          PROVE  /\ inbox'[c] + resolved'[c] <= sent'[c]
                 /\ deducted'[c] + inbox'[c] - Counted(c)' <= MostDeliveries(sent'[c], restarts')
      <3>1. /\ inbox'[c] = IF c = b THEN inbox[c] + 1 ELSE inbox[c]
            /\ sent'[c] = IF c = b THEN sent[c] + 1 ELSE sent[c]
            /\ deducted'[c] = deducted[c] /\ resolved'[c] = resolved[c] /\ restarts' = restarts
        BY <1>2 DEF MessageTypes
      <3>2. Counted(c)' = Counted(c)
        BY <1>2 DEF Counted
      <3>3. MostDeliveries(sent[c] + 1, restarts) >= MostDeliveries(sent[c], restarts) + 1
        BY <1>0, MostDeliveriesFacts
      <3>4. MostDeliveries(sent[c] + 1, restarts) \in Nat
        <4>1. sent[c] + 1 \in Nat /\ restarts \in Nat
          BY <1>0
        <4> QED
          BY <4>1, MostDeliveriesFacts
      <3>5. CASE c = b
        BY <1>0, <3>1, <3>2, <3>3, <3>4, <3>5
      <3>6. CASE c # b
        BY <1>0, <3>1, <3>2, <3>6
      <3> QED
        BY <3>5, <3>6
    <2> QED
      BY <2>1, <2>2 DEF Deliveries
  <1>3. ASSUME NEW b \in Bookings, at[Consumer] = "idle", inbox[b] > 0, UNCHANGED <<sent, deducted, restarts>>,
               taken' = b, at'[Consumer] = "reduce", UNCHANGED <<inbox, resolved, givenUp>>
        PROVE  MessageTypes' /\ ConsumerBusy' /\ Deliveries' /\ PaidIsNotLost'
    BY <1>3 DEF MessageTypes, ConsumerBusy, Deliveries, PaidIsNotLost, Counted
  <1>4. ASSUME NEW b \in Bookings, at[Consumer] = "idle", inbox[b] > 0, UNCHANGED <<sent, deducted, restarts>>,
               at'[Consumer] = at[Consumer], UNCHANGED taken,
               inbox' = [inbox EXCEPT ![b] = @ - 1], resolved' = [resolved EXCEPT ![b] = @ + 1],
               givenUp' = givenUp \union {b}
        PROVE  MessageTypes' /\ ConsumerBusy' /\ Deliveries' /\ PaidIsNotLost'
    <2>1. MessageTypes' /\ ConsumerBusy' /\ PaidIsNotLost'
      BY <1>4 DEF MessageTypes, ConsumerBusy, PaidIsNotLost
    <2>2. ASSUME NEW c \in Bookings
          PROVE  /\ inbox'[c] + resolved'[c] <= sent'[c]
                 /\ deducted'[c] + inbox'[c] - Counted(c)' <= MostDeliveries(sent'[c], restarts')
      <3>1. /\ inbox'[c] = IF c = b THEN inbox[c] - 1 ELSE inbox[c]
            /\ resolved'[c] = IF c = b THEN resolved[c] + 1 ELSE resolved[c]
            /\ deducted'[c] = deducted[c] /\ sent'[c] = sent[c] /\ restarts' = restarts
        BY <1>4 DEF MessageTypes
      <3>2. Counted(c)' = Counted(c)
        BY <1>4 DEF Counted
      <3> QED
        BY <1>0, <3>1, <3>2
    <2> QED
      BY <2>1, <2>2 DEF Deliveries
  <1>5. CASE /\ at[Consumer] = "reduce" /\ UNCHANGED <<sent, restarts, givenUp>>
             /\ GoesOn /\ deducted' = [deducted EXCEPT ![taken] = @ + 1]
    <2>1. MessageTypes' /\ ConsumerBusy' /\ PaidIsNotLost'
      BY <1>5 DEF MessageTypes, ConsumerBusy, PaidIsNotLost, GoesOn
    <2>2. ASSUME NEW c \in Bookings
          PROVE  /\ inbox'[c] + resolved'[c] <= sent'[c]
                 /\ deducted'[c] + inbox'[c] - Counted(c)' <= MostDeliveries(sent'[c], restarts')
      <3>0. taken \in Bookings
        BY <1>5 DEF ConsumerBusy
      <3>1. /\ deducted'[c] = IF c = taken THEN deducted[c] + 1 ELSE deducted[c]
            /\ inbox'[c] = inbox[c] /\ resolved'[c] = resolved[c] /\ sent'[c] = sent[c] /\ restarts' = restarts
        BY <1>5, <3>0 DEF MessageTypes, GoesOn
      <3>2. Counted(c) = 0 /\ Counted(c)' = IF c = taken THEN 1 ELSE 0
        BY <1>5 DEF Counted, GoesOn
      <3> QED
        BY <1>0, <3>1, <3>2
    <2> QED
      BY <2>1, <2>2 DEF Deliveries
  <1>6. CASE /\ Done /\ UNCHANGED <<sent, deducted, restarts>>
             /\ \/ at[Consumer] = "reduce" /\ givenUp' = givenUp \union {taken}
                \/ at[Consumer] \in {"sweep", "pages"} /\ UNCHANGED givenUp
    <2>0. taken \in Bookings /\ inbox[taken] > 0
      BY <1>6 DEF ConsumerBusy
    <2>1. MessageTypes' /\ ConsumerBusy'
      BY <1>6, <2>0 DEF MessageTypes, ConsumerBusy, Done
    <2>2. PaidIsNotLost'
      BY <1>6, <2>0 DEF MessageTypes, ConsumerBusy, PaidIsNotLost, Done
    <2>3. ASSUME NEW c \in Bookings
          PROVE  /\ inbox'[c] + resolved'[c] <= sent'[c]
                 /\ deducted'[c] + inbox'[c] - Counted(c)' <= MostDeliveries(sent'[c], restarts')
      <3>1. /\ inbox'[c] = IF c = taken THEN inbox[c] - 1 ELSE inbox[c]
            /\ resolved'[c] = IF c = taken THEN resolved[c] + 1 ELSE resolved[c]
            /\ deducted'[c] = deducted[c] /\ sent'[c] = sent[c] /\ restarts' = restarts
        BY <1>6 DEF Done, MessageTypes
      <3>2. Counted(c)' = 0 /\ (c # taken => Counted(c) = 0)
        BY <1>6 DEF Counted, Done
      <3> QED
        BY <1>0, <3>1, <3>2
    <2> QED
      BY <2>1, <2>2, <2>3 DEF Deliveries
  <1>7. CASE at[Consumer] \in {"sweep", "pages"} /\ GoesOn /\ UNCHANGED <<sent, deducted, givenUp, restarts>>
    BY <1>7 DEF MessageTypes, ConsumerBusy, Deliveries, PaidIsNotLost, Counted, GoesOn
  <1>8. CASE /\ at[Consumer] = "idle" /\ at'[Consumer] = "idle" /\ resolved' = [b \in Bookings |-> 0]
             /\ UNCHANGED <<inbox, taken, sent, deducted, givenUp, restarts>>
    BY <1>8 DEF MessageTypes, ConsumerBusy, Deliveries, PaidIsNotLost, Counted
  <1>9. CASE /\ at'[Consumer] = "idle" /\ taken' = NoBooking /\ restarts' = restarts + 1
             /\ inbox' = [b \in Bookings |-> inbox[b] + resolved[b]]
             /\ resolved' = [b \in Bookings |-> 0]
             /\ UNCHANGED <<sent, deducted, givenUp>>
    <2>1. MessageTypes' /\ ConsumerBusy' /\ PaidIsNotLost'
      BY <1>9 DEF MessageTypes, ConsumerBusy, PaidIsNotLost
    <2>2. ASSUME NEW c \in Bookings
          PROVE  /\ inbox'[c] + resolved'[c] <= sent'[c]
                 /\ deducted'[c] + inbox'[c] - Counted(c)' <= MostDeliveries(sent'[c], restarts')
      <3>1. MostDeliveries(sent[c], restarts + 1) = MostDeliveries(sent[c], restarts) + sent[c]
        BY <1>0, MostDeliveriesFacts
      <3>2. /\ inbox'[c] = inbox[c] + resolved[c] /\ resolved'[c] = 0 /\ deducted'[c] = deducted[c]
            /\ sent'[c] = sent[c] /\ restarts' = restarts + 1 /\ Counted(c)' = 0
        BY <1>9 DEF Counted
      <3>3. deducted[c] <= MostDeliveries(sent[c], restarts)
        BY <1>0
      <3>4. inbox'[c] + resolved'[c] <= sent'[c]
        BY <1>0, <3>2
      <3>5. deducted[c] + inbox[c] + resolved[c] <= MostDeliveries(sent[c], restarts + 1)
        BY <1>0, <3>1, <3>3
      <3> QED
        BY <1>0, <3>2, <3>4, <3>5
    <2> QED
      BY <2>1, <2>2 DEF Deliveries
  <1> QED
    BY <1>1, <1>2, <1>3, <1>4, <1>5, <1>6, <1>7, <1>8, <1>9 DEF MessageChange

-----------------------------------------------------------------------------
(* The cached answers.                                                     *)

\* Someone is about to delete this answer, or it is one that is let go.
Covered(k) == k \in lapsed \/ \E p \in Procs : k \in todo[p]

\* After the step, the answer under k is none, up to date or covered; or the step does
\* not concern it.
KeyFine(k) ==
    \/ cache'[k] = Empty
    \/ cache'[k] = View(row', k)
    \/ Covered(k)'
    \/ ~Covered(k) /\ cache'[k] = cache[k] /\ View(row', k) = View(row, k)

LEMMA GoesTodo ==
    ASSUME TypeOK, NEW p \in Procs, NEW step, NEW e, NEW k, NEW q, NEW ks, Goes(p, step, e, k, q, ks)
    PROVE  todo'[p] = ks /\ \A r \in Procs \ {p} : todo'[r] = todo[r]
BY DEF TypeOK, Goes

LEMMA KeyCases ==
    ASSUME NEW k \in Keys
    PROVE  \/ k \in ListKeys \union {"upcoming"} /\ k \notin Owners
           \/ k \in Owners /\ k \notin ListKeys \union {"upcoming"}
BY ConstantsAssumption DEF Keys, ListKeys

\* A process that had nothing to delete and now has these keys covers them.
LEMMA CoversMore ==
    ASSUME TypeOK, NEW p \in Procs, todo[p] = {}, NEW ks, Sweeps(p, ks) \/ (Idle(p) /\ ks = {}),
           NEW k \in Keys, lapsed \subseteq lapsed'
    PROVE  (k \in ks => Covered(k)') /\ (Covered(k) => Covered(k)')
  <1>1. todo'[p] = ks /\ \A r \in Procs \ {p} : todo'[r] = todo[r]
    BY GoesTodo DEF Sweeps, Idle
  <1> QED
    BY <1>1 DEF Covered

\* A step that changes neither the row nor an answer, and gives nothing up.
LEMMA KeyKept ==
    ASSUME NEW k \in Keys, UNCHANGED <<row, cache>>, Covered(k) => Covered(k)' \/ cache[k] = Empty
    PROVE  KeyFine(k)
BY DEF KeyFine

\* A process that gives up lets go what it had to delete.
LEMMA KeyGivenUp ==
    ASSUME TypeOK, NEW p \in Procs, NEW ks, GivesUp(p, ks), UNCHANGED row, NEW k \in Keys,
           k \in todo[p] => k \in ks \/ cache[k] = Empty
    PROVE  KeyFine(k)
  <1>1. todo'[p] = {} /\ \A r \in Procs \ {p} : todo'[r] = todo[r]
    BY GoesTodo DEF GivesUp, Finish, Idle
  <1>2. UNCHANGED cache /\ lapsed' = lapsed \union Cached(ks)
    BY DEF GivesUp
  <1> QED
    BY <1>1, <1>2 DEF KeyFine, Covered, Cached

\* The deletions.
LEMMA InvalidateKeys ==
    ASSUME TypeOK, TodoFits, NEW p \in Procs, Invalidate(p), NEW k \in Keys
    PROVE  KeyFine(k)
  <1>1. CASE Sweep(p)
    <2>1. PICK ks \in NextKeys(todo[p]) :
             \/ /\ cache' = [j \in Keys |-> IF j \in ks THEN Empty ELSE cache[j]]
                /\ lapsed' = lapsed \ ks
                /\ Sweeps(p, todo[p] \ ks)
             \/ GivesUp(p, todo[p])
      BY <1>1 DEF Sweep
    <2>2. UNCHANGED row
      BY <1>1 DEF Sweep
    <2>3. CASE GivesUp(p, todo[p])
      BY <2>2, <2>3, KeyGivenUp
    <2>4. CASE /\ cache' = [j \in Keys |-> IF j \in ks THEN Empty ELSE cache[j]]
               /\ lapsed' = lapsed \ ks
               /\ Sweeps(p, todo[p] \ ks)
      <3>1. todo'[p] = todo[p] \ ks /\ \A r \in Procs \ {p} : todo'[r] = todo[r]
        BY <2>4, GoesTodo DEF Sweeps
      <3> QED
        BY <2>2, <2>4, <3>1 DEF KeyFine, Covered
    <2> QED
      BY <2>1, <2>3, <2>4
  <1>2. CASE FindPages(p)
    <2>1. UNCHANGED row
      BY <1>2 DEF FindPages
    <2>2. CASE Goes(p, "pages", NoEvent, "all", NoPatch, todo[p]) /\ UNCHANGED <<cache, lapsed>>
      <3>1. todo'[p] = todo[p] /\ \A r \in Procs \ {p} : todo'[r] = todo[r]
        BY <2>2, GoesTodo
      <3> QED
        BY <2>1, <2>2, <3>1, KeyKept DEF Covered
    <2>3. CASE Cached(todo[p]) = {} /\ GivesUp(p, {})
      BY <2>1, <2>3, KeyGivenUp DEF Cached
    <2>4. CASE GivesUp(p, todo[p])
      BY <2>1, <2>4, KeyGivenUp
    <2> QED
      BY <1>2, <2>2, <2>3, <2>4 DEF FindPages
  <1>3. CASE DeletePages(p)
    <2>1. UNCHANGED row /\ todo[p] \subseteq {"upcoming"}
      BY <1>3 DEF DeletePages, TodoFits
    <2>2. CASE GivesUp(p, todo[p])
      BY <2>1, <2>2, KeyGivenUp
    <2>3. CASE cache' = [cache EXCEPT !["upcoming"] = Empty] /\ lapsed' = lapsed \ {"upcoming"} /\ Finish(p)
      <3>1. todo'[p] = {} /\ \A r \in Procs \ {p} : todo'[r] = todo[r]
        BY <2>3, GoesTodo DEF Finish, Idle
      <3>2. k = "upcoming" => cache'[k] = Empty
        BY <2>3 DEF TypeOK
      <3>3. k # "upcoming" => cache'[k] = cache[k] /\ (Covered(k) => Covered(k)')
        BY <2>1, <2>3, <3>1 DEF TypeOK, Covered
      <3> QED
        BY <2>1, <3>2, <3>3 DEF KeyFine
    <2> QED
      BY <1>3, <2>2, <2>3 DEF DeletePages
  <1> QED
    BY <1>1, <1>2, <1>3 DEF Invalidate

\* The writes: whatever shows the row has to be deleted, or is let go.
LEMMA WriteKeys ==
    ASSUME TypeOK, Unborn, TodoFits, NEW k \in Keys,
           Reduce \/ \E h \in Handlers : Create(h) \/ Update(h) \/ Delete(h)
    PROVE  KeyFine(k)
  <1>1. ASSUME NEW h \in Handlers, Create(h) PROVE KeyFine(k)
    <2>1. h \in Procs /\ todo[h] = {} /\ row = NoEvent /\ UNCHANGED <<cache, lapsed>> /\ cache["byId"] = Empty
      BY <1>1, ConstantTypes DEF Create, TodoFits, Unborn
    <2>2. Sweeps(h, {"all", "upcoming"} \union OwnerKey(row'))
      BY <1>1 DEF Create
    <2>3. (k \in {"all", "upcoming"} \union OwnerKey(row') => Covered(k)') /\ (Covered(k) => Covered(k)')
      BY <2>1, <2>2, CoversMore
    <2>4. CASE k \in Owners /\ k \notin OwnerKey(row')
      <3>1. View(row', k) = NoEvent /\ View(row, k) = NoEvent
        BY <2>1, <2>4 DEF View, OwnerKey
      <3> QED
        BY <2>1, <2>3, <3>1 DEF KeyFine
    <2>5. k = "byId" => cache'[k] = Empty
      BY <2>1
    <2>6. k \in {"all", "upcoming"} \/ k = "byId" \/ k \in Owners
      BY DEF Keys
    <2> QED
      BY <2>3, <2>4, <2>5, <2>6 DEF KeyFine
  <1>2. ASSUME NEW h \in Handlers, Delete(h) PROVE KeyFine(k)
    <2>1. h \in Procs /\ todo[h] = {} /\ row' = NoEvent /\ row # NoEvent /\ UNCHANGED <<cache, lapsed>>
      BY <1>2, ConstantTypes DEF Delete, TodoFits
    <2>2. Sweeps(h, ListKeys \union {"upcoming"} \union OwnerKey(row))
      BY <1>2 DEF Delete
    <2>3. (k \in ListKeys \union {"upcoming"} \union OwnerKey(row) => Covered(k)') /\ (Covered(k) => Covered(k)')
      BY <2>1, <2>2, CoversMore
    <2>4. CASE k \in Owners /\ k \notin OwnerKey(row)
      <3>1. View(row', k) = NoEvent /\ View(row, k) = NoEvent
        BY <2>1, <2>4 DEF View, OwnerKey
      <3> QED
        BY <2>1, <2>3, <3>1 DEF KeyFine
    <2> QED
      BY <2>3, <2>4, KeyCases DEF KeyFine
  <1>3. ASSUME NEW h \in Handlers, Update(h) PROVE KeyFine(k)
    <2>1. h \in Procs /\ todo[h] = {} /\ UNCHANGED cache
      BY <1>3, ConstantTypes DEF Update, TodoFits
    <2>2. CASE row # NoEvent /\ lapsed' = lapsed \union Cached(OwnerKey(row) \ OwnerKey(seen[h]))
               /\ Sweeps(h, SweptByUpdate(seen[h], row'))
      <3>1. (k \in SweptByUpdate(seen[h], row') => Covered(k)') /\ (Covered(k) => Covered(k)')
        BY <2>1, <2>2, CoversMore
      <3>2. CASE k \in Owners /\ k \notin OwnerKey(row') /\ k \notin OwnerKey(seen[h])
        <4>1. View(row', k) = NoEvent
          BY <3>2 DEF View, OwnerKey
        <4>2. CASE k \in OwnerKey(row)
          <5>1. cache[k] # Empty => k \in lapsed'
            BY <2>2, <3>2, <4>2 DEF Cached
          <5> QED
            BY <2>1, <5>1 DEF KeyFine, Covered
        <4>3. CASE k \notin OwnerKey(row)
          <5>1. View(row, k) = NoEvent
            BY <2>2, <3>2, <4>3 DEF View, OwnerKey
          <5> QED
            BY <2>1, <3>1, <4>1, <5>1 DEF KeyFine
        <4> QED
          BY <4>2, <4>3
      <3> QED
        BY <3>1, <3>2, KeyCases DEF KeyFine, SweptByUpdate
    <2>3. CASE UNCHANGED <<row, lapsed>> /\ (Sweeps(h, ListKeys \union OwnerKey(seen[h])) \/ Idle(h))
      <3>1. Covered(k) => Covered(k)'
        BY <2>1, <2>3, CoversMore
      <3> QED
        BY <2>1, <2>3, <3>1, KeyKept
    <2> QED
      BY <1>3, <2>2, <2>3 DEF Update
  <1>4. CASE Reduce
    <2>1. Consumer \in Procs /\ todo[Consumer] = {} /\ UNCHANGED cache
      BY <1>4, ConstantTypes DEF Reduce, TodoFits
    <2>2. CASE UNCHANGED <<row, lapsed>> /\ Finish(Consumer)
      <3>1. Covered(k) => Covered(k)'
        BY <2>1, <2>2, CoversMore DEF Finish
      <3> QED
        BY <2>1, <2>2, <3>1, KeyKept
    <2>3. CASE /\ row # NoEvent /\ row' = [row EXCEPT !.available = @ - TicketsOf[taken]]
               /\ Sweeps(Consumer, ListKeys \union OwnerKey(row))
               /\ lapsed' = lapsed \union Cached({"upcoming"})
      <3>1. (k \in ListKeys \union OwnerKey(row) => Covered(k)') /\ (Covered(k) => Covered(k)')
        BY <2>1, <2>3, CoversMore
      <3>2. CASE k = "upcoming"
        <4>1. cache[k] # Empty => k \in lapsed'
          BY <2>3, <3>2 DEF Cached
        <4> QED
          BY <2>1, <4>1 DEF KeyFine, Covered
      <3>3. CASE k \in Owners /\ k \notin OwnerKey(row)
        <4>1. row \in Events /\ row'.owner = row.owner
          BY <2>3, RowTypes DEF Events
        <4>2. View(row', k) = NoEvent /\ View(row, k) = NoEvent
          BY <2>3, <3>3, <4>1 DEF View, OwnerKey
        <4> QED
          BY <2>1, <3>1, <4>2 DEF KeyFine
      <3> QED
        BY <3>1, <3>2, <3>3, KeyCases DEF KeyFine
    <2> QED
      BY <1>4, <2>2, <2>3 DEF Reduce, Suffices
  <1> QED
    BY <1>1, <1>2, <1>3, <1>4

\* The reads, the expiry and what does not touch the cache.
LEMMA OtherKeys ==
    ASSUME TypeOK, TodoFits, NEW k \in Keys,
           \/ \E h \in Handlers :
                 \/ Select(h) \/ Fill(h) \/ \E j \in ReadKeys : Get(h, j)
                 \/ \E q \in Patches : ReadForUpdate(h, q)
           \/ \E b \in Bookings : Book(b) \/ Send(b) \/ FetchBooking(b)
           \/ \E j \in Keys : Expire(j)
           \/ Commit \/ Restart \/ UNCHANGED vars
    PROVE  KeyFine(k)
  <1>1. ASSUME NEW h \in Handlers,
               \/ Select(h) \/ \E j \in ReadKeys : Get(h, j)
               \/ \E q \in Patches : ReadForUpdate(h, q)
        PROVE  KeyFine(k)
    <2>1. h \in Procs /\ todo[h] = {} /\ UNCHANGED <<row, cache, lapsed>>
      BY <1>1, ConstantTypes DEF Select, Get, ReadForUpdate, TodoFits
    <2>2. \E step, e, j, q : Goes(h, step, e, j, q, {})
      BY <1>1 DEF Select, Get, ReadForUpdate, Idle
    <2>3. todo'[h] = {} /\ \A r \in Procs \ {h} : todo'[r] = todo[r]
      BY <2>1, <2>2, GoesTodo
    <2> QED
      BY <2>1, <2>3, KeyKept DEF Covered
  <1>2. ASSUME NEW h \in Handlers, Fill(h) PROVE KeyFine(k)
    <2>1. h \in Procs /\ todo[h] = {} /\ UNCHANGED row /\ key[h] \in Keys
      BY <1>2, ConstantTypes DEF Fill, TodoFits, TypeOK
    <2>2. todo'[h] = {} /\ \A r \in Procs \ {h} : todo'[r] = todo[r]
      BY <1>2, <2>1, GoesTodo DEF Fill, Idle
    <2>3. CASE UNCHANGED <<cache, lapsed>>
      BY <2>1, <2>2, <2>3, KeyKept DEF Covered
    <2>4. CASE /\ cache' = [cache EXCEPT ![key[h]] = seen[h]]
               /\ lapsed' = IF seen[h] = View(row, key[h]) THEN lapsed \ {key[h]} ELSE lapsed \union {key[h]}
      <3>1. CASE k = key[h]
        <4>1. cache'[k] = seen[h]
          BY <2>4, <3>1 DEF TypeOK
        <4>2. cache'[k] = View(row', k) \/ k \in lapsed'
          BY <2>1, <2>4, <3>1, <4>1 DEF View
        <4> QED
          BY <4>2 DEF KeyFine, Covered
      <3>2. CASE k # key[h]
        <4>1. cache'[k] = cache[k] /\ (k \in lapsed => k \in lapsed')
          BY <2>4, <3>2 DEF TypeOK
        <4> QED
          BY <2>1, <2>2, <4>1 DEF KeyFine, Covered
      <3> QED
        BY <3>1, <3>2
    <2> QED
      BY <1>2, <2>3, <2>4 DEF Fill
  <1>3. ASSUME NEW b \in Bookings, FetchBooking(b) PROVE KeyFine(k)
    <2>1. UNCHANGED <<row, cache, lapsed>> /\ at[Consumer] = "idle"
      BY <1>3 DEF FetchBooking
    <2>2. Consumer \in Procs /\ todo[Consumer] = {}
      BY <2>1, ConstantTypes DEF TodoFits
    <2>3. CASE UNCHANGED procVars
      BY <2>1, <2>3, KeyKept DEF Covered, procVars
    <2>4. CASE Goes(Consumer, "reduce", NoEvent, "all", NoPatch, {})
      <3>1. todo'[Consumer] = {} /\ \A r \in Procs \ {Consumer} : todo'[r] = todo[r]
        BY <2>2, <2>4, GoesTodo
      <3> QED
        BY <2>1, <2>2, <3>1, KeyKept DEF Covered
    <2> QED
      BY <1>3, <2>3, <2>4 DEF FetchBooking
  <1>4. CASE (\E b \in Bookings : Book(b) \/ Send(b)) \/ Commit \/ UNCHANGED vars
    <2>1. UNCHANGED <<row, cache, lapsed, todo>>
      BY <1>4 DEF Book, Send, Commit, vars, procVars
    <2> QED
      BY <2>1, KeyKept DEF Covered
  <1>5. ASSUME NEW j \in Keys, Expire(j) PROVE KeyFine(k)
    <2>1. UNCHANGED <<row, todo>> /\ cache' = [cache EXCEPT ![j] = Empty] /\ lapsed' = lapsed \ {j}
      BY <1>5 DEF Expire, procVars
    <2>2. CASE k = j
      BY <2>1, <2>2 DEF KeyFine, TypeOK
    <2>3. CASE k # j
      BY <2>1, <2>3 DEF KeyFine, Covered, TypeOK
    <2> QED
      BY <2>2, <2>3
  <1>6. CASE Restart
    <2>1. UNCHANGED <<row, cache>> /\ lapsed' = lapsed \union Cached(UNION {todo[p] : p \in Procs})
      BY <1>6 DEF Restart
    <2>2. Covered(k) /\ cache[k] # Empty => k \in lapsed'
      BY <2>1 DEF Covered, Cached
    <2> QED
      BY <2>1, <2>2, KeyKept DEF Covered
  <1> QED
    BY <1>1, <1>2, <1>3, <1>4, <1>5, <1>6

LEMMA StaleStep ==
    TypeOK /\ Unborn /\ TodoFits /\ StaleHasCause /\ [Next]_vars => StaleHasCause'
  <1> SUFFICES ASSUME TypeOK, Unborn, TodoFits, StaleHasCause, [Next]_vars, NEW k \in Keys
               PROVE  cache'[k] = Empty \/ cache'[k] = View(row', k) \/ Covered(k)'
    BY DEF StaleHasCause, Covered, View
  <1>1. KeyFine(k)
    BY InvalidateKeys, WriteKeys, OtherKeys, ConstantTypes DEF Next, HandlerStep, ConsumerStep
  <1>2. cache[k] = Empty \/ cache[k] = View(row, k) \/ Covered(k)
    BY DEF StaleHasCause, Covered
  <1> QED
    BY <1>1, <1>2 DEF KeyFine

\* Cached answers keep their types, and an id that was not given out has none.
LEMMA CacheStep ==
    TypeOK /\ Unborn /\ TodoFits /\ [Next]_vars
    => /\ cache' \in [Keys -> Snapshots \union {Empty}]
       /\ lapsed' \subseteq Keys
       /\ booked' \subseteq Bookings
       /\ ~born' => cache'["byId"] = Empty
  <1> SUFFICES ASSUME TypeOK, Unborn, TodoFits, [Next]_vars
               PROVE  /\ cache' \in [Keys -> Snapshots \union {Empty}]
                      /\ lapsed' \subseteq Keys
                      /\ booked' \subseteq Bookings
                      /\ ~born' => cache'["byId"] = Empty
    OBVIOUS
  <1>0. /\ "byId" \in Keys /\ cache \in [Keys -> Snapshots \union {Empty}] /\ lapsed \subseteq Keys
        /\ booked \subseteq Bookings /\ (~born => cache["byId"] = Empty)
        /\ \A ks : Cached(ks) \subseteq ks
        /\ \A p \in Procs : todo[p] \subseteq Keys
    BY ConstantTypes DEF TypeOK, Unborn, Cached
  <1>1. ASSUME NEW p \in Procs, Invalidate(p)
        PROVE  /\ cache' \in [Keys -> Snapshots \union {Empty}] /\ lapsed' \subseteq Keys
               /\ UNCHANGED <<booked, born>>
               /\ \A k \in Keys : cache[k] = Empty => cache'[k] = Empty
    <2>1. UNCHANGED <<booked, born>>
      BY <1>1 DEF Invalidate, Sweep, FindPages, DeletePages, payVars
    <2>2. CASE UNCHANGED cache /\ lapsed' \subseteq lapsed \union Cached(todo[p])
      BY <1>0, <2>1, <2>2
    <2>3. ASSUME NEW ks, cache' = [k \in Keys |-> IF k \in ks THEN Empty ELSE cache[k]], lapsed' = lapsed \ ks
          PROVE  /\ cache' \in [Keys -> Snapshots \union {Empty}] /\ lapsed' \subseteq Keys
                 /\ \A k \in Keys : cache[k] = Empty => cache'[k] = Empty
      BY <1>0, <2>3
    <2>4. CASE cache' = [cache EXCEPT !["upcoming"] = Empty] /\ lapsed' = lapsed \ {"upcoming"}
      BY <1>0, <2>1, <2>4
    <2>5. CASE Sweep(p)
      BY <2>1, <2>2, <2>3, <2>5 DEF Sweep, GivesUp
    <2>6. CASE FindPages(p)
      <3>1. Cached({}) = {}
        BY DEF Cached
      <3> QED
        BY <2>1, <2>2, <2>6, <3>1 DEF FindPages, GivesUp
    <2>7. CASE DeletePages(p)
      BY <2>1, <2>2, <2>4, <2>7 DEF DeletePages, GivesUp
    <2> QED
      BY <1>1, <2>5, <2>6, <2>7 DEF Invalidate
  <1>2. ASSUME NEW h \in Handlers, Fill(h)
        PROVE  /\ cache' \in [Keys -> Snapshots \union {Empty}] /\ lapsed' \subseteq Keys
               /\ UNCHANGED <<booked, born>>
               /\ ~born => cache'["byId"] = Empty
    <2>1. h \in Procs /\ key[h] \in Keys /\ seen[h] \in Snapshots /\ (~born => key[h] # "byId")
      BY <1>2, ConstantTypes DEF Fill, TypeOK, Unborn
    <2> QED
      BY <1>0, <1>2, <2>1 DEF Fill, payVars
  <1>3. CASE Reduce \/ \E h \in Handlers : Create(h) \/ Update(h) \/ Delete(h)
    <2>1. UNCHANGED <<cache, booked>> /\ (~born' => ~born)
      <3>1. UNCHANGED <<cache, booked>>
        BY <1>3 DEF Reduce, Create, Update, Delete, payVars
      <3>2. born' = TRUE \/ born' = born
        BY <1>3 DEF Reduce, Create, Update, Delete
      <3> QED
        BY <3>1, <3>2
    <2>2. lapsed' \subseteq Keys
      <3>1. /\ Cached({"upcoming"}) \subseteq Keys
            /\ \A h \in Handlers : Cached(OwnerKey(row) \ OwnerKey(seen[h])) \subseteq Keys
        BY ConstantTypes DEF Cached, OwnerKey
      <3> QED
        BY <1>0, <1>3, <3>1 DEF Reduce, Create, Update, Delete
    <2> QED
      BY <1>0, <2>1, <2>2
  <1>4. CASE \E h \in Handlers :
                \/ Select(h) \/ \E k \in ReadKeys : Get(h, k)
                \/ \E q \in Patches : ReadForUpdate(h, q)
    BY <1>0, <1>4 DEF Select, Get, ReadForUpdate, payVars
  <1>5. CASE (\E b \in Bookings : FetchBooking(b) \/ Send(b)) \/ Commit \/ UNCHANGED vars
    BY <1>0, <1>5 DEF FetchBooking, Send, Commit, payVars, vars
  <1>6. ASSUME NEW b \in Bookings, Book(b)
        PROVE  UNCHANGED <<cache, lapsed, born>> /\ booked' \subseteq Bookings
    BY <1>0, <1>6 DEF Book
  <1>7. ASSUME NEW k \in Keys, Expire(k)
        PROVE  /\ cache' \in [Keys -> Snapshots \union {Empty}] /\ lapsed' \subseteq Keys
               /\ UNCHANGED <<booked, born>>
               /\ ~born => cache'["byId"] = Empty
    BY <1>0, <1>7 DEF Expire, payVars
  <1>8. CASE Restart
    <2>1. UNCHANGED <<cache, booked, born>> /\ lapsed' = lapsed \union Cached(UNION {todo[p] : p \in Procs})
      BY <1>8 DEF Restart, payVars
    <2> QED
      BY <1>0, <2>1
  <1> QED
    BY <1>0, <1>1, <1>2, <1>3, <1>4, <1>5, <1>6, <1>7, <1>8, ConstantTypes DEF Next, HandlerStep, ConsumerStep

-----------------------------------------------------------------------------
LEMMA Invariance == Spec => []IInv
  <1>1. Init => IInv
    <2> SUFFICES ASSUME Init PROVE IInv
      OBVIOUS
    <2>1. TypeOK
      BY ConstantTypes DEF Init, TypeOK, Steps
    <2>2. Unborn /\ WritesAcceptable /\ TodoFits
      BY ConstantTypes DEF Init, Unborn, WritesAcceptable, TodoFits
    <2>3. ConsumerBusy /\ PaidIsNotLost
      BY ConstantTypes DEF Init, ConsumerBusy, PaidIsNotLost
    <2>4. Deliveries
      <3>1. MostDeliveries(0, 0) \in Nat
        BY MostDeliveriesFacts
      <3> QED
        BY <3>1, ConstantTypes DEF Init, Deliveries, Counted
    <2>5. WithinTotal /\ TicketsAccounted /\ StaleHasCause
      BY DEF Init, WithinTotal, TicketsAccounted, StaleHasCause
    <2> QED
      BY <2>1, <2>2, <2>3, <2>4, <2>5 DEF IInv
  <1>2. IInv /\ [Next]_vars => IInv'
    <2> SUFFICES ASSUME IInv, [Next]_vars PROVE IInv'
      OBVIOUS
    <2>1. /\ at' \in [Procs -> Steps] /\ seen' \in [Procs -> Snapshots] /\ key' \in [Procs -> Keys]
          /\ patch' \in [Procs -> PatchType] /\ todo' \in [Procs -> SUBSET Keys]
          /\ TodoFits' /\ WritesAcceptable'
          /\ ~born' => \A p \in Procs : at'[p] = "fill" => key'[p] # "byId" \/ (at[p] = "fill" /\ key[p] = "byId")
      BY LocalsStep DEF IInv
    <2>2. /\ row' \in Snapshots /\ born' \in BOOLEAN /\ takenOff' \in Nat /\ adrift' \in BOOLEAN
          /\ WithinTotal' /\ TicketsAccounted'
          /\ ~born' => row' = NoEvent /\ takenOff' = 0 /\ ~born
      BY RowStep DEF IInv
    <2>3. MessageTypes' /\ ConsumerBusy' /\ Deliveries' /\ PaidIsNotLost'
      <3>1. MessageTypes /\ ConsumerBusy /\ Deliveries /\ PaidIsNotLost /\ MessageChange
        BY MessageSteps DEF IInv, TypeOK, MessageTypes
      <3> QED
        BY <3>1, MessagesStep
    <2>4. /\ cache' \in [Keys -> Snapshots \union {Empty}]
          /\ lapsed' \subseteq Keys
          /\ booked' \subseteq Bookings
          /\ ~born' => cache'["byId"] = Empty
      BY CacheStep DEF IInv
    <2>5. StaleHasCause'
      BY StaleStep DEF IInv
    <2>6. TypeOK'
      BY <2>1, <2>2, <2>3, <2>4 DEF TypeOK, MessageTypes
    <2>7. Unborn'
      <3> SUFFICES ASSUME ~born' PROVE /\ row' = NoEvent /\ takenOff' = 0 /\ cache'["byId"] = Empty
                                       /\ \A p \in Procs : at'[p] = "fill" => key'[p] # "byId"
        BY DEF Unborn
      <3>1. row' = NoEvent /\ takenOff' = 0 /\ ~born /\ cache'["byId"] = Empty
        BY <2>2, <2>4
      <3>2. \A p \in Procs : at[p] = "fill" => key[p] # "byId"
        BY <3>1 DEF IInv, Unborn
      <3> QED
        BY <2>1, <3>1, <3>2
    <2> QED
      BY <2>1, <2>2, <2>3, <2>5, <2>6, <2>7 DEF IInv
  <1> QED
    BY <1>1, <1>2, PTL DEF Spec

-----------------------------------------------------------------------------
\* Every variable keeps its type: an update writes numbers that passed the checks.
THEOREM TypeCorrect == Spec => []TypeOK
BY Invariance, PTL DEF IInv

\* There are never more tickets available than the event has, nor fewer than none,
\* however updates, deletions and the reductions of the consumer overlap.
THEOREM TicketsWithinTotal == Spec => []WithinTotal
BY Invariance, PTL DEF IInv

\* Unless a client or an overlapping update has written the numbers, the tickets that
\* are not available are those the consumer took off.
THEOREM TicketsAreAccounted == Spec => []TicketsAccounted
BY Invariance, PTL DEF IInv

\* Restarts lose no payment.completed: its message waits, was acted upon or given up.
THEOREM PaidNotLost == Spec => []PaidIsNotLost
BY Invariance, PTL DEF IInv

\* Each delivery of payment.completed takes the tickets of its booking off once at most.
THEOREM DeductedOncePerDelivery == Spec => []DeductedPerDelivery
  <1>1. IInv => DeductedPerDelivery
    <2> SUFFICES ASSUME IInv, NEW b \in Bookings PROVE deducted[b] <= sent[b] * (1 + restarts)
      BY DEF DeductedPerDelivery
    <2>1. /\ inbox[b] \in Nat /\ sent[b] \in Nat /\ deducted[b] \in Nat /\ restarts \in Nat
          /\ deducted[b] + inbox[b] - Counted(b) <= MostDeliveries(sent[b], restarts)
      BY DEF IInv, TypeOK, Deliveries
    <2>2. Counted(b) \in {0, 1} /\ Counted(b) <= inbox[b]
      BY <2>1 DEF Counted, ConsumerBusy, IInv
    <2>3. MostDeliveries(sent[b], restarts) \in Nat
      BY <2>1, MostDeliveriesFacts
    <2>4. deducted[b] <= MostDeliveries(sent[b], restarts)
      BY <2>1, <2>2, <2>3
    <2> QED
      BY <2>4 DEF MostDeliveries
  <1> QED
    BY <1>1, Invariance, PTL

\* A stale answer in the cache is about to be deleted, or one of those the code lets go.
THEOREM StaleOnlyWithCause == Spec => []StaleHasCause
BY Invariance, PTL DEF IInv

=============================================================================
