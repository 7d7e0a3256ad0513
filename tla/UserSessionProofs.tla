------------------------- MODULE UserSessionProofs -------------------------
(* Theorems about UserSession for every set of handlers, accounts and      *)
(* requests, and any number of seconds and requests.                       *)
EXTENDS UserSession, TLAPS

(* Undefined is none of the values a column may have.                      *)
LEMMA UndefinedFacts ==
    /\ Undefined \notin Emails /\ Undefined \notin Roles /\ Undefined \notin Passwords
    /\ Undefined # Generated /\ Undefined # NoToken /\ Undefined \notin Tokens
    /\ NoToken \notin Tokens /\ NoUser \notin Users /\ Nobody \notin Ids
  BY ConstantsAssumption

(* Columns laid over a row give a row.                                     *)
LEMMA OverType ==
    ASSUME NEW e \in Entities, NEW row \in Users
    PROVE  /\ Over(e, row) \in Users
           /\ \A c \in Columns : Over(e, row)[c] = IF e[c] = Undefined THEN row[c] ELSE e[c]
           /\ Over(e, row).email = IF e.email = Undefined THEN row.email ELSE e.email
           /\ Over(e, row).token = IF e.token = Undefined THEN row.token ELSE e.token
  BY DEF Over, Columns, Entities, Users

(* The entity loaded of a row has the address and the role of that row.    *)
LEMMA LoadedType ==
    ASSUME NEW row \in Users, NEW hidden
    PROVE  /\ Loaded(row, hidden) \in Entities
           /\ Loaded(row, hidden).email = row.email
           /\ Loaded(row, hidden).role = row.role
           /\ \A c \in Columns : Loaded(row, hidden)[c] \in {Undefined, row[c]}
           /\ Loaded(row, hidden).token = IF "token" \in hidden THEN row.token ELSE Undefined
  BY DEF Loaded, Columns, Hidden, Entities, Users

(* Columns laid over a loaded entity give an entity of that row.           *)
LEMMA PatchedType ==
    ASSUME NEW w \in Entities, NEW row \in Users, NEW hidden
    PROVE  /\ Over(w, Loaded(row, hidden)) \in Entities
           /\ Over(w, Loaded(row, hidden)).email # Undefined
           /\ Over(w, Loaded(row, hidden)).role # Undefined
           /\ Over(w, Loaded(row, hidden)).token =
                 IF w.token = Undefined THEN Loaded(row, hidden).token ELSE w.token
           /\ \A c \in Columns : Over(Over(w, Loaded(row, hidden)), row)[c] = Over(w, row)[c]
  <1>1. row.email # Undefined /\ row.role # Undefined
    BY UndefinedFacts DEF Users
  <1> QED
    BY <1>1, LoadedType DEF Over, Columns, Hidden, Entities, Users

(* The columns save writes make of the row what the entity has.            *)
LEMMA ChangedType ==
    ASSUME NEW e \in Entities, NEW row \in Users
    PROVE  /\ Changed(e, row) \in Entities
           /\ Changed(e, row).token = e.token
           /\ \A c \in Columns : Over(Changed(e, row), row)[c] = Over(e, row)[c]
  BY DEF Over, Changed, Columns, Hidden, Entities, Users

LEMMA NothingType ==
    /\ Nothing \in Entities
    /\ \A c \in Columns : Nothing[c] = Undefined
    /\ Nothing.token = Undefined
    /\ \A t \in Tokens \union {NoToken} :
          /\ [Nothing EXCEPT !.token = t] \in Entities
          /\ [Nothing EXCEPT !.token = t].token = t
          /\ \A c \in Columns \ {"token"} : [Nothing EXCEPT !.token = t][c] = Undefined
  BY DEF Nothing, Columns, Entities

-----------------------------------------------------------------------------
(* What one handler has in hand.                                           *)

\* It works on the entity of a stored row.
InHand(h) == at[h] \in {"session", "select", "update", "revive"}

\* Handler g takes no part in a step.
SameHand(g) == UNCHANGED <<at[g], who[g], ent[g], patch[g], want[g], asked[g]>>

HandlersTyped ==
    /\ at \in [Handlers -> Steps]
    /\ who \in [Handlers -> Ids \union {Nobody}]
    /\ ent \in [Handlers -> Entities]
    /\ patch \in [Handlers -> Entities]
    /\ want \in [Handlers -> Entities]
    /\ asked \in [Handlers -> Tokens \union {NoToken}]

(* Goes sets the variables of one handler and no other.                    *)
LEMMA Moves ==
    ASSUME TypeOK, NEW h \in Handlers, NEW s \in Steps, NEW u \in Ids \union {Nobody},
           NEW e \in Entities, NEW p \in Entities, NEW w \in Entities,
           NEW t \in Tokens \union {NoToken}, Goes(h, s, u, e, p, w, t)
    PROVE  /\ HandlersTyped'
           /\ at'[h] = s /\ who'[h] = u /\ ent'[h] = e
           /\ patch'[h] = p /\ want'[h] = w /\ asked'[h] = t
           /\ \A g \in Handlers : g # h => SameHand(g)
  BY DEF TypeOK, Goes, HandlersTyped, SameHand

LEMMA Stops ==
    ASSUME TypeOK, NEW h \in Handlers, Idle(h)
    PROVE  /\ HandlersTyped'
           /\ at'[h] = "idle" /\ who'[h] = Nobody /\ ent'[h] = Nothing
           /\ patch'[h] = Nothing /\ want'[h] = Nothing /\ asked'[h] = NoToken
           /\ \A g \in Handlers : g # h => SameHand(g)
  <1>1. "idle" \in Steps
    BY DEF Steps
  <1> QED
    BY <1>1, NothingType, Moves DEF Idle

-----------------------------------------------------------------------------
(* The invariant about types: an id of a row or in hand was given out; an  *)
(* account to be inserted is complete; an entity has what save needs of it. *)

RowsGiven == \A u \in Ids : users[u] # NoUser => u \in given

HandFits(h) ==
    /\ at[h] \in {"insert", "insertGoogle"} => ent[h] \in Users /\ ent[h].token = NoToken
    /\ InHand(h) => who[h] \in given /\ ent[h].email # Undefined /\ ent[h].role # Undefined
    /\ at[h] = "revive" => ent[h].password # Undefined
    /\ ~InHand(h) => who[h] = Nobody /\ h \notin overtaken

HandInv == \A h \in Handlers : HandFits(h)

TypedInv == TypeOK /\ RowsGiven /\ HandInv

\* No handler without an entity becomes overtaken.
OthersOvertaken(h) ==
    /\ overtaken' \subseteq Handlers
    /\ \A g \in Handlers : g # h /\ who[g] = Nobody /\ g \in overtaken' => g \in overtaken

(* The handlers that take no part stay as they were.                       *)
LEMMA HandKept ==
    ASSUME TypedInv, NEW h \in Handlers, HandFits(h)',
           \A g \in Handlers : g # h => SameHand(g),
           given \subseteq given', OthersOvertaken(h)
    PROVE  HandInv'
  <1>1. ASSUME NEW g \in Handlers, g # h PROVE HandFits(g)'
    BY <1>1 DEF TypedInv, HandInv, HandFits, InHand, SameHand, OthersOvertaken
  <1> QED
    BY <1>1 DEF HandInv

(* A step that touches no handler and overtakes none leaves them be.       *)
LEMMA HandsUntouched ==
    ASSUME TypedInv, UNCHANGED <<handlerVars, given>>, overtaken' \subseteq Handlers,
           \A g \in Handlers : who[g] = Nobody /\ g \in overtaken' => g \in overtaken
    PROVE  HandInv'
  BY DEF TypedInv, HandInv, HandFits, InHand, handlerVars

(* Overtakes marks only handlers that have an entity.                      *)
LEMMA OvertakesMarks ==
    ASSUME TypedInv, NEW h \in Handlers, NEW u \in Ids, Overtakes(h, u) \/ Releases(h) \/ UNCHANGED overtaken
    PROVE  /\ OthersOvertaken(h)
           /\ ~(UNCHANGED overtaken) => h \notin overtaken'
  BY UndefinedFacts DEF TypedInv, TypeOK, Overtakes, Releases, OthersOvertaken

(* The first command of save.                                              *)
LEMMA SavesKeeps ==
    ASSUME TypedInv, NEW h \in Handlers, NEW u \in given, NEW e \in Entities, NEW w \in Entities,
           NEW t \in Tokens \union {NoToken}, Saves(h, u, e, w, t),
           e.email # Undefined, e.role # Undefined, UNCHANGED <<users, given>>
    PROVE  HandlersTyped' /\ HandInv' /\ overtaken' \subseteq Handlers
  <1> USE DEF TypedInv
  <1>0. u \in Ids /\ u \in Ids \union {Nobody} /\ overtaken \subseteq Handlers
    BY DEF TypeOK
  <1>1. CASE users[u] # NoUser /\ Goes(h, "update", u, e, Changed(e, users[u]), w, t) /\ UNCHANGED overtaken
    <2>1. Changed(e, users[u]) \in Entities /\ "update" \in Steps
      BY <1>0, <1>1, ChangedType DEF TypeOK, Steps
    <2>2. /\ HandlersTyped'
          /\ at'[h] = "update" /\ who'[h] = u /\ ent'[h] = e
          /\ \A g \in Handlers : g # h => SameHand(g)
      BY <1>0, <1>1, <2>1, Moves
    <2>3. HandFits(h)'
      BY <2>2 DEF HandFits, InHand
    <2> QED
      BY <1>0, <1>1, <2>2, <2>3, HandKept, OvertakesMarks
  <1>2. CASE e.password # Undefined /\ Goes(h, "revive", u, e, Nothing, w, t) /\ UNCHANGED overtaken
    <2>1. "revive" \in Steps
      BY DEF Steps
    <2>2. /\ HandlersTyped'
          /\ at'[h] = "revive" /\ who'[h] = u /\ ent'[h] = e
          /\ \A g \in Handlers : g # h => SameHand(g)
      BY <1>0, <1>2, <2>1, NothingType, Moves
    <2>3. HandFits(h)'
      BY <1>2, <2>2 DEF HandFits, InHand
    <2> QED
      BY <1>0, <1>2, <2>2, <2>3, HandKept, OvertakesMarks
  <1>3. CASE Idle(h) /\ Releases(h)
    <2>1. /\ HandlersTyped'
          /\ at'[h] = "idle" /\ who'[h] = Nobody
          /\ \A g \in Handlers : g # h => SameHand(g)
      BY <1>3, Stops
    <2>2. h \notin overtaken'
      BY <1>3 DEF Releases
    <2>3. HandFits(h)'
      BY <2>1, <2>2 DEF HandFits, InHand
    <2> QED
      BY <1>0, <1>3, <2>1, <2>3, HandKept, OvertakesMarks DEF Releases
  <1> QED
    BY <1>1, <1>2, <1>3 DEF Saves

(* The requests that read an account, or find that there is none, and go on. *)
LEMMA RequestTyped ==
    ASSUME TypedInv, requests' \in Nat, NEW h \in Handlers,
           \/ \E a \in Accounts : Register(h, a)
           \/ \E e \in GoogleEmails : GoogleLogin(h, e)
           \/ \E u \in Ids : Login(h, u)
           \/ \E t \in handed : Logout(h, t)
           \/ \E t \in issued, u \in Ids, q \in Patches : UpdateUser(h, t, u, q)
    PROVE  TypedInv'
  <1> USE DEF TypedInv
  <1>0. /\ UNCHANGED <<users, given, now, tokenVars, histVars>>
        /\ at[h] = "idle" /\ h \notin overtaken
    BY DEF Register, GoogleLogin, Login, Logout, UpdateUser, HandInv, HandFits, InHand
  <1>1. ASSUME HandlersTyped', HandFits(h)', \A g \in Handlers : g # h => SameHand(g)
        PROVE  TypedInv'
    <2>1. HandInv'
      BY <1>0, <1>1, HandKept DEF OthersOvertaken, TypeOK, histVars
    <2>2. TypeOK'
      BY <1>0, <1>1 DEF TypeOK, HandlersTyped, tokenVars, histVars
    <2>3. RowsGiven'
      BY <1>0 DEF RowsGiven
    <2> QED
      BY <2>1, <2>2, <2>3
  <1>2. ASSUME NEW s \in {"insert", "insertGoogle"}, NEW e \in Users, e.token = NoToken,
               Goes(h, s, Nobody, e, Nothing, e, NoToken)
        PROVE  TypedInv'
    <2>1. s \in Steps /\ Nobody \in Ids \union {Nobody} /\ e \in Entities
          /\ Nothing \in Entities /\ NoToken \in Tokens \union {NoToken}
      BY NothingType DEF Steps, Users, Entities
    <2>2. /\ HandlersTyped'
          /\ at'[h] = s /\ who'[h] = Nobody /\ ent'[h] = e
          /\ \A g \in Handlers : g # h => SameHand(g)
      BY <1>2, <2>1, Moves
    <2>3. HandFits(h)'
      BY <1>0, <1>2, <2>2 DEF HandFits, InHand, histVars
    <2> QED
      BY <1>1, <2>2, <2>3
  <1>3. ASSUME NEW s \in {"session", "select"}, NEW u \in Ids, users[u] # NoUser,
               NEW e \in Entities, e.email # Undefined, e.role # Undefined,
               NEW w \in Entities, NEW t \in Tokens \union {NoToken},
               Goes(h, s, u, e, Nothing, w, t)
        PROVE  TypedInv'
    <2>1. s \in Steps /\ u \in Ids \union {Nobody} /\ Nothing \in Entities /\ u \in given
      BY <1>3, NothingType DEF Steps, RowsGiven
    <2>2. /\ HandlersTyped'
          /\ at'[h] = s /\ who'[h] = u /\ ent'[h] = e
          /\ \A g \in Handlers : g # h => SameHand(g)
      BY <1>3, <2>1, Moves
    <2>3. HandFits(h)'
      BY <1>0, <1>3, <2>1, <2>2 DEF HandFits, InHand, histVars
    <2> QED
      BY <1>1, <2>2, <2>3
  <1>4. ASSUME NEW a \in Accounts, Register(h, a) PROVE TypedInv'
    <2> DEFINE e == [email |-> a.email, password |-> a.password, token |-> NoToken,
                     role |-> IF a.role = Undefined THEN "user" ELSE a.role]
    <2>1. e \in Users /\ e.token = NoToken
      BY ConstantsAssumption DEF Users
    <2>2. Goes(h, "insert", Nobody, e, Nothing, e, NoToken)
      BY <1>4 DEF Register
    <2> HIDE DEF e
    <2> QED
      BY <1>2, <2>1, <2>2
  <1>5. ASSUME NEW u \in Ids, users[u] # NoUser, NEW hidden,
               Goes(h, "session", u, Loaded(users[u], hidden), Nothing, Nothing, NoToken)
        PROVE  TypedInv'
    <2>1. /\ users[u] \in Users
          /\ Loaded(users[u], hidden) \in Entities
          /\ Loaded(users[u], hidden).email # Undefined
          /\ Loaded(users[u], hidden).role # Undefined
      BY <1>5, LoadedType, UndefinedFacts DEF TypeOK, Users
    <2> QED
      BY <1>3, <1>5, <2>1, NothingType
  <1>6. ASSUME NEW email \in GoogleEmails, GoogleLogin(h, email) PROVE TypedInv'
    <2>1. CASE \E u \in Having("email", email) :
                  Goes(h, "session", u, Loaded(users[u], {}), Nothing, Nothing, NoToken)
      BY <1>5, <2>1 DEF Having, TypeOK
    <2>2. CASE Goes(h, "insertGoogle", Nobody,
                    [email |-> email, password |-> Generated, role |-> "user", token |-> NoToken], Nothing,
                    [email |-> email, password |-> Generated, role |-> "user", token |-> NoToken], NoToken)
      <3> DEFINE e == [email |-> email, password |-> Generated, role |-> "user", token |-> NoToken]
      <3>1. e \in Users /\ e.token = NoToken
        BY ConstantsAssumption DEF Users
      <3>2. Goes(h, "insertGoogle", Nobody, e, Nothing, e, NoToken)
        BY <2>2
      <3> HIDE DEF e
      <3> QED
        BY <1>2, <3>1, <3>2
    <2> QED
      BY <1>6, <2>1, <2>2 DEF GoogleLogin
  <1>7. ASSUME NEW u \in Ids, Login(h, u) PROVE TypedInv'
    BY <1>5, <1>7 DEF Login
  <1>8. ASSUME NEW u \in Ids, users[u] # NoUser, NEW hidden, NEW w \in Entities,
               NEW t \in Tokens \union {NoToken},
               Goes(h, "select", u, Over(w, Loaded(users[u], hidden)), Nothing, w, t)
        PROVE  TypedInv'
    <2>1. users[u] \in Users
      BY <1>8 DEF TypeOK
    <2> QED
      BY <1>3, <1>8, <2>1, PatchedType
  <1>9. ASSUME NEW t \in handed, Logout(h, t) PROVE TypedInv'
    <2>1. PICK u \in Having("token", t) :
              Goes(h, "select", u, Over([Nothing EXCEPT !.token = NoToken], Loaded(users[u], {"token"})),
                   Nothing, [Nothing EXCEPT !.token = NoToken], t)
      BY <1>9 DEF Logout
    <2>2. u \in Ids /\ users[u] # NoUser /\ t \in Tokens
      BY DEF Having, TypeOK
    <2> QED
      BY <1>8, <2>1, <2>2, NothingType
  <1>10. ASSUME NEW t \in issued, NEW u \in Ids, NEW q \in Patches, UpdateUser(h, t, u, q)
         PROVE  TypedInv'
    <2>1. Changes(t, q) \in Entities
      BY ConstantsAssumption DEF Changes, Entities
    <2> QED
      BY <1>8, <1>10, <2>1 DEF UpdateUser
  <1> QED
    BY <1>4, <1>6, <1>7, <1>9, <1>10

(* The INSERT of a registration or of a Google login.                      *)
LEMMA InsertTyped ==
    ASSUME TypedInv, requests' \in Nat, NEW h \in Handlers, Insert(h)
    PROVE  TypedInv'
  <1> USE DEF TypedInv
  <1>0. /\ UNCHANGED <<now, tokenVars, minted, doubled, ended, overtaken, lost>>
        /\ at[h] \in {"insert", "insertGoogle"} /\ h \notin overtaken
        /\ ent[h] \in Users
    BY DEF Insert, HandInv, HandFits, InHand
  <1>1. ASSUME HandlersTyped', HandFits(h)', \A g \in Handlers : g # h => SameHand(g),
               users' \in [Ids -> Users \union {NoUser}], wanted' \in [Ids -> Users \union {NoUser}],
               given \subseteq given', given' \subseteq Ids, RowsGiven'
        PROVE  TypedInv'
    <2>1. HandInv'
      BY <1>0, <1>1, HandKept DEF OthersOvertaken, TypeOK
    <2>2. TypeOK'
      BY <1>0, <1>1 DEF TypeOK, HandlersTyped, tokenVars
    <2> QED
      BY <1>1, <2>1, <2>2
  <1>2. ASSUME Idle(h)
        PROVE  HandlersTyped' /\ HandFits(h)' /\ \A g \in Handlers : g # h => SameHand(g)
    BY <1>0, <1>2, Stops DEF HandFits, InHand
  <1>3. CASE Idle(h) /\ UNCHANGED <<users, given, wanted>>
    BY <1>1, <1>2, <1>3 DEF TypeOK, RowsGiven
  <1>4. ASSUME NEW u \in Ids \ given,
               users' = [users EXCEPT ![u] = ent[h]],
               given' = given \union {u},
               wanted' = [wanted EXCEPT ![u] = ent[h]],
               \/ Idle(h)
               \/ Goes(h, "session", u, ent[h], Nothing, Nothing, NoToken)
        PROVE  TypedInv'
    <2>1. /\ users' \in [Ids -> Users \union {NoUser}] /\ wanted' \in [Ids -> Users \union {NoUser}]
          /\ given \subseteq given' /\ given' \subseteq Ids
          /\ RowsGiven'
      BY <1>0, <1>4 DEF TypeOK, RowsGiven
    <2>2. CASE Goes(h, "session", u, ent[h], Nothing, Nothing, NoToken)
      <3>1. /\ "session" \in Steps /\ u \in Ids \union {Nobody} /\ Nothing \in Entities
            /\ NoToken \in Tokens \union {NoToken}
            /\ ent[h] \in Entities /\ ent[h].email # Undefined /\ ent[h].role # Undefined
        BY <1>0, NothingType, UndefinedFacts DEF Steps, Users, TypeOK
      <3>2. /\ HandlersTyped'
            /\ at'[h] = "session" /\ who'[h] = u /\ ent'[h] = ent[h]
            /\ \A g \in Handlers : g # h => SameHand(g)
        BY <2>2, <3>1, Moves
      <3>3. HandFits(h)'
        BY <1>4, <3>1, <3>2 DEF HandFits, InHand
      <3> QED
        BY <1>1, <2>1, <3>2, <3>3
    <2> QED
      BY <1>1, <1>2, <1>4, <2>1, <2>2
  <1> QED
    BY <1>3, <1>4 DEF Insert

(* The token of a new session is one of the user it is for.                *)
LEMMA SignedType ==
    ASSUME TypedInv, NEW h \in Handlers, at[h] = "session"
    PROVE  [id |-> who[h], email |-> ent[h].email, role |-> ent[h].role, iat |-> now] \in Tokens
  BY DEF TypedInv, TypeOK, HandInv, HandFits, InHand, Tokens, Entities

(* Where a session is opened.                                              *)
LEMMA CreateSessionTyped ==
    ASSUME TypedInv, requests' \in Nat, NEW h \in Handlers, CreateSession(h)
    PROVE  TypedInv'
  <1> USE DEF TypedInv
  <1> DEFINE t == [id |-> who[h], email |-> ent[h].email, role |-> ent[h].role, iat |-> now]
             e == [ent[h] EXCEPT !.token = t]
             w == [Nothing EXCEPT !.token = t]
  <1>1. t \in Tokens
    BY SignedType DEF CreateSession
  <1>2. /\ who[h] \in given /\ ent[h] \in Entities
        /\ ent[h].email # Undefined /\ ent[h].role # Undefined
    BY DEF CreateSession, HandInv, HandFits, InHand, TypeOK
  <1>3. /\ minted' = minted \union {t}
        /\ doubled' = doubled \union ({t} \intersect minted)
        /\ Saves(h, who[h], e, w, NoToken)
        /\ UNCHANGED <<users, given, now, tokenVars, ended, wanted, lost>>
    BY DEF CreateSession
  <1> HIDE DEF t
  <1>4. e \in Entities /\ e.email # Undefined /\ e.role # Undefined
    BY <1>1, <1>2 DEF Entities
  <1>5. w \in Entities
    BY <1>1, NothingType
  <1> HIDE DEF e, w
  <1>6. HandlersTyped' /\ HandInv' /\ overtaken' \subseteq Handlers
    BY <1>2, <1>3, <1>4, <1>5, SavesKeeps
  <1>7. TypeOK'
    BY <1>1, <1>3, <1>6 DEF TypeOK, HandlersTyped, tokenVars
  <1>8. RowsGiven'
    BY <1>3 DEF RowsGiven
  <1> QED
    BY <1>6, <1>7, <1>8

(* The lookup of save.                                                     *)
LEMMA SelectTyped ==
    ASSUME TypedInv, requests' \in Nat, NEW h \in Handlers, Select(h)
    PROVE  TypedInv'
  <1> USE DEF TypedInv
  <1>1. /\ who[h] \in given /\ ent[h] \in Entities /\ want[h] \in Entities
        /\ asked[h] \in Tokens \union {NoToken}
        /\ ent[h].email # Undefined /\ ent[h].role # Undefined
    BY DEF Select, HandInv, HandFits, InHand, TypeOK
  <1>2. HandlersTyped' /\ HandInv' /\ overtaken' \subseteq Handlers
    BY <1>1, SavesKeeps DEF Select
  <1>3. TypeOK'
    BY <1>2 DEF Select, TypeOK, HandlersTyped, tokenVars
  <1>4. RowsGiven'
    BY DEF Select, RowsGiven
  <1> QED
    BY <1>2, <1>3, <1>4

(* A handler that ends, whatever it wrote to the row it had in hand.       *)
LEMMA EndTyped ==
    ASSUME TypedInv, requests' \in Nat, NEW h \in Handlers, Idle(h),
           NEW u \in Ids, Overtakes(h, u) \/ Releases(h),
           users' \in [Ids -> Users \union {NoUser}], RowsGiven',
           Answers(h) \/ UNCHANGED tokenVars,
           wanted' \in [Ids -> Users \union {NoUser}],
           ended' \subseteq Tokens, lost' \subseteq Ids,
           UNCHANGED <<given, now, minted, doubled>>
    PROVE  TypedInv'
  <1> USE DEF TypedInv
  <1>1. /\ HandlersTyped'
        /\ at'[h] = "idle" /\ who'[h] = Nobody
        /\ \A g \in Handlers : g # h => SameHand(g)
    BY Stops
  <1>2. h \notin overtaken' /\ OthersOvertaken(h)
    BY OvertakesMarks DEF Overtakes, Releases
  <1>3. HandInv'
    BY <1>1, <1>2, HandKept DEF HandFits, InHand
  <1>4. handed' \subseteq Tokens /\ issued' \subseteq [id : Ids, role : Roles]
    BY DEF Answers, TypeOK, tokenVars, Actor, Tokens
  <1>5. TypeOK'
    BY <1>1, <1>2, <1>4 DEF TypeOK, HandlersTyped, OthersOvertaken
  <1> QED
    BY <1>3, <1>5

(* The writes of a save, and a failure of one.                             *)
LEMMA WriteTyped ==
    ASSUME TypedInv, requests' \in Nat, NEW h \in Handlers, Update(h) \/ Revive(h) \/ Fail(h)
    PROVE  TypedInv'
  <1> USE DEF TypedInv
  <1>1. CASE Update(h)
    <2> DEFINE u == who[h]
               row == users[u]
               after == Over(patch[h], row)
    <2>1. u \in given /\ u \in Ids /\ patch[h] \in Entities /\ want[h] \in Entities
          /\ asked[h] \in Tokens \union {NoToken}
      BY <1>1 DEF Update, HandInv, HandFits, InHand, TypeOK
    <2>2. row # NoUser => row \in Users /\ after \in Users
      BY <2>1, OverType DEF TypeOK
    <2>3. Ends(h, row) \subseteq Tokens
      BY <2>1, <2>2 DEF Ends, Users
    <2>4. [wanted EXCEPT ![u] = IF @ = NoUser THEN @ ELSE Over(want[h], @)]
             \in [Ids -> Users \union {NoUser}]
      BY <2>1, OverType DEF TypeOK
    <2>5. /\ Idle(h) /\ UNCHANGED <<given, now, minted, doubled>>
          /\ Overtakes(h, u) \/ Releases(h)
          /\ Answers(h) \/ UNCHANGED tokenVars
      BY <1>1 DEF Update
    <2>6. users' = users \/ (row # NoUser /\ users' = [users EXCEPT ![u] = after])
      BY <1>1 DEF Update
    <2>7. /\ wanted' \in [Ids -> Users \union {NoUser}]
          /\ ended' \subseteq Tokens
          /\ lost' \subseteq Ids
      BY <1>1, <2>1, <2>3, <2>4 DEF Update, TypeOK
    <2>8. users' \in [Ids -> Users \union {NoUser}] /\ RowsGiven'
      BY <2>1, <2>2, <2>5, <2>6 DEF TypeOK, RowsGiven
    <2> HIDE DEF u, row, after
    <2> QED
      BY <2>1, <2>5, <2>7, <2>8, EndTyped
  <1>2. CASE Revive(h)
    <2> DEFINE u == who[h]
               e == IF ent[h].token = Undefined THEN [ent[h] EXCEPT !.token = NoToken] ELSE ent[h]
    <2>1. u \in given /\ u \in Ids /\ e \in Users
      BY <1>2 DEF Revive, HandInv, HandFits, InHand, TypeOK, Entities, Users
    <2>2. /\ Idle(h) /\ UNCHANGED <<given, now, minted, doubled, ended, wanted>>
          /\ Overtakes(h, u) \/ Releases(h)
          /\ Answers(h) \/ UNCHANGED tokenVars
          /\ lost' \in {lost, lost \union {u}}
          /\ users' = users \/ users' = [users EXCEPT ![u] = e]
      BY <1>2 DEF Revive
    <2> HIDE DEF u, e
    <2>3. users' \in [Ids -> Users \union {NoUser}] /\ RowsGiven'
      BY <2>1, <2>2 DEF TypeOK, RowsGiven
    <2>4. wanted' \in [Ids -> Users \union {NoUser}] /\ ended' \subseteq Tokens /\ lost' \subseteq Ids
      BY <2>1, <2>2 DEF TypeOK
    <2> QED
      BY <2>1, <2>2, <2>3, <2>4, EndTyped
  <1>3. CASE Fail(h)
    <2>1. /\ HandlersTyped'
          /\ at'[h] = "idle" /\ who'[h] = Nobody
          /\ \A g \in Handlers : g # h => SameHand(g)
      BY <1>3, Stops DEF Fail
    <2>2. h \notin overtaken' /\ OthersOvertaken(h)
      BY <1>3 DEF Fail, Releases, OthersOvertaken, TypeOK
    <2>3. UNCHANGED <<users, given, now, tokenVars, minted, doubled, ended, wanted, lost>>
      BY <1>3 DEF Fail
    <2>4. HandInv'
      BY <2>1, <2>2, <2>3, HandKept DEF HandFits, InHand
    <2>5. TypeOK' /\ RowsGiven'
      BY <2>1, <2>2, <2>3 DEF TypeOK, HandlersTyped, OthersOvertaken, tokenVars, RowsGiven
    <2> QED
      BY <2>4, <2>5
  <1> QED
    BY <1>1, <1>2, <1>3

(* The steps that are over at once.                                        *)
LEMMA AtOnceTyped ==
    ASSUME TypedInv, requests' \in Nat,
           \/ \E h \in Handlers, t \in issued, u \in Ids : DeleteUser(h, t, u)
           \/ \E t \in handed : Refresh(t)
           \/ Tick
    PROVE  TypedInv'
  <1> USE DEF TypedInv
  <1>1. ASSUME NEW h \in Handlers, NEW t \in issued, NEW u \in Ids, DeleteUser(h, t, u)
        PROVE  TypedInv'
    <2>1. UNCHANGED <<given, now, handlerVars, tokenVars, minted, doubled, lost>>
      BY <1>1 DEF DeleteUser
    <2>2. /\ overtaken' \subseteq Handlers
          /\ \A g \in Handlers : who[g] = Nobody /\ g \in overtaken' => g \in overtaken
      BY <1>1, UndefinedFacts DEF DeleteUser, Overtakes, TypeOK
    <2>3. HandInv'
      BY <2>1, <2>2, HandsUntouched
    <2>4. /\ users' \in [Ids -> Users \union {NoUser}] /\ RowsGiven'
          /\ wanted' \in [Ids -> Users \union {NoUser}]
          /\ ended' \subseteq Tokens
      BY <1>1 DEF DeleteUser, TypeOK, RowsGiven, Users
    <2>5. TypeOK'
      BY <2>1, <2>2, <2>4 DEF TypeOK, handlerVars, tokenVars
    <2> QED
      BY <2>3, <2>4, <2>5
  <1>2. ASSUME NEW t \in handed, Refresh(t) PROVE TypedInv'
    <2>1. UNCHANGED <<users, given, now, handlerVars, handed, histVars>>
      BY <1>2 DEF Refresh
    <2>2. issued' \subseteq [id : Ids, role : Roles]
      BY <1>2 DEF Refresh, TypeOK, Tokens, Users
    <2>3. TypeOK' /\ RowsGiven' /\ HandInv'
      BY <2>1, <2>2, HandsUntouched DEF TypeOK, handlerVars, histVars, RowsGiven
    <2> QED
      BY <2>3
  <1>3. CASE Tick
    <2>1. UNCHANGED <<users, given, handlerVars, tokenVars, histVars>>
      BY <1>3 DEF Tick
    <2>2. now' \in 0..MaxTime
      BY <1>3, ConstantsAssumption DEF Tick, TypeOK
    <2>3. TypeOK' /\ RowsGiven' /\ HandInv'
      BY <2>1, <2>2, HandsUntouched DEF TypeOK, handlerVars, tokenVars, histVars, RowsGiven
    <2> QED
      BY <2>3
  <1> QED
    BY <1>1, <1>2, <1>3

(* What a step of the specification is, for the proofs that follow.        *)
LEMMA StepCases ==
    ASSUME TypedInv, [Next]_vars
    PROVE  /\ requests' \in Nat
           /\ \/ \E h \in Handlers :
                    \/ \E a \in Accounts : Register(h, a)
                    \/ \E e \in GoogleEmails : GoogleLogin(h, e)
                    \/ \E u \in Ids : Login(h, u)
                    \/ \E t \in handed : Logout(h, t)
                    \/ \E t \in issued, u \in Ids, q \in Patches : UpdateUser(h, t, u, q)
              \/ \E h \in Handlers : Insert(h)
              \/ \E h \in Handlers : CreateSession(h)
              \/ \E h \in Handlers : Select(h)
              \/ \E h \in Handlers : Update(h) \/ Revive(h) \/ Fail(h)
              \/ \/ \E h \in Handlers, t \in issued, u \in Ids : DeleteUser(h, t, u)
                 \/ \E t \in handed : Refresh(t)
                 \/ Tick
              \/ UNCHANGED vars
  <1>1. requests' \in Nat
    BY DEF Next, Request, TypedInv, TypeOK, vars
  <1> QED
    BY <1>1 DEF Next, Request, HandlerStep

LEMMA TypedInit == Init => TypedInv
  <1> SUFFICES ASSUME Init PROVE TypedInv
    OBVIOUS
  <1>1. TypeOK
    BY NothingType, ConstantsAssumption DEF Init, TypeOK, Steps
  <1> QED
    BY <1>1 DEF TypedInv, Init, RowsGiven, HandInv, HandFits, InHand

(* The invariant about types, and with it TypeOK, in every reachable state. *)
LEMMA TypedInvariance == Spec => []TypedInv
  <1>1. TypedInv /\ [Next]_vars => TypedInv'
    <2> SUFFICES ASSUME TypedInv, [Next]_vars PROVE TypedInv'
      OBVIOUS
    <2>1. CASE UNCHANGED vars
      BY <2>1 DEF vars, TypedInv, TypeOK, RowsGiven, HandInv, HandFits, InHand
    <2> QED
      BY <2>1, StepCases, RequestTyped, InsertTyped, CreateSessionTyped, SelectTyped,
         WriteTyped, AtOnceTyped
  <1> QED
    BY <1>1, TypedInit, PTL DEF Spec

(* Type correctness: above all, every row the service writes is complete,  *)
(* whatever the entity it is written from was loaded with.                 *)
THEOREM TypeCorrect == Spec => []TypeOK
  <1>1. TypedInv => TypeOK
    BY DEF TypedInv
  <1> QED
    BY <1>1, TypedInvariance, PTL

-----------------------------------------------------------------------------
(* Addresses.                                                              *)

(* Rows are deleted, or written where the unique constraint lets them.     *)
LEMMA RowWrites ==
    ASSUME TypedInv, [Next]_vars
    PROVE  \/ UNCHANGED users
           \/ \E u \in Ids : users' = [users EXCEPT ![u] = NoUser]
           \/ \E u \in Ids, r \in Users : Free(r, u) /\ users' = [users EXCEPT ![u] = r]
  <1> USE DEF TypedInv
  <1>1. ASSUME NEW h \in Handlers,
               \/ \E a \in Accounts : Register(h, a)
               \/ \E e \in GoogleEmails : GoogleLogin(h, e)
               \/ \E u \in Ids : Login(h, u)
               \/ \E t \in handed : Logout(h, t)
               \/ \E t \in issued, u \in Ids, q \in Patches : UpdateUser(h, t, u, q)
               \/ CreateSession(h) \/ Select(h) \/ Fail(h)
        PROVE  UNCHANGED users
    BY <1>1 DEF Register, GoogleLogin, Login, Logout, UpdateUser, CreateSession, Select, Fail
  <1>2. ASSUME NEW h \in Handlers, Insert(h)
        PROVE  UNCHANGED users \/ \E u \in Ids : Free(ent[h], u) /\ users' = [users EXCEPT ![u] = ent[h]]
    BY <1>2 DEF Insert
  <1>3. ASSUME NEW h \in Handlers, Insert(h) PROVE ent[h] \in Users
    BY <1>3 DEF Insert, HandInv, HandFits
  <1>4. ASSUME NEW h \in Handlers, Update(h)
        PROVE  \/ UNCHANGED users
               \/ \E u \in Ids, r \in Users : Free(r, u) /\ users' = [users EXCEPT ![u] = r]
    <2>1. who[h] \in Ids /\ patch[h] \in Entities
      BY <1>4 DEF Update, HandInv, HandFits, InHand, TypeOK
    <2>2. users[who[h]] # NoUser => Over(patch[h], users[who[h]]) \in Users
      BY <2>1, OverType DEF TypeOK
    <2>3. \/ UNCHANGED users
          \/ /\ users[who[h]] # NoUser
             /\ Free(Over(patch[h], users[who[h]]), who[h])
             /\ users' = [users EXCEPT ![who[h]] = Over(patch[h], users[who[h]])]
      BY <1>4 DEF Update
    <2> QED
      BY <2>1, <2>2, <2>3
  <1>5. ASSUME NEW h \in Handlers, Revive(h)
        PROVE  \/ UNCHANGED users
               \/ \E u \in Ids, r \in Users : Free(r, u) /\ users' = [users EXCEPT ![u] = r]
    <2> DEFINE e == IF ent[h].token = Undefined THEN [ent[h] EXCEPT !.token = NoToken] ELSE ent[h]
    <2>1. who[h] \in Ids /\ e \in Users
      BY <1>5 DEF Revive, HandInv, HandFits, InHand, TypeOK, Entities, Users
    <2>2. UNCHANGED users \/ (Free(e, who[h]) /\ users' = [users EXCEPT ![who[h]] = e])
      BY <1>5 DEF Revive
    <2> HIDE DEF e
    <2> QED
      BY <2>1, <2>2
  <1>6. ASSUME NEW h \in Handlers, NEW t \in issued, NEW u \in Ids, DeleteUser(h, t, u)
        PROVE  users' = [users EXCEPT ![u] = NoUser]
    BY <1>6 DEF DeleteUser
  <1>7. (\E t \in handed : Refresh(t)) \/ Tick \/ UNCHANGED vars => UNCHANGED users
    BY DEF Refresh, Tick, vars
  <1> QED
    BY StepCases, <1>1, <1>2, <1>3, <1>4, <1>5, <1>6, <1>7

(* However registrations, Google logins and changes overlap, an address    *)
(* belongs to one account: the check that INSERT and UPDATE make is what   *)
(* holds it, whatever the handler found when it looked.                    *)
THEOREM AddressesUnique == Spec => []EmailsUnique
  <1>1. Init => EmailsUnique
    BY DEF Init, EmailsUnique
  <1>2. TypedInv /\ EmailsUnique /\ [Next]_vars => EmailsUnique'
    <2> SUFFICES ASSUME TypedInv, EmailsUnique, [Next]_vars PROVE EmailsUnique'
      OBVIOUS
    <2> USE DEF TypedInv
    <2>1. ASSUME UNCHANGED users PROVE EmailsUnique'
      BY <2>1 DEF EmailsUnique
    <2>2. ASSUME NEW u \in Ids, users' = [users EXCEPT ![u] = NoUser] PROVE EmailsUnique'
      BY <2>2 DEF EmailsUnique, TypeOK
    <2>3. ASSUME NEW u \in Ids, NEW r \in Users, Free(r, u), users' = [users EXCEPT ![u] = r]
          PROVE  EmailsUnique'
      <3>1. \A v \in Ids : users[v] # NoUser /\ users[v].email = r.email => v = u
        BY <2>3 DEF Free, Having, RowsGiven
      <3> QED
        BY <2>3, <3>1 DEF EmailsUnique, TypeOK
    <2> QED
      BY <2>1, <2>2, <2>3, RowWrites
  <1> QED
    BY <1>1, <1>2, TypedInvariance, PTL DEF Spec

-----------------------------------------------------------------------------
(* Refresh tokens.  Where a token is: in a row, among the ended ones, in   *)
(* the hands of a logout, or on its way into a row after it was signed.    *)
(* One that was signed once is in no other place while it is on its way.   *)

RowTokens ==
    \A u \in Ids : users[u] # NoUser /\ users[u].token \in Tokens => users[u].token.id = u

TokenFits(h) ==
    /\ want[h].token \in Tokens =>
          at[h] \in {"update", "revive"} /\ want[h].token.id = who[h] /\ asked[h] = NoToken
    /\ asked[h] # NoToken =>
          /\ at[h] \in {"select", "update", "revive"}
          /\ want[h].token = NoToken
          /\ asked[h].id = who[h]
    /\ at[h] \in {"insert", "insertGoogle"} => want[h].token = NoToken
    /\ at[h] \in {"select", "update", "revive"} =>
          /\ ent[h].token = want[h].token
          /\ want[h].token = NoToken => asked[h] # NoToken
    /\ at[h] = "update" => patch[h].token = want[h].token

HandTokens == \A h \in Handlers : TokenFits(h)

Held(t) ==
    \/ t \in ended
    \/ \E u \in Ids : users[u] # NoUser /\ users[u].token = t
    \/ \E g \in Handlers : asked[g] = t

MintedInv == \A t \in Tokens : Held(t) \/ (\E h \in Handlers : want[h].token = t) => t \in minted

FreshInv ==
    \A h \in Handlers : want[h].token \in Tokens \ doubled =>
        /\ ~Held(want[h].token)
        /\ \A g \in Handlers : g # h => want[g].token # want[h].token

TokenInv == TypedInv /\ RowTokens /\ HandTokens /\ MintedInv /\ FreshInv /\ LogoutHolds

(* A step that signs no token keeps the tokens on their way apart from     *)
(* those that are held, if none comes to be held but from there.           *)
LEMMA FreshKept ==
    ASSUME TokenInv, NEW h \in Handlers, \A g \in Handlers : g # h => SameHand(g),
           want'[h].token \notin Tokens, UNCHANGED <<minted, doubled>>,
           \A t \in Tokens : Held(t)' => Held(t) \/ t = want[h].token
    PROVE  MintedInv' /\ FreshInv'
  <1>1. ASSUME NEW g \in Handlers, want'[g].token \in Tokens
        PROVE  g # h /\ want'[g] = want[g]
    BY <1>1 DEF SameHand
  <1>2. MintedInv'
    <2> SUFFICES ASSUME NEW t \in Tokens, Held(t)' \/ \E g \in Handlers : want'[g].token = t
                 PROVE  t \in minted'
      BY DEF MintedInv, Held
    <2> QED
      BY <1>1 DEF TokenInv, MintedInv
  <1>3. ASSUME NEW g \in Handlers, want'[g].token \in Tokens \ doubled'
        PROVE  /\ ~Held(want[g].token)'
               /\ \A f \in Handlers : f # g => want'[f].token # want'[g].token
    BY <1>1, <1>3 DEF TokenInv, FreshInv, Held, SameHand
  <1>4. FreshInv'
    BY <1>1, <1>3 DEF FreshInv, Held
  <1> QED
    BY <1>2, <1>4

LEMMA FreshUntouched ==
    ASSUME TokenInv, UNCHANGED <<want, minted, doubled>>,
           \A t \in Tokens : Held(t)' => Held(t)
    PROVE  MintedInv' /\ FreshInv'
  BY DEF TokenInv, MintedInv, FreshInv, Held

LEMMA HandTokensKept ==
    ASSUME TokenInv, NEW h \in Handlers, TokenFits(h)',
           \A g \in Handlers : g # h => SameHand(g)
    PROVE  HandTokens'
  <1>1. ASSUME NEW g \in Handlers, g # h PROVE TokenFits(g)'
    BY <1>1 DEF TokenInv, HandTokens, TokenFits, SameHand
  <1> QED
    BY <1>1 DEF HandTokens

(* The first commands of a request leave the table and the tokens alone.   *)
LEMMA RequestTokens ==
    ASSUME TokenInv, TypedInv', NEW h \in Handlers,
           \/ \E a \in Accounts : Register(h, a)
           \/ \E e \in GoogleEmails : GoogleLogin(h, e)
           \/ \E u \in Ids : Login(h, u)
           \/ \E t \in handed : Logout(h, t)
           \/ \E t \in issued, u \in Ids, q \in Patches : UpdateUser(h, t, u, q)
    PROVE  TokenInv'
  <1> USE DEF TokenInv
  <1>0. /\ TypeOK /\ UNCHANGED <<users, minted, doubled, ended>> /\ at[h] = "idle"
    BY DEF Register, GoogleLogin, Login, Logout, UpdateUser, TypedInv, histVars
  <1>1. ASSUME TokenFits(h)', \A g \in Handlers : g # h => SameHand(g),
               want'[h].token \notin Tokens,
               asked'[h] \in Tokens => Held(asked'[h])
        PROVE  TokenInv'
    <2>1. \A t \in Tokens : Held(t)' => Held(t)
      BY <1>0, <1>1 DEF Held, SameHand
    <2>2. MintedInv' /\ FreshInv' /\ HandTokens'
      BY <1>0, <1>1, <2>1, FreshKept, HandTokensKept
    <2>3. RowTokens' /\ LogoutHolds'
      BY <1>0 DEF RowTokens, LogoutHolds
    <2> QED
      BY <2>2, <2>3
  <1>2. ASSUME NEW s \in {"insert", "insertGoogle"}, NEW e \in Users, e.token = NoToken,
               Goes(h, s, Nobody, e, Nothing, e, NoToken)
        PROVE  TokenInv'
    <2>1. s \in Steps /\ Nobody \in Ids \union {Nobody} /\ e \in Entities
          /\ Nothing \in Entities /\ NoToken \in Tokens \union {NoToken}
      BY NothingType DEF Steps, Users, Entities
    <2>2. /\ HandlersTyped'
          /\ at'[h] = s /\ who'[h] = Nobody /\ ent'[h] = e
          /\ patch'[h] = Nothing /\ want'[h] = e /\ asked'[h] = NoToken
          /\ \A g \in Handlers : g # h => SameHand(g)
      <3> HIDE DEF TokenInv
      <3>1. TypeOK /\ Goes(h, s, Nobody, e, Nothing, e, NoToken)
        BY <1>0, <1>2
      <3> QED
        BY <2>1, <3>1, Moves
    <2>3. TokenFits(h)'
      BY <1>2, <2>2, UndefinedFacts DEF TokenFits
    <2> QED
      BY <1>1, <1>2, <2>2, <2>3, UndefinedFacts
  <1>3. ASSUME NEW u \in Ids, NEW hidden, users[u] # NoUser,
               Goes(h, "session", u, Loaded(users[u], hidden), Nothing, Nothing, NoToken)
        PROVE  TokenInv'
    <2>1. "session" \in Steps /\ u \in Ids \union {Nobody} /\ Nothing \in Entities
          /\ Loaded(users[u], hidden) \in Entities /\ NoToken \in Tokens \union {NoToken}
      BY <1>0, <1>3, NothingType, LoadedType DEF Steps, TypeOK
    <2>2. /\ at'[h] = "session" /\ want'[h] = Nothing /\ asked'[h] = NoToken
          /\ \A g \in Handlers : g # h => SameHand(g)
      BY <1>0, <1>3, <2>1, Moves
    <2>3. TokenFits(h)'
      BY <2>2, NothingType, UndefinedFacts DEF TokenFits
    <2> QED
      BY <1>1, <2>2, <2>3, NothingType, UndefinedFacts
  <1>4. ASSUME NEW u \in Ids, NEW hidden, users[u] # NoUser,
               NEW w \in Entities, w.token \notin Tokens,
               NEW t \in Tokens \union {NoToken},
               Goes(h, "select", u, Over(w, Loaded(users[u], hidden)), Nothing, w, t),
               Over(w, Loaded(users[u], hidden)).token = w.token,
               w.token = NoToken <=> t # NoToken,
               t # NoToken => users[u].token = t
        PROVE  TokenInv'
    <2>1. "select" \in Steps /\ u \in Ids \union {Nobody} /\ Nothing \in Entities
          /\ Over(w, Loaded(users[u], hidden)) \in Entities
      BY <1>0, <1>4, NothingType, PatchedType DEF Steps, TypeOK
    <2>2. /\ at'[h] = "select" /\ who'[h] = u /\ want'[h] = w /\ asked'[h] = t
          /\ ent'[h] = Over(w, Loaded(users[u], hidden))
          /\ \A g \in Handlers : g # h => SameHand(g)
      BY <1>0, <1>4, <2>1, Moves
    <2>3. t # NoToken => t.id = u /\ Held(t)
      BY <1>4 DEF RowTokens, Held
    <2>4. TokenFits(h)'
      BY <1>4, <2>2, <2>3 DEF TokenFits
    <2> QED
      BY <1>1, <1>4, <2>2, <2>3, <2>4, UndefinedFacts
  <1>5. ASSUME NEW a \in Accounts, Register(h, a) PROVE TokenInv'
    <2> DEFINE e == [email |-> a.email, password |-> a.password, token |-> NoToken,
                     role |-> IF a.role = Undefined THEN "user" ELSE a.role]
    <2>1. e \in Users /\ e.token = NoToken
      BY ConstantsAssumption DEF Users
    <2>2. Goes(h, "insert", Nobody, e, Nothing, e, NoToken)
      BY <1>5 DEF Register
    <2> HIDE DEF e
    <2> QED
      BY <1>2, <2>1, <2>2
  <1>6. ASSUME NEW email \in GoogleEmails, GoogleLogin(h, email) PROVE TokenInv'
    <2>1. CASE \E u \in Having("email", email) :
                  Goes(h, "session", u, Loaded(users[u], {}), Nothing, Nothing, NoToken)
      BY <1>0, <1>3, <2>1 DEF Having, TypeOK
    <2>2. CASE Goes(h, "insertGoogle", Nobody,
                    [email |-> email, password |-> Generated, role |-> "user", token |-> NoToken], Nothing,
                    [email |-> email, password |-> Generated, role |-> "user", token |-> NoToken], NoToken)
      <3> DEFINE e == [email |-> email, password |-> Generated, role |-> "user", token |-> NoToken]
      <3>1. e \in Users /\ e.token = NoToken
        BY ConstantsAssumption DEF Users
      <3>2. Goes(h, "insertGoogle", Nobody, e, Nothing, e, NoToken)
        BY <2>2
      <3> HIDE DEF e
      <3> QED
        BY <1>2, <3>1, <3>2
    <2> QED
      BY <1>6, <2>1, <2>2 DEF GoogleLogin
  <1>7. ASSUME NEW u \in Ids, Login(h, u) PROVE TokenInv'
    BY <1>3, <1>7 DEF Login
  <1>8. ASSUME NEW t \in handed, Logout(h, t) PROVE TokenInv'
    <2>1. PICK u \in Having("token", t) :
              Goes(h, "select", u, Over([Nothing EXCEPT !.token = NoToken], Loaded(users[u], {"token"})),
                   Nothing, [Nothing EXCEPT !.token = NoToken], t)
      BY <1>8 DEF Logout
    <2>2. u \in Ids /\ users[u] # NoUser /\ users[u] \in Users /\ users[u].token = t
          /\ t \in Tokens
      BY <1>0 DEF Having, TypeOK
    <2> DEFINE w == [Nothing EXCEPT !.token = NoToken]
    <2>3. w \in Entities /\ w.token = NoToken
      BY NothingType
    <2>4. Goes(h, "select", u, Over(w, Loaded(users[u], {"token"})), Nothing, w, t)
      BY <2>1
    <2> HIDE DEF w
    <2>5. Over(w, Loaded(users[u], {"token"})).token = w.token /\ w.token \notin Tokens
      BY <2>2, <2>3, PatchedType, UndefinedFacts
    <2> QED
      BY <1>4, <2>2, <2>3, <2>4, <2>5
  <1>9. ASSUME NEW t \in issued, NEW u \in Ids, NEW q \in Patches, UpdateUser(h, t, u, q)
        PROVE  TokenInv'
    <2>1. Changes(t, q) \in Entities /\ Changes(t, q).token = Undefined
      BY ConstantsAssumption DEF Changes, Entities
    <2>2. /\ users[u] \in Users /\ users[u] # NoUser
          /\ Goes(h, "select", u, Over(Changes(t, q), Loaded(users[u], {})), Nothing, Changes(t, q), NoToken)
      BY <1>0, <1>9 DEF UpdateUser, TypeOK
    <2>3. Over(Changes(t, q), Loaded(users[u], {})).token = Undefined
      BY <2>1, <2>2, LoadedType, PatchedType
    <2> QED
      BY <1>4, <2>1, <2>2, <2>3, UndefinedFacts
  <1> QED
    BY <1>5, <1>6, <1>7, <1>8, <1>9

(* Where the first command of save leaves a handler.                       *)
LEMMA SavesMoves ==
    ASSUME TypedInv, NEW h \in Handlers, NEW u \in given, NEW e \in Entities, NEW w \in Entities,
           NEW t \in Tokens \union {NoToken}, Saves(h, u, e, w, t)
    PROVE  /\ \A g \in Handlers : g # h => SameHand(g)
           /\ \/ /\ users[u] # NoUser /\ at'[h] = "update"
                 /\ who'[h] = u /\ ent'[h] = e /\ want'[h] = w /\ asked'[h] = t
                 /\ patch'[h] = Changed(e, users[u])
                 /\ UNCHANGED overtaken
              \/ /\ users[u] = NoUser /\ at'[h] = "revive"
                 /\ who'[h] = u /\ ent'[h] = e /\ want'[h] = w /\ asked'[h] = t
                 /\ UNCHANGED overtaken
              \/ /\ users[u] = NoUser /\ at'[h] = "idle"
                 /\ want'[h] = Nothing /\ asked'[h] = NoToken
                 /\ overtaken' = overtaken \ {h}
  <1>0. TypeOK /\ u \in Ids \union {Nobody} /\ Nothing \in Entities
        /\ "update" \in Steps /\ "revive" \in Steps
    BY NothingType DEF TypedInv, TypeOK, Steps
  <1>1. CASE users[u] # NoUser /\ Goes(h, "update", u, e, Changed(e, users[u]), w, t) /\ UNCHANGED overtaken
    <2>1. Changed(e, users[u]) \in Entities
      BY <1>0, <1>1, ChangedType DEF TypeOK
    <2> QED
      BY <1>0, <1>1, <2>1, Moves
  <1>2. CASE users[u] = NoUser /\ Goes(h, "revive", u, e, Nothing, w, t) /\ UNCHANGED overtaken
    BY <1>0, <1>2, Moves
  <1>3. CASE users[u] = NoUser /\ Idle(h) /\ Releases(h)
    BY <1>0, <1>3, Stops DEF Releases
  <1> QED
    BY <1>1, <1>2, <1>3 DEF Saves

(* The token a session is opened with: if it was signed before, it counts  *)
(* as doubled from here on; if not, it is nowhere yet.                     *)
LEMMA CreateSessionTokens ==
    ASSUME TokenInv, TypedInv', NEW h \in Handlers, CreateSession(h)
    PROVE  TokenInv'
  <1> USE DEF TokenInv
  <1> DEFINE t == [id |-> who[h], email |-> ent[h].email, role |-> ent[h].role, iat |-> now]
             e == [ent[h] EXCEPT !.token = t]
             w == [Nothing EXCEPT !.token = t]
  <1>1. t \in Tokens /\ t.id = who[h]
    BY SignedType DEF CreateSession
  <1>2. /\ who[h] \in given /\ ent[h] \in Entities /\ at[h] = "session"
    BY DEF CreateSession, TypedInv, HandInv, HandFits, InHand, TypeOK
  <1>3. /\ minted' = minted \union {t}
        /\ doubled' = doubled \union ({t} \intersect minted)
        /\ Saves(h, who[h], e, w, NoToken)
        /\ UNCHANGED <<users, given, now, tokenVars, ended, wanted, lost>>
    BY DEF CreateSession
  <1> HIDE DEF t
  <1>4. e \in Entities /\ e.token = t
    BY <1>1, <1>2 DEF Entities
  <1>5. w \in Entities /\ w.token = t
    BY <1>1, NothingType
  <1> HIDE DEF e, w
  <1>6. /\ \A g \in Handlers : g # h => SameHand(g)
        /\ asked'[h] = NoToken
        /\ want'[h] = Nothing \/ want'[h] = w
    BY <1>2, <1>3, <1>4, <1>5, SavesMoves
  <1>7. TokenFits(h)'
    <2>1. \/ at'[h] = "update" /\ who'[h] = who[h] /\ ent'[h] = e /\ want'[h] = w
             /\ patch'[h] = Changed(e, users[who[h]]) /\ users[who[h]] # NoUser
          \/ at'[h] = "revive" /\ who'[h] = who[h] /\ ent'[h] = e /\ want'[h] = w
          \/ at'[h] = "idle" /\ want'[h] = Nothing
      BY <1>2, <1>3, <1>4, <1>5, SavesMoves
    <2>2. users[who[h]] # NoUser => Changed(e, users[who[h]]).token = t
      BY <1>2, <1>4, ChangedType DEF TypedInv, TypeOK
    <2> QED
      BY <1>1, <1>4, <1>5, <1>6, <2>1, <2>2, NothingType, UndefinedFacts DEF TokenFits
  <1>8. HandTokens'
    BY <1>6, <1>7, HandTokensKept
  <1>9. \A s \in Tokens : Held(s)' => Held(s)
    BY <1>3, <1>6, UndefinedFacts DEF Held, SameHand
  <1>10. want'[h].token \in Tokens => want'[h].token = t
    BY <1>5, <1>6, NothingType, UndefinedFacts
  <1>11. MintedInv'
    <2> SUFFICES ASSUME NEW s \in Tokens, Held(s)' \/ \E g \in Handlers : want'[g].token = s
                 PROVE  s \in minted'
      BY DEF MintedInv, Held
    <2> QED
      BY <1>3, <1>6, <1>9, <1>10 DEF MintedInv, SameHand
  <1>12. t \notin doubled' => t \notin minted
    BY <1>3
  <1>13. ASSUME NEW g \in Handlers, want'[g].token \in Tokens \ doubled'
         PROVE  /\ ~Held(want'[g].token)
                /\ \A f \in Handlers : f # g => want'[f].token # want'[g].token
    <2>1. CASE g = h
      <3>1. ~Held(t) /\ \A f \in Handlers : want[f].token # t
        BY <1>1, <1>10, <1>12, <1>13, <2>1 DEF MintedInv
      <3> QED
        BY <1>6, <1>10, <1>13, <2>1, <3>1 DEF SameHand
    <2>2. CASE g # h
      <3>1. want'[g] = want[g] /\ want[g].token \in Tokens \ doubled
        BY <1>3, <1>6, <1>13, <2>2 DEF SameHand
      <3>2. want[g].token # t
        BY <1>1, <1>3, <1>13, <3>1 DEF MintedInv
      <3> QED
        BY <1>6, <1>10, <3>1, <3>2 DEF FreshInv, SameHand
    <2> QED
      BY <2>1, <2>2
  <1>14. FreshInv'
    <2>1. \A g \in Handlers : want'[g].token \in Tokens /\ ~Held(want'[g].token) => ~Held(want[g].token)'
      BY <1>1, <1>3, <1>6, UndefinedFacts DEF Held, SameHand
    <2> SUFFICES ASSUME NEW g \in Handlers, want'[g].token \in Tokens \ doubled'
                 PROVE  /\ ~Held(want[g].token)'
                        /\ \A f \in Handlers : f # g => want'[f].token # want'[g].token
      BY DEF FreshInv
    <2> QED
      BY <1>13, <2>1
  <1>15. RowTokens' /\ LogoutHolds'
    BY <1>3 DEF RowTokens, LogoutHolds
  <1> QED
    BY <1>8, <1>11, <1>14, <1>15

LEMMA SelectTokens ==
    ASSUME TokenInv, TypedInv', NEW h \in Handlers, Select(h)
    PROVE  TokenInv'
  <1> USE DEF TokenInv
  <1>1. /\ who[h] \in given /\ ent[h] \in Entities /\ want[h] \in Entities
        /\ asked[h] \in Tokens \union {NoToken} /\ at[h] = "select"
    BY DEF Select, TypedInv, HandInv, HandFits, InHand, TypeOK
  <1>2. /\ Saves(h, who[h], ent[h], want[h], asked[h])
        /\ UNCHANGED <<users, given, now, minted, doubled, ended>>
    BY DEF Select
  <1>3. /\ \A g \in Handlers : g # h => SameHand(g)
        /\ \/ /\ at'[h] = "update" /\ who'[h] = who[h] /\ ent'[h] = ent[h]
              /\ want'[h] = want[h] /\ asked'[h] = asked[h]
              /\ patch'[h] = Changed(ent[h], users[who[h]]) /\ users[who[h]] # NoUser
           \/ /\ at'[h] = "revive" /\ who'[h] = who[h] /\ ent'[h] = ent[h]
              /\ want'[h] = want[h] /\ asked'[h] = asked[h]
           \/ at'[h] = "idle" /\ want'[h] = Nothing /\ asked'[h] = NoToken
    BY <1>1, <1>2, SavesMoves
  <1>4. users[who[h]] # NoUser => Changed(ent[h], users[who[h]]).token = ent[h].token
    BY <1>1, ChangedType DEF TypedInv, TypeOK
  <1>5. TokenFits(h) /\ want[h].token \notin Tokens
    BY <1>1 DEF HandTokens, TokenFits
  <1>6. TokenFits(h)' /\ want'[h].token \notin Tokens
    BY <1>1, <1>3, <1>4, <1>5, NothingType, UndefinedFacts DEF TokenFits
  <1>7. \A s \in Tokens : Held(s)' => Held(s)
    BY <1>2, <1>3, UndefinedFacts DEF Held, SameHand
  <1>8. HandTokens' /\ MintedInv' /\ FreshInv'
    BY <1>2, <1>3, <1>6, <1>7, HandTokensKept, FreshKept
  <1>9. RowTokens' /\ LogoutHolds'
    BY <1>2 DEF RowTokens, LogoutHolds
  <1> QED
    BY <1>8, <1>9

(* A handler that ends gives nothing away but the token it was to store.   *)
LEMMA EndTokens ==
    ASSUME TokenInv, NEW h \in Handlers, Idle(h), UNCHANGED <<minted, doubled>>,
           \A t \in Tokens :
              t \in ended' \/ (\E u \in Ids : users'[u] # NoUser /\ users'[u].token = t)
              => Held(t) \/ t = want[h].token
    PROVE  HandTokens' /\ MintedInv' /\ FreshInv'
  <1> USE DEF TokenInv
  <1>1. /\ at'[h] = "idle" /\ want'[h] = Nothing /\ asked'[h] = NoToken
        /\ \A g \in Handlers : g # h => SameHand(g)
    BY Stops DEF TypedInv
  <1>2. TokenFits(h)' /\ want'[h].token \notin Tokens
    BY <1>1, NothingType, UndefinedFacts DEF TokenFits
  <1>3. \A t \in Tokens : Held(t)' => Held(t) \/ t = want[h].token
    BY <1>1, UndefinedFacts DEF Held, SameHand
  <1> QED
    BY <1>1, <1>2, <1>3, HandTokensKept, FreshKept

(* A new row has no token.                                                 *)
LEMMA InsertTokens ==
    ASSUME TokenInv, TypedInv', NEW h \in Handlers, Insert(h)
    PROVE  TokenInv'
  <1> USE DEF TokenInv
  <1>1. /\ UNCHANGED <<minted, doubled, ended>> /\ TypeOK
        /\ ent[h] \in Users /\ ent[h].token = NoToken
    BY DEF Insert, TypedInv, HandInv, HandFits
  <1>2. UNCHANGED users \/ \E u \in Ids : users' = [users EXCEPT ![u] = ent[h]]
    BY DEF Insert
  <1>3. \A v \in Ids : users'[v] = users[v] \/ users'[v] = ent[h]
    BY <1>1, <1>2 DEF TypeOK
  <1>4. \A t \in Tokens :
           t \in ended' \/ (\E u \in Ids : users'[u] # NoUser /\ users'[u].token = t) => Held(t)
    BY <1>1, <1>3, UndefinedFacts DEF Held
  <1>5. RowTokens' /\ LogoutHolds'
    <2>1. RowTokens'
      BY <1>1, <1>3, UndefinedFacts DEF RowTokens
    <2>2. LogoutHolds'
      BY <1>1, <1>3, UndefinedFacts DEF LogoutHolds, TypeOK
    <2> QED
      BY <2>1, <2>2
  <1>6. CASE Idle(h)
    BY <1>1, <1>4, <1>5, <1>6, EndTokens
  <1>7. ASSUME NEW u \in Ids, Goes(h, "session", u, ent[h], Nothing, Nothing, NoToken)
        PROVE  TokenInv'
    <2>1. "session" \in Steps /\ u \in Ids \union {Nobody} /\ Nothing \in Entities
          /\ ent[h] \in Entities /\ NoToken \in Tokens \union {NoToken}
      BY <1>1, NothingType DEF Steps, TypeOK
    <2>2. /\ at'[h] = "session" /\ want'[h] = Nothing /\ asked'[h] = NoToken
          /\ \A g \in Handlers : g # h => SameHand(g)
      BY <1>1, <1>7, <2>1, Moves
    <2>3. TokenFits(h)' /\ want'[h].token \notin Tokens
      BY <2>2, NothingType, UndefinedFacts DEF TokenFits
    <2>4. \A t \in Tokens : Held(t)' => Held(t)
      BY <1>4, <2>2, UndefinedFacts DEF Held, SameHand
    <2> QED
      BY <1>1, <1>5, <2>2, <2>3, <2>4, HandTokensKept, FreshKept
  <1> QED
    BY <1>6, <1>7 DEF Insert

(* The UPDATE of a save stores the token it brings, or leaves the row its  *)
(* own; a token that is ended is in no row of its user afterwards.         *)
LEMMA UpdateTokens ==
    ASSUME TokenInv, TypedInv', NEW h \in Handlers, Update(h)
    PROVE  TokenInv'
  <1> USE DEF TokenInv
  <1> DEFINE u == who[h]
             row == users[u]
             after == Over(patch[h], row)
  <1>1. /\ TypeOK /\ u \in Ids /\ patch[h] \in Entities /\ want[h] \in Entities
        /\ at[h] = "update" /\ asked[h] \in Tokens \union {NoToken}
    BY DEF Update, TypedInv, HandInv, HandFits, InHand, TypeOK
  <1>2. /\ patch[h].token = want[h].token
        /\ want[h].token \in Tokens => want[h].token.id = u /\ asked[h] = NoToken
        /\ asked[h] # NoToken => want[h].token = NoToken /\ asked[h].id = u
    BY <1>1 DEF HandTokens, TokenFits
  <1>3. row # NoUser =>
           /\ row \in Users /\ after \in Users
           /\ after.token = IF want[h].token = Undefined THEN row.token ELSE want[h].token
    BY <1>1, <1>2, OverType DEF TypeOK
  <1>4. Idle(h) /\ UNCHANGED <<minted, doubled>>
    BY DEF Update
  <1>5. \/ /\ row # NoUser /\ users' = [users EXCEPT ![u] = after]
           /\ ended' = ended \union Ends(h, row)
        \/ /\ row = NoUser /\ UNCHANGED users
           /\ ended' = ended \union Ends(h, row) \union ({want[h].token} \intersect Tokens)
        \/ UNCHANGED <<users, ended>>
    BY DEF Update
  <1>6. \A t \in Ends(h, row) :
           /\ t \in Tokens => t.id = u
           /\ t # want[h].token
           /\ t = asked[h] \/ (row # NoUser /\ t = row.token)
           /\ want[h].token # Undefined
    BY <1>1, <1>2, <1>3, UndefinedFacts DEF Ends, RowTokens
  <1>7. \A t \in Ends(h, row) : t \in Tokens => Held(t)
    BY <1>1, <1>6 DEF Held
  <1> HIDE DEF after
  <1>8. \A v \in Ids : IF v = u /\ row # NoUser THEN users'[v] \in {row, after} ELSE users'[v] = users[v]
    BY <1>1, <1>5 DEF TypeOK
  <1>9. ASSUME NEW t \in Tokens,
               t \in ended' \/ (\E v \in Ids : users'[v] # NoUser /\ users'[v].token = t)
        PROVE  Held(t) \/ t = want[h].token
    <2>1. CASE t \in ended'
      BY <1>5, <1>7, <2>1 DEF Held
    <2>2. CASE \E v \in Ids : users'[v] # NoUser /\ users'[v].token = t
      BY <1>1, <1>3, <1>8, <2>2 DEF Held
    <2> QED
      BY <1>9, <2>1, <2>2
  <1>10. HandTokens' /\ MintedInv' /\ FreshInv'
    BY <1>4, <1>9, EndTokens
  <1>11. RowTokens'
    BY <1>1, <1>2, <1>3, <1>8 DEF RowTokens
  <1>12. LogoutHolds'
    <2> SUFFICES ASSUME NEW v \in Ids, users'[v] # NoUser, users'[v].token \in ended'
                 PROVE  users'[v].token \in doubled
      BY <1>4 DEF LogoutHolds
    <2> DEFINE t == users'[v].token
    <2>1. t \in Tokens
      BY DEF TypedInv, TypeOK
    <2>2. CASE v # u
      <3>1. users'[v] = users[v] /\ t.id = v
        BY <1>8, <2>1, <2>2 DEF RowTokens
      <3>2. t \notin Ends(h, row) /\ t # want[h].token
        BY <1>2, <1>6, <2>1, <2>2, <3>1
      <3>3. t \in ended
        BY <1>5, <3>2
      <3> QED
        BY <3>1, <3>3 DEF LogoutHolds
    <2>3. CASE v = u /\ users' = [users EXCEPT ![u] = after] /\ row # NoUser
               /\ ended' = ended \union Ends(h, row)
      <3>1. t = IF want[h].token = Undefined THEN row.token ELSE want[h].token
        BY <1>1, <1>3, <2>3 DEF TypeOK
      <3>2. t \notin Ends(h, row)
        BY <1>6, <3>1
      <3>3. t \in ended
        BY <2>3, <3>2
      <3>4. CASE want[h].token = Undefined
        BY <1>1, <2>3, <3>1, <3>3, <3>4 DEF LogoutHolds
      <3>5. CASE want[h].token # Undefined
        BY <1>4, <2>1, <3>1, <3>3, <3>5 DEF FreshInv, Held
      <3> QED
        BY <3>4, <3>5
    <2>4. CASE v = u /\ UNCHANGED <<users, ended>>
      BY <2>4 DEF LogoutHolds
    <2>5. CASE v = u /\ row = NoUser /\ UNCHANGED users
      BY <2>5
    <2> QED
      BY <1>5, <2>2, <2>3, <2>4, <2>5
  <1> QED
    BY <1>10, <1>11, <1>12

(* An account inserted anew has the token of a login, or none.             *)
LEMMA ReviveTokens ==
    ASSUME TokenInv, TypedInv', NEW h \in Handlers, Revive(h)
    PROVE  TokenInv'
  <1> USE DEF TokenInv
  <1> DEFINE e == IF ent[h].token = Undefined THEN [ent[h] EXCEPT !.token = NoToken] ELSE ent[h]
  <1>1. TypeOK /\ who[h] \in Ids /\ at[h] = "revive" /\ ent[h] \in Entities
    BY DEF Revive, TypedInv, HandInv, HandFits, InHand, TypeOK
  <1>2. /\ e.token \in Tokens => e.token = want[h].token /\ e.token.id = who[h]
    BY <1>1, UndefinedFacts DEF HandTokens, TokenFits, Entities
  <1>3. /\ Idle(h) /\ UNCHANGED <<minted, doubled, ended>>
        /\ UNCHANGED users \/ users' = [users EXCEPT ![who[h]] = e]
    BY DEF Revive
  <1> HIDE DEF e
  <1>4. \A v \in Ids : users'[v] = users[v] \/ (users'[v] = e /\ v = who[h])
    BY <1>1, <1>3 DEF TypeOK
  <1>5. \A t \in Tokens :
           t \in ended' \/ (\E u \in Ids : users'[u] # NoUser /\ users'[u].token = t)
           => Held(t) \/ t = want[h].token
    BY <1>2, <1>3, <1>4 DEF Held
  <1>6. HandTokens' /\ MintedInv' /\ FreshInv'
    BY <1>3, <1>5, EndTokens
  <1>7. RowTokens'
    BY <1>2, <1>4 DEF RowTokens
  <1>8. LogoutHolds'
    <2> SUFFICES ASSUME NEW v \in Ids, users'[v] # NoUser, users'[v].token \in ended
                 PROVE  users'[v].token \in doubled
      BY <1>3 DEF LogoutHolds
    <2>1. CASE users'[v] = users[v]
      BY <2>1 DEF LogoutHolds
    <2>2. CASE users'[v] = e
      <3>1. e.token \in Tokens /\ e.token = want[h].token
        BY <1>1, <1>2, <2>2 DEF TypeOK
      <3> QED
        BY <2>2, <3>1 DEF FreshInv, Held
    <2> QED
      BY <1>4, <2>1, <2>2
  <1> QED
    BY <1>6, <1>7, <1>8

(* Failures, deletions, and the steps that write no row.                   *)
LEMMA OtherTokens ==
    ASSUME TokenInv, TypedInv',
           \/ \E h \in Handlers : Fail(h)
           \/ \E h \in Handlers, t \in issued, u \in Ids : DeleteUser(h, t, u)
           \/ \E t \in handed : Refresh(t)
           \/ Tick
           \/ UNCHANGED vars
    PROVE  TokenInv'
  <1> USE DEF TokenInv
  <1>1. ASSUME NEW h \in Handlers, Fail(h) PROVE TokenInv'
    <2>1. Idle(h) /\ UNCHANGED <<users, minted, doubled, ended>>
      BY <1>1 DEF Fail
    <2>2. HandTokens' /\ MintedInv' /\ FreshInv'
      BY <2>1, EndTokens DEF Held
    <2>3. RowTokens' /\ LogoutHolds'
      BY <2>1 DEF RowTokens, LogoutHolds
    <2> QED
      BY <2>2, <2>3
  <1>2. ASSUME NEW h \in Handlers, NEW t \in issued, NEW u \in Ids, DeleteUser(h, t, u)
        PROVE  TokenInv'
    <2>1. /\ UNCHANGED <<handlerVars, minted, doubled>> /\ TypeOK
          /\ users[u] # NoUser
          /\ users' = [users EXCEPT ![u] = NoUser]
          /\ ended' = ended \union ({users[u].token} \ {NoToken})
      BY <1>2 DEF DeleteUser, TypedInv
    <2>2. \A v \in Ids : users'[v] = IF v = u THEN NoUser ELSE users[v]
      BY <2>1 DEF TypeOK
    <2>3. \A s \in Tokens : Held(s)' => Held(s)
      BY <2>1, <2>2 DEF Held, handlerVars
    <2>4. MintedInv' /\ FreshInv' /\ HandTokens'
      BY <2>1, <2>3, FreshUntouched DEF handlerVars, HandTokens, TokenFits
    <2>5. RowTokens'
      BY <2>2 DEF RowTokens
    <2>6. \A v \in Ids : v # u /\ users[v] # NoUser /\ users[v].token \in Tokens
                          => users[v].token # users[u].token
      BY <2>1 DEF RowTokens, TypeOK
    <2>7. LogoutHolds'
      BY <2>1, <2>2, <2>6 DEF LogoutHolds, TypeOK, Users
    <2> QED
      BY <2>4, <2>5, <2>7
  <1>3. ASSUME UNCHANGED <<users, handlerVars, minted, doubled, ended>> PROVE TokenInv'
    <2>1. MintedInv' /\ FreshInv' /\ HandTokens'
      BY <1>3, FreshUntouched DEF Held, handlerVars, HandTokens, TokenFits
    <2> QED
      BY <1>3, <2>1 DEF RowTokens, LogoutHolds
  <1> QED
    BY <1>1, <1>2, <1>3 DEF Refresh, Tick, vars, handlerVars, histVars

LEMMA TokenInvariance == Spec => []TokenInv
  <1>1. Init => TokenInv
    <2> SUFFICES ASSUME Init PROVE TokenInv
      OBVIOUS
    <2>1. \A t \in Tokens : ~Held(t)
      BY UndefinedFacts DEF Init, Held
    <2> QED
      BY <2>1, TypedInit, NothingType, UndefinedFacts
         DEF Init, TokenInv, RowTokens, HandTokens, TokenFits, MintedInv, FreshInv, LogoutHolds
  <1>2. TokenInv /\ TypedInv' /\ [Next]_vars => TokenInv'
    <2> SUFFICES ASSUME TokenInv, TypedInv', [Next]_vars PROVE TokenInv'
      OBVIOUS
    <2>1. TypedInv
      BY DEF TokenInv
    <2> QED
      BY <2>1, StepCases, RequestTokens, InsertTokens, CreateSessionTokens, SelectTokens,
         UpdateTokens, ReviveTokens, OtherTokens
  <1> QED
    BY <1>1, <1>2, TypedInvariance, PTL DEF Spec

(* A session that was ended, by a logout, a new login or the deletion of   *)
(* its user, is stored again by no handler, however many overlap: except a *)
(* token that was signed twice.                                            *)
THEOREM LogoutStands == Spec => []LogoutHolds
  <1>1. TokenInv => LogoutHolds
    BY DEF TokenInv
  <1> QED
    BY <1>1, TokenInvariance, PTL

-----------------------------------------------------------------------------
(* What a handler knows of the row it is about to write.  Unless another   *)
(* one wrote that row since, it is as the handler read it: what the        *)
(* handler writes then is what its request asks for, and no more.          *)

Agree(e, w, row) == \A c \in Columns \ {"token"} : Over(e, row)[c] = Over(w, row)[c]

Current(h) ==
    InHand(h) /\ h \notin overtaken =>
        /\ users[who[h]] # NoUser
        /\ asked[h] # NoToken => users[who[h]].token = asked[h]
        /\ at[h] = "session" => Agree(ent[h], Nothing, users[who[h]])
        /\ at[h] = "select"  => Agree(ent[h], want[h], users[who[h]])
        /\ at[h] = "update"  => Agree(patch[h], want[h], users[who[h]])

CurrentInv == \A h \in Handlers : Current(h)

(* The others know what they knew, if their rows are not written or they   *)
(* count as overtaken.                                                     *)
LEMMA CurrentKept ==
    ASSUME CurrentInv, NEW h \in Handlers, Current(h)',
           \A g \in Handlers : g # h =>
              /\ SameHand(g)
              /\ g \in overtaken => g \in overtaken'
              /\ InHand(g) /\ g \notin overtaken' => users'[who[g]] = users[who[g]]
    PROVE  CurrentInv'
  <1>1. ASSUME NEW g \in Handlers, g # h PROVE Current(g)'
    BY <1>1 DEF CurrentInv, Current, Agree, Over, InHand, SameHand
  <1> QED
    BY <1>1 DEF CurrentInv

LEMMA RequestCurrent ==
    ASSUME TypedInv, CurrentInv, NEW h \in Handlers,
           \/ \E a \in Accounts : Register(h, a)
           \/ \E e \in GoogleEmails : GoogleLogin(h, e)
           \/ \E u \in Ids : Login(h, u)
           \/ \E t \in handed : Logout(h, t)
           \/ \E t \in issued, u \in Ids, q \in Patches : UpdateUser(h, t, u, q)
    PROVE  CurrentInv'
  <1>0. TypeOK /\ UNCHANGED <<users, overtaken>>
    BY DEF Register, GoogleLogin, Login, Logout, UpdateUser, TypedInv, histVars
  <1>1. ASSUME Current(h)', \A g \in Handlers : g # h => SameHand(g)
        PROVE  CurrentInv'
    BY <1>0, <1>1, CurrentKept
  <1>2. ASSUME NEW s \in {"insert", "insertGoogle"}, NEW e \in Users,
               Goes(h, s, Nobody, e, Nothing, e, NoToken)
        PROVE  CurrentInv'
    <2>1. s \in Steps /\ Nobody \in Ids \union {Nobody} /\ e \in Entities
          /\ Nothing \in Entities /\ NoToken \in Tokens \union {NoToken}
      BY NothingType DEF Steps, Users, Entities
    <2>2. at'[h] = s /\ \A g \in Handlers : g # h => SameHand(g)
      BY <1>0, <1>2, <2>1, Moves
    <2>3. Current(h)'
      BY <2>2 DEF Current, InHand
    <2> QED
      BY <1>1, <2>2, <2>3
  <1>3. ASSUME NEW u \in Ids, NEW hidden, users[u] # NoUser,
               Goes(h, "session", u, Loaded(users[u], hidden), Nothing, Nothing, NoToken)
        PROVE  CurrentInv'
    <2>0. users[u] \in Users
      BY <1>0, <1>3 DEF TypeOK
    <2>1. "session" \in Steps /\ u \in Ids \union {Nobody} /\ Nothing \in Entities
          /\ Loaded(users[u], hidden) \in Entities /\ NoToken \in Tokens \union {NoToken}
      BY <2>0, NothingType, LoadedType DEF Steps
    <2>2. /\ at'[h] = "session" /\ who'[h] = u /\ ent'[h] = Loaded(users[u], hidden)
          /\ asked'[h] = NoToken
          /\ \A g \in Handlers : g # h => SameHand(g)
      BY <1>0, <1>3, <2>1, Moves
    <2>3. Agree(Loaded(users[u], hidden), Nothing, users[u])
      BY <2>0, <2>1, OverType, LoadedType, NothingType DEF Agree
    <2>4. Current(h)'
      BY <1>0, <1>3, <2>2, <2>3 DEF Current, InHand, Agree, Over, Nothing
    <2> QED
      BY <1>1, <2>2, <2>4
  <1>4. ASSUME NEW u \in Ids, NEW hidden, users[u] # NoUser, NEW w \in Entities,
               NEW t \in Tokens \union {NoToken},
               Goes(h, "select", u, Over(w, Loaded(users[u], hidden)), Nothing, w, t),
               t # NoToken => users[u].token = t
        PROVE  CurrentInv'
    <2>0. users[u] \in Users
      BY <1>0, <1>4 DEF TypeOK
    <2>1. "select" \in Steps /\ u \in Ids \union {Nobody} /\ Nothing \in Entities
          /\ Over(w, Loaded(users[u], hidden)) \in Entities
      BY <2>0, NothingType, PatchedType DEF Steps
    <2>2. /\ at'[h] = "select" /\ who'[h] = u /\ want'[h] = w /\ asked'[h] = t
          /\ ent'[h] = Over(w, Loaded(users[u], hidden))
          /\ \A g \in Handlers : g # h => SameHand(g)
      BY <1>0, <1>4, <2>1, Moves
    <2>3. Agree(Over(w, Loaded(users[u], hidden)), w, users[u])
      BY <2>0, PatchedType DEF Agree
    <2>4. Current(h)'
      BY <1>0, <1>4, <2>2, <2>3 DEF Current, InHand, Agree, Over
    <2> QED
      BY <1>1, <2>2, <2>4
  <1>5. ASSUME NEW a \in Accounts, Register(h, a) PROVE CurrentInv'
    <2> DEFINE e == [email |-> a.email, password |-> a.password, token |-> NoToken,
                     role |-> IF a.role = Undefined THEN "user" ELSE a.role]
    <2>1. e \in Users
      BY ConstantsAssumption DEF Users
    <2>2. Goes(h, "insert", Nobody, e, Nothing, e, NoToken)
      BY <1>5 DEF Register
    <2> HIDE DEF e
    <2> QED
      BY <1>2, <2>1, <2>2
  <1>6. ASSUME NEW email \in GoogleEmails, GoogleLogin(h, email) PROVE CurrentInv'
    <2>1. CASE \E u \in Having("email", email) :
                  Goes(h, "session", u, Loaded(users[u], {}), Nothing, Nothing, NoToken)
      BY <1>0, <1>3, <2>1 DEF Having, TypeOK
    <2>2. CASE Goes(h, "insertGoogle", Nobody,
                    [email |-> email, password |-> Generated, role |-> "user", token |-> NoToken], Nothing,
                    [email |-> email, password |-> Generated, role |-> "user", token |-> NoToken], NoToken)
      <3> DEFINE e == [email |-> email, password |-> Generated, role |-> "user", token |-> NoToken]
      <3>1. e \in Users
        BY ConstantsAssumption DEF Users
      <3>2. Goes(h, "insertGoogle", Nobody, e, Nothing, e, NoToken)
        BY <2>2
      <3> HIDE DEF e
      <3> QED
        BY <1>2, <3>1, <3>2
    <2> QED
      BY <1>6, <2>1, <2>2 DEF GoogleLogin
  <1>7. ASSUME NEW u \in Ids, Login(h, u) PROVE CurrentInv'
    BY <1>3, <1>7 DEF Login
  <1>8. ASSUME NEW t \in handed, Logout(h, t) PROVE CurrentInv'
    <2> DEFINE w == [Nothing EXCEPT !.token = NoToken]
    <2>1. PICK u \in Having("token", t) :
              Goes(h, "select", u, Over(w, Loaded(users[u], {"token"})), Nothing, w, t)
      BY <1>8 DEF Logout
    <2>2. u \in Ids /\ users[u] # NoUser /\ users[u].token = t /\ t \in Tokens \union {NoToken}
      BY <1>0 DEF Having, TypeOK
    <2>3. w \in Entities
      BY NothingType
    <2> HIDE DEF w
    <2> QED
      BY <1>4, <2>1, <2>2, <2>3
  <1>9. ASSUME NEW t \in issued, NEW u \in Ids, NEW q \in Patches, UpdateUser(h, t, u, q)
        PROVE  CurrentInv'
    <2>1. Changes(t, q) \in Entities
      BY ConstantsAssumption DEF Changes, Entities
    <2>2. /\ users[u] # NoUser
          /\ Goes(h, "select", u, Over(Changes(t, q), Loaded(users[u], {})), Nothing, Changes(t, q), NoToken)
      BY <1>9 DEF UpdateUser
    <2> QED
      BY <1>4, <2>1, <2>2
  <1> QED
    BY <1>5, <1>6, <1>7, <1>8, <1>9

(* save compares with the row it looked up: from there on what it writes,  *)
(* laid over that row, is what the entity laid over it is.                 *)
LEMMA SavesCurrent ==
    ASSUME TypedInv, CurrentInv, NEW h \in Handlers, NEW u \in given, u = who[h], InHand(h),
           NEW e \in Entities, NEW w \in Entities, NEW t \in Tokens \union {NoToken},
           Saves(h, u, e, w, t), UNCHANGED users,
           h \notin overtaken /\ users[u] # NoUser =>
              Agree(e, w, users[u]) /\ (t # NoToken => users[u].token = t)
    PROVE  CurrentInv'
  <1>1. /\ \A g \in Handlers : g # h => SameHand(g)
        /\ \/ /\ users[u] # NoUser /\ at'[h] = "update"
              /\ who'[h] = u /\ want'[h] = w /\ asked'[h] = t
              /\ patch'[h] = Changed(e, users[u])
              /\ UNCHANGED overtaken
           \/ /\ users[u] = NoUser /\ at'[h] = "revive"
              /\ UNCHANGED overtaken
           \/ /\ at'[h] = "idle"
              /\ overtaken' = overtaken \ {h}
    BY SavesMoves
  <1>2. Current(h)'
    <2>1. CASE at'[h] = "update"
      <3>1. users[u] \in Users /\ users[u] # NoUser
        BY <1>1, <2>1 DEF TypedInv, TypeOK
      <3>2. h \notin overtaken' => Agree(Changed(e, users[u]), w, users[u])
        BY <1>1, <2>1, <3>1, ChangedType DEF Agree
      <3> QED
        BY <1>1, <2>1, <3>1, <3>2 DEF Current, InHand, Agree, Over
    <2>2. CASE at'[h] = "revive"
      BY <1>1, <2>2 DEF CurrentInv, Current
    <2>3. CASE at'[h] = "idle"
      BY <2>3 DEF Current, InHand
    <2> QED
      BY <1>1, <2>1, <2>2, <2>3
  <1> QED
    BY <1>1, <1>2, CurrentKept

LEMMA InsertCurrent ==
    ASSUME TypedInv, CurrentInv, NEW h \in Handlers, Insert(h)
    PROVE  CurrentInv'
  <1>1. TypeOK /\ ent[h] \in Users /\ UNCHANGED overtaken
    BY DEF Insert, TypedInv, HandInv, HandFits
  <1>2. \A g \in Handlers : InHand(g) => users'[who[g]] = users[who[g]]
    BY <1>1 DEF Insert, TypedInv, TypeOK, HandInv, HandFits
  <1>3. CASE Idle(h)
    <2>1. at'[h] = "idle" /\ \A g \in Handlers : g # h => SameHand(g)
      BY <1>1, <1>3, Stops
    <2>2. Current(h)'
      BY <2>1 DEF Current, InHand
    <2> QED
      BY <1>1, <1>2, <2>1, <2>2, CurrentKept
  <1>4. ASSUME NEW u \in Ids, users' = [users EXCEPT ![u] = ent[h]],
               Goes(h, "session", u, ent[h], Nothing, Nothing, NoToken)
        PROVE  CurrentInv'
    <2>1. "session" \in Steps /\ u \in Ids \union {Nobody} /\ Nothing \in Entities
          /\ ent[h] \in Entities /\ NoToken \in Tokens \union {NoToken}
      BY <1>1, NothingType DEF Steps, TypeOK
    <2>2. /\ at'[h] = "session" /\ who'[h] = u /\ ent'[h] = ent[h] /\ asked'[h] = NoToken
          /\ \A g \in Handlers : g # h => SameHand(g)
      BY <1>1, <1>4, <2>1, Moves
    <2>3. users'[u] = ent[h] /\ users'[u] # NoUser
      BY <1>1, <1>4, UndefinedFacts DEF TypeOK
    <2>4. Agree(ent[h], Nothing, ent[h])
      BY DEF Agree, Over, Nothing
    <2>5. Current(h)'
      BY <2>2, <2>3, <2>4 DEF Current, InHand, Agree, Over, Nothing
    <2> QED
      BY <1>1, <1>2, <2>2, <2>5, CurrentKept
  <1> QED
    BY <1>3, <1>4 DEF Insert

LEMMA CreateSessionCurrent ==
    ASSUME TypedInv, CurrentInv, NEW h \in Handlers, CreateSession(h)
    PROVE  CurrentInv'
  <1> DEFINE t == [id |-> who[h], email |-> ent[h].email, role |-> ent[h].role, iat |-> now]
             e == [ent[h] EXCEPT !.token = t]
             w == [Nothing EXCEPT !.token = t]
  <1>1. t \in Tokens
    BY SignedType DEF CreateSession
  <1>2. /\ who[h] \in given /\ ent[h] \in Entities /\ at[h] = "session" /\ InHand(h)
    BY DEF CreateSession, TypedInv, HandInv, HandFits, InHand, TypeOK
  <1>3. Saves(h, who[h], e, w, NoToken) /\ UNCHANGED users
    BY DEF CreateSession
  <1> HIDE DEF t
  <1>4. e \in Entities /\ \A c \in Columns \ {"token"} : e[c] = ent[h][c]
    BY <1>1, <1>2 DEF Entities, Columns
  <1>5. w \in Entities /\ \A c \in Columns \ {"token"} : w[c] = Undefined
    BY <1>1, NothingType
  <1> HIDE DEF e, w
  <1>6. Agree(ent[h], Nothing, users[who[h]]) => Agree(e, w, users[who[h]])
    BY <1>4, <1>5 DEF Agree, Over, Nothing
  <1>7. h \notin overtaken => Agree(ent[h], Nothing, users[who[h]])
    BY <1>2 DEF CurrentInv, Current
  <1> QED
    BY <1>2, <1>3, <1>4, <1>5, <1>6, <1>7, SavesCurrent

LEMMA SelectCurrent ==
    ASSUME TypedInv, CurrentInv, NEW h \in Handlers, Select(h)
    PROVE  CurrentInv'
  <1>1. /\ who[h] \in given /\ ent[h] \in Entities /\ want[h] \in Entities
        /\ asked[h] \in Tokens \union {NoToken} /\ at[h] = "select" /\ InHand(h)
    BY DEF Select, TypedInv, HandInv, HandFits, InHand, TypeOK
  <1>2. h \notin overtaken =>
           /\ Agree(ent[h], want[h], users[who[h]])
           /\ asked[h] # NoToken => users[who[h]].token = asked[h]
    BY <1>1 DEF CurrentInv, Current
  <1>3. Saves(h, who[h], ent[h], want[h], asked[h]) /\ UNCHANGED users
    BY DEF Select
  <1> QED
    BY <1>1, <1>2, <1>3, SavesCurrent

(* A row is written only by a handler that overtakes the others at it.     *)
LEMMA WriteCurrent ==
    ASSUME TypedInv, CurrentInv, NEW h \in Handlers, at'[h] = "idle",
           \A g \in Handlers : g # h => SameHand(g),
           \/ UNCHANGED users /\ (Releases(h) \/ UNCHANGED overtaken)
           \/ \E u \in Ids :
                 Overtakes(h, u) /\ \A v \in Ids : v # u => users'[v] = users[v]
    PROVE  CurrentInv'
  <1>1. Current(h)'
    BY DEF Current, InHand
  <1>2. \A g \in Handlers : InHand(g) => who[g] \in Ids
    BY DEF TypedInv, TypeOK, HandInv, HandFits
  <1>3. \A g \in Handlers : g # h /\ InHand(g) /\ g \notin overtaken' => users'[who[g]] = users[who[g]]
    BY <1>2 DEF Overtakes
  <1>4. \A g \in Handlers : g # h /\ g \in overtaken => g \in overtaken'
    BY DEF Overtakes, Releases
  <1> QED
    BY <1>1, <1>3, <1>4, CurrentKept

LEMMA OtherCurrent ==
    ASSUME TypedInv, CurrentInv,
           \/ \E h \in Handlers : Update(h) \/ Revive(h) \/ Fail(h)
           \/ \E h \in Handlers, t \in issued, u \in Ids : DeleteUser(h, t, u)
           \/ \E t \in handed : Refresh(t)
           \/ Tick
           \/ UNCHANGED vars
    PROVE  CurrentInv'
  <1>0. TypeOK
    BY DEF TypedInv
  <1>1. ASSUME NEW h \in Handlers, Update(h) \/ Revive(h) \/ Fail(h) PROVE CurrentInv'
    <2>1. Idle(h)
      BY <1>1 DEF Update, Revive, Fail
    <2>2. at'[h] = "idle" /\ \A g \in Handlers : g # h => SameHand(g)
      BY <1>0, <2>1, Stops
    <2>3. at[h] \in {"update", "revive"} => who[h] \in Ids
      BY DEF TypedInv, TypeOK, HandInv, HandFits, InHand
    <2>4. \/ UNCHANGED users /\ Releases(h)
          \/ \E u \in Ids : Overtakes(h, u) /\ \A v \in Ids : v # u => users'[v] = users[v]
      BY <1>0, <1>1, <2>3 DEF Update, Revive, Fail, TypeOK
    <2> QED
      BY <2>2, <2>4, WriteCurrent
  <1>2. ASSUME NEW h \in Handlers, NEW t \in issued, NEW u \in Ids, DeleteUser(h, t, u)
        PROVE  CurrentInv'
    <2>1. at'[h] = "idle" /\ \A g \in Handlers : g # h => SameHand(g)
      BY <1>2 DEF DeleteUser, SameHand, handlerVars
    <2>2. Overtakes(h, u) /\ \A v \in Ids : v # u => users'[v] = users[v]
      BY <1>0, <1>2 DEF DeleteUser, TypeOK
    <2> QED
      BY <2>1, <2>2, WriteCurrent
  <1>3. ASSUME UNCHANGED <<users, handlerVars, overtaken>> PROVE CurrentInv'
    BY <1>3 DEF CurrentInv, Current, InHand, Agree, Over, Nothing, handlerVars
  <1> QED
    BY <1>1, <1>2, <1>3 DEF Refresh, Tick, vars, handlerVars, histVars

LEMMA CurrentInvariance == Spec => []CurrentInv
  <1>1. Init => CurrentInv
    BY DEF Init, CurrentInv, Current, InHand
  <1>2. TypedInv /\ CurrentInv /\ [Next]_vars => CurrentInv'
    BY StepCases, RequestCurrent, InsertCurrent, CreateSessionCurrent, SelectCurrent, OtherCurrent
  <1> QED
    BY <1>1, <1>2, TypedInvariance, PTL DEF Spec

(* Accounts are as the requests answered have set them, one after another, *)
(* but for those of which a handler, overtaken between its read and its    *)
(* write, has undone a change.                                             *)
THEOREM ChangesHold == Spec => []ChangesStick
  <1>1. Init => ChangesStick
    BY DEF Init, ChangesStick
  <1>2. TypedInv /\ CurrentInv /\ ChangesStick /\ [Next]_vars => ChangesStick'
    <2> SUFFICES ASSUME TypedInv, CurrentInv, ChangesStick, [Next]_vars PROVE ChangesStick'
      OBVIOUS
    <2>0. TypeOK
      BY DEF TypedInv
    <2>1. ASSUME UNCHANGED <<users, wanted>>, lost \subseteq lost' PROVE ChangesStick'
      BY <2>1 DEF ChangesStick
    <2>2. ASSUME NEW h \in Handlers,
                 \/ \E a \in Accounts : Register(h, a)
                 \/ \E e \in GoogleEmails : GoogleLogin(h, e)
                 \/ \E u \in Ids : Login(h, u)
                 \/ \E t \in handed : Logout(h, t)
                 \/ \E t \in issued, u \in Ids, q \in Patches : UpdateUser(h, t, u, q)
                 \/ CreateSession(h) \/ Select(h) \/ Fail(h)
          PROVE  UNCHANGED <<users, wanted, lost>>
      BY <2>2 DEF Register, GoogleLogin, Login, Logout, UpdateUser, CreateSession, Select, Fail, histVars
    <2>3. ASSUME NEW h \in Handlers, Insert(h) PROVE ChangesStick'
      <3>1. UNCHANGED lost /\ ent[h] \in Users
        BY <2>3 DEF Insert, TypedInv, HandInv, HandFits
      <3>2. ASSUME NEW u \in Ids, users' = [users EXCEPT ![u] = ent[h]],
                   wanted' = [wanted EXCEPT ![u] = ent[h]]
            PROVE  ChangesStick'
        BY <2>0, <3>1, <3>2, UndefinedFacts DEF ChangesStick, TypeOK
      <3> QED
        BY <2>1, <2>3, <3>1, <3>2 DEF Insert
    <2>4. ASSUME NEW h \in Handlers, NEW t \in issued, NEW u \in Ids, DeleteUser(h, t, u)
          PROVE  ChangesStick'
      BY <2>0, <2>4 DEF DeleteUser, ChangesStick, TypeOK
    <2>5. ASSUME NEW h \in Handlers, Update(h) PROVE ChangesStick'
      <3> DEFINE u == who[h]
                 row == users[u]
                 after == Over(patch[h], row)
      <3>1. u \in Ids /\ patch[h] \in Entities /\ want[h] \in Entities
        BY <2>0, <2>5 DEF Update, TypedInv, TypeOK, HandInv, HandFits, InHand
      <3>2. ASSUME row # NoUser,
                   users' = [users EXCEPT ![u] = after],
                   wanted' = [wanted EXCEPT ![u] = IF @ = NoUser THEN @ ELSE Over(want[h], @)],
                   lost' = IF Undoes(h, row, after) THEN lost \union {u} ELSE lost
            PROVE  ChangesStick'
        <4>0. row \in Users /\ after \in Users
          BY <2>0, <3>1, <3>2, OverType DEF TypeOK
        <4>1. \A v \in Ids : v # u => users'[v] = users[v] /\ wanted'[v] = wanted[v]
          BY <2>0, <3>1, <3>2 DEF TypeOK
        <4>2. ~Undoes(h, row, after) =>
                 \A c \in Columns \ {"token"} : after[c] = Over(want[h], row)[c]
          <5>1. h \notin overtaken => Agree(patch[h], want[h], row)
            BY <2>5 DEF Update, CurrentInv, Current, InHand
          <5> QED
            BY <5>1 DEF Undoes, Agree
        <4>3. ASSUME u \notin lost'
              PROVE  /\ wanted[u] # NoUser /\ wanted[u] \in Users
                     /\ users'[u] = after
                     /\ wanted'[u] = Over(want[h], wanted[u])
                     /\ \A c \in Columns \ {"token"} : row[c] = wanted[u][c]
                     /\ \A c \in Columns \ {"token"} : after[c] = Over(want[h], row)[c]
          BY <2>0, <3>1, <3>2, <4>2, <4>3 DEF ChangesStick, TypeOK
        <4>4. ASSUME u \notin lost'
              PROVE  /\ wanted'[u] # NoUser /\ users'[u] # NoUser
                     /\ \A c \in Columns \ {"token"} : users'[u][c] = wanted'[u][c]
          <5>1. /\ Over(want[h], wanted[u]) \in Users
                /\ \A c \in Columns :
                      /\ Over(want[h], wanted[u])[c] = IF want[h][c] = Undefined THEN wanted[u][c] ELSE want[h][c]
                      /\ Over(want[h], row)[c] = IF want[h][c] = Undefined THEN row[c] ELSE want[h][c]
            BY <3>1, <4>0, <4>3, <4>4, OverType
          <5> HIDE DEF after, row, u
          <5> QED
            BY <4>0, <4>3, <4>4, <5>1, UndefinedFacts
        <4> HIDE DEF after, row, u
        <4> QED
          BY <3>2, <4>1, <4>4 DEF ChangesStick
      <3> HIDE DEF after
      <3>3. UNCHANGED <<users, wanted, lost>> \/
            /\ row # NoUser
            /\ users' = [users EXCEPT ![u] = after]
            /\ wanted' = [wanted EXCEPT ![u] = IF @ = NoUser THEN @ ELSE Over(want[h], @)]
            /\ lost' = IF Undoes(h, row, after) THEN lost \union {u} ELSE lost
        BY <2>5 DEF Update, after
      <3> QED
        BY <2>1, <3>2, <3>3
    <2>6. ASSUME NEW h \in Handlers, Revive(h) PROVE ChangesStick'
      <3>1. who[h] \in Ids
        BY <2>0, <2>6 DEF Revive, TypedInv, TypeOK, HandInv, HandFits, InHand
      <3>2. \/ UNCHANGED <<users, wanted, lost>>
            \/ /\ UNCHANGED wanted /\ lost' = lost \union {who[h]}
               /\ \A v \in Ids : v # who[h] => users'[v] = users[v]
        BY <2>0, <2>6 DEF Revive, TypeOK
      <3> QED
        BY <2>1, <3>1, <3>2 DEF ChangesStick
    <2>7. (\E t \in handed : Refresh(t)) \/ Tick \/ UNCHANGED vars => UNCHANGED <<users, wanted, lost>>
      BY DEF Refresh, Tick, vars, histVars
    <2> QED
      BY StepCases, <2>1, <2>2, <2>3, <2>4, <2>5, <2>6, <2>7
  <1> QED
    BY <1>1, <1>2, TypedInvariance, CurrentInvariance, PTL DEF Spec

\* A token can be used, or was ended, or its user has lost a change.
Stands(t) ==
    t \in ended \/ t.id \in lost \/ (users[t.id] # NoUser /\ users[t.id].token = t)

(* The UPDATE of a save takes a token from a row only when it ends it, or  *)
(* when its handler was overtaken, and then the loss is on record.         *)
LEMMA UpdateStands ==
    ASSUME TokenInv, CurrentInv, NEW h \in Handlers, Update(h), NEW t \in Tokens,
           Stands(t) \/ t \in handed' \ handed
    PROVE  Stands(t)'
  <1> DEFINE u == who[h]
             row == users[u]
             after == Over(patch[h], row)
  <1>1. /\ TypeOK /\ u \in Ids /\ patch[h] \in Entities /\ want[h] \in Entities
        /\ at[h] = "update" /\ InHand(h)
    BY DEF Update, TokenInv, TypedInv, HandInv, HandFits, InHand, TypeOK
  <1>2. /\ patch[h].token = want[h].token
        /\ want[h].token \in Tokens => want[h].token.id = u /\ asked[h] = NoToken
        /\ want[h].token = NoToken => asked[h] # NoToken
    BY <1>1 DEF TokenInv, HandTokens, TokenFits
  <1>3. row # NoUser =>
           /\ row \in Users /\ after \in Users
           /\ after.token = IF want[h].token = Undefined THEN row.token ELSE want[h].token
    BY <1>1, <1>2, OverType DEF TypeOK
  <1>4. want[h].token \in Tokens \union {NoToken, Undefined}
    BY <1>1 DEF Entities
  <1>5. t \in handed' => t \in handed \/ t = want[h].token
    BY DEF Update, Answers, tokenVars
  <1>6. ASSUME row # NoUser, users' = [users EXCEPT ![u] = after],
               ended' = ended \union Ends(h, row),
               lost' = IF Undoes(h, row, after) THEN lost \union {u} ELSE lost
        PROVE  Stands(t)'
    <2>1. users'[u] = after /\ after # NoUser /\ \A v \in Ids : v # u => users'[v] = users[v]
      BY <1>1, <1>3, <1>6, UndefinedFacts DEF TypeOK
    <2>2. CASE t = want[h].token
      BY <1>2, <1>3, <1>6, <2>1, <2>2, UndefinedFacts DEF Stands
    <2>3. CASE Stands(t) /\ ~(t.id = u /\ row.token = t)
      <3>1. t.id \in Ids
        BY DEF Tokens
      <3> QED
        BY <1>6, <2>1, <2>3, <3>1 DEF Stands
    <2>4. CASE t.id = u /\ row.token = t /\ t # want[h].token
      <3>1. CASE want[h].token = Undefined
        BY <1>3, <1>6, <2>1, <2>4, <3>1 DEF Stands
      <3>2. CASE want[h].token \in Tokens
        <4>1. t \in Ends(h, row)
          BY <1>2, <1>6, <2>4, <3>2, UndefinedFacts DEF Ends
        <4> QED
          BY <1>6, <4>1 DEF Stands
      <3>3. CASE want[h].token = NoToken
        <4>1. CASE asked[h] = t
          <5>1. t \in Ends(h, row)
            BY <1>2, <3>3, <4>1 DEF Ends
          <5> QED
            BY <1>6, <5>1 DEF Stands
        <4>2. CASE asked[h] # t
          <5>1. h \in overtaken
            BY <1>1, <1>2, <2>4, <3>3, <4>2 DEF CurrentInv, Current
          <5>2. Undoes(h, row, after)
            BY <2>4, <3>3, <4>2, <5>1, UndefinedFacts DEF Undoes
          <5> QED
            BY <1>6, <2>4, <5>2 DEF Stands
        <4> QED
          BY <4>1, <4>2
      <3> QED
        BY <1>4, <3>1, <3>2, <3>3
    <2>5. Stands(t) \/ t = want[h].token
      BY <1>5
    <2> QED
      BY <2>2, <2>3, <2>4, <2>5
  <1>7. ASSUME row = NoUser, UNCHANGED <<users, lost>>,
               ended' = ended \union Ends(h, row) \union ({want[h].token} \intersect Tokens)
        PROVE  Stands(t)'
    BY <1>5, <1>7 DEF Stands
  <1>8. ASSUME UNCHANGED <<users, ended, lost, tokenVars>> PROVE Stands(t)'
    BY <1>8 DEF Stands, tokenVars
  <1> QED
    BY <1>6, <1>7, <1>8 DEF Update

(* A refresh token handed to a client serves it until it is logged out,    *)
(* replaced by a login or its user deleted, or until a handler that        *)
(* overlapped another has undone a change of that user.                    *)
THEOREM SessionsStand == Spec => []HandedStands
  <1>1. Init => HandedStands
    BY DEF Init, HandedStands
  <1>2. TokenInv /\ CurrentInv /\ HandedStands /\ TypedInv' /\ [Next]_vars => HandedStands'
    <2> SUFFICES ASSUME TokenInv, CurrentInv, HandedStands, TypedInv', [Next]_vars, NEW t \in handed'
                 PROVE  Stands(t)'
      BY DEF HandedStands, Stands
    <2>0. TypedInv /\ TypeOK /\ t \in Tokens /\ t.id \in Ids
      BY DEF TokenInv, TypedInv, TypeOK, Tokens
    <2>1. t \in handed => Stands(t)
      BY DEF HandedStands, Stands
    <2>2. ASSUME UNCHANGED <<users, ended, lost, handed>> PROVE Stands(t)'
      BY <2>1, <2>2 DEF Stands
    <2>3. ASSUME NEW h \in Handlers,
                 \/ \E a \in Accounts : Register(h, a)
                 \/ \E e \in GoogleEmails : GoogleLogin(h, e)
                 \/ \E u \in Ids : Login(h, u)
                 \/ \E s \in handed : Logout(h, s)
                 \/ \E s \in issued, u \in Ids, q \in Patches : UpdateUser(h, s, u, q)
                 \/ CreateSession(h) \/ Select(h) \/ Fail(h)
          PROVE  UNCHANGED <<users, ended, lost, handed>>
      BY <2>3 DEF Register, GoogleLogin, Login, Logout, UpdateUser, CreateSession, Select, Fail,
                  histVars, tokenVars
    <2>4. ASSUME NEW h \in Handlers, Insert(h) PROVE Stands(t)'
      <3>1. UNCHANGED <<handed, ended, lost>>
        BY <2>4 DEF Insert, tokenVars
      <3>2. \A v \in Ids : users[v] # NoUser => users'[v] = users[v]
        BY <2>0, <2>4 DEF Insert, TypedInv, RowsGiven, TypeOK
      <3> QED
        BY <2>0, <2>1, <3>1, <3>2 DEF Stands
    <2>5. ASSUME NEW h \in Handlers, Update(h) PROVE Stands(t)'
      BY <2>0, <2>1, <2>5, UpdateStands
    <2>6. ASSUME NEW h \in Handlers, Revive(h) PROVE Stands(t)'
      <3>1. /\ who[h] \in Ids /\ UNCHANGED ended
            /\ want[h].token \in Tokens => want[h].token.id = who[h]
        BY <2>0, <2>6 DEF Revive, TokenInv, TypeOK, TypedInv, HandInv, HandFits, InHand,
                          HandTokens, TokenFits
      <3>2. \/ UNCHANGED <<users, lost, handed>>
            \/ /\ lost' = lost \union {who[h]}
               /\ \A v \in Ids : v # who[h] => users'[v] = users[v]
               /\ handed' \subseteq handed \union {want[h].token}
        BY <2>0, <2>6 DEF Revive, Answers, TypeOK, tokenVars
      <3> QED
        BY <2>0, <2>1, <3>1, <3>2 DEF Stands
    <2>7. ASSUME NEW h \in Handlers, NEW s \in issued, NEW u \in Ids, DeleteUser(h, s, u)
          PROVE  Stands(t)'
      <3>1. /\ UNCHANGED <<handed, lost>>
            /\ ended' = ended \union ({users[u].token} \ {NoToken})
            /\ \A v \in Ids : v # u => users'[v] = users[v]
        BY <2>0, <2>7 DEF DeleteUser, TypeOK, tokenVars
      <3> QED
        BY <2>0, <2>1, <3>1, UndefinedFacts DEF Stands
    <2>8. (\E s \in handed : Refresh(s)) \/ Tick \/ UNCHANGED vars
          => UNCHANGED <<users, ended, lost, handed>>
      BY DEF Refresh, Tick, vars, histVars, tokenVars
    <2> QED
      BY StepCases, <2>0, <2>2, <2>3, <2>4, <2>5, <2>6, <2>7, <2>8
  <1> QED
    BY <1>1, <1>2, TypedInvariance, TokenInvariance, CurrentInvariance, PTL DEF Spec

=============================================================================
