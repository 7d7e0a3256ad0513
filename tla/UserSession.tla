---------------------------- MODULE UserSession ----------------------------
(***************************************************************************)
(* Accounts and sessions of the user service: userController.ts,           *)
(* userService.ts, userRepository.ts and the rows of the table users.      *)
(*                                                                         *)
(* The repository loads an entity, the service changes it, and TypeORM's    *)
(* save looks the row up again and writes the columns that are loaded and  *)
(* differ.  Handlers let others run between these commands; an action is   *)
(* one command to the database.  Names and profiles are left out: no        *)
(* decision depends on them.                                               *)
(***************************************************************************)
EXTENDS Integers, FiniteSets

CONSTANTS
    Handlers,       \* the HTTP requests the service works on at a time
    Ids,            \* bound: the ids the sequence gives out
    Nobody,
    Emails,
    Passwords,      \* the passwords clients know
    Generated,      \* a random password of an account made for a Google login
    Roles,          \* "admin" among them
    Accounts,       \* the bodies of registrations
    GoogleEmails,   \* the addresses of Google accounts that log in
    Patches,        \* the bodies of PUT requests
    NoUser,         \* no row
    NoToken,        \* refresh_token is NULL
    Undefined,      \* a property the entity or the body does not have
    MaxTime,        \* bound: seconds
    MaxRequests     \* bound: requests that pass their first checks

\* What signToken signs: two sessions of a user in one second have the same token.
Tokens == [id : Ids, email : Emails, role : Roles, iat : 0..MaxTime]

\* What the handlers use of an access token.
Actor(t) == [id |-> t.id, role |-> t.role]

Columns == {"email", "password", "role", "token"}
Hidden  == {"password", "token"}        \* select: false

Users == [email : Emails, password : Passwords \union {Generated}, role : Roles,
          token : Tokens \union {NoToken}]
Entities == [email : Emails \union {Undefined},
             password : Passwords \union {Generated, Undefined},
             role : Roles \union {Undefined},
             token : Tokens \union {NoToken, Undefined}]

ASSUME ConstantsAssumption ==
    /\ Nobody \notin Ids
    /\ "user" \in Roles
    /\ Generated \notin Passwords
    /\ Accounts \subseteq [email : Emails, password : Passwords, role : Roles \union {Undefined}]
    /\ GoogleEmails \subseteq Emails
    /\ Patches \subseteq [email : Emails \union {Undefined}, role : Roles \union {Undefined},
                          password : Passwords \union {Undefined}]
    /\ NoUser \notin Users
    /\ NoToken \notin Tokens
    /\ Undefined \notin Emails \union Passwords \union {Generated, NoToken} \union Roles \union Tokens
    /\ MaxTime \in Nat
    /\ MaxRequests \in Nat

VARIABLES
    users,      \* the table, by id
    given,      \* the ids given out
    now,        \* the time in seconds
    requests,   \* the number of requests so far
    at,         \* where each handler is
    who,        \* the id of the entity it has in hand
    ent,        \* that entity, changed by the service
    patch,      \* the columns its UPDATE writes
    want,       \* what its request asks to be changed
    asked,      \* the refresh token a logout was sent
    handed,     \* the refresh tokens clients were answered
    issued,     \* what the access tokens say that clients were answered
    minted,     \* history: the refresh tokens signed
    doubled,    \* history: those signed more than once
    ended,      \* history: those logged out, replaced by a login, or of a deleted user
    wanted,     \* history: the accounts as the requests answered have set them
    overtaken,  \* history: the handlers whose entity was changed by another one
    lost        \* history: the users of whom such a handler has undone a change

handlerVars == <<at, who, ent, patch, want, asked>>
tokenVars   == <<handed, issued>>
histVars    == <<minted, doubled, ended, wanted, overtaken, lost>>
vars == <<users, given, now, requests, at, who, ent, patch, want, asked, handed, issued,
          minted, doubled, ended, wanted, overtaken, lost>>

Nothing == [c \in Columns |-> Undefined]
Steps == {"idle", "insert", "insertGoogle", "session", "select", "update", "revive"}

TypeOK ==
    /\ users \in [Ids -> Users \union {NoUser}]
    /\ given \subseteq Ids
    /\ now \in 0..MaxTime
    /\ requests \in Nat
    /\ at \in [Handlers -> Steps]
    /\ who \in [Handlers -> Ids \union {Nobody}]
    /\ ent \in [Handlers -> Entities]
    /\ patch \in [Handlers -> Entities]
    /\ want \in [Handlers -> Entities]
    /\ asked \in [Handlers -> Tokens \union {NoToken}]
    /\ handed \subseteq Tokens
    /\ issued \subseteq [id : Ids, role : Roles]
    /\ minted \subseteq Tokens
    /\ doubled \subseteq minted
    /\ ended \subseteq Tokens
    /\ wanted \in [Ids -> Users \union {NoUser}]
    /\ overtaken \subseteq Handlers
    /\ lost \subseteq Ids

Init ==
    /\ users = [u \in Ids |-> NoUser]
    /\ given = {}
    /\ now = 0
    /\ requests = 0
    /\ at = [h \in Handlers |-> "idle"]
    /\ who = [h \in Handlers |-> Nobody]
    /\ ent = [h \in Handlers |-> Nothing]
    /\ patch = [h \in Handlers |-> Nothing]
    /\ want = [h \in Handlers |-> Nothing]
    /\ asked = [h \in Handlers |-> NoToken]
    /\ handed = {}
    /\ issued = {}
    /\ minted = {}
    /\ doubled = {}
    /\ ended = {}
    /\ wanted = [u \in Ids |-> NoUser]
    /\ overtaken = {}
    /\ lost = {}

\* These columns of e, else those of d.
Over(e, d) == [c \in Columns |-> IF e[c] = Undefined THEN d[c] ELSE e[c]]

Goes(h, step, u, e, p, w, t) ==
    /\ at' = [at EXCEPT ![h] = step]
    /\ who' = [who EXCEPT ![h] = u]
    /\ ent' = [ent EXCEPT ![h] = e]
    /\ patch' = [patch EXCEPT ![h] = p]
    /\ want' = [want EXCEPT ![h] = w]
    /\ asked' = [asked EXCEPT ![h] = t]

Idle(h) == Goes(h, "idle", Nobody, Nothing, Nothing, Nothing, NoToken)

-----------------------------------------------------------------------------
(* The repository.                                                         *)

Having(c, v) == {u \in given : users[u] # NoUser /\ users[u][c] = v}

\* Mutant: the refresh token is loaded with every entity.
LoadedWithToken(row, hidden) ==
    [c \in Columns |-> IF c \in {"password"} \ hidden THEN Undefined ELSE row[c]]

\* Mutant: an initialiser of the entity sets the role.
LoadedWithDefault(row, hidden) ==
    [c \in Columns |-> IF c = "role" THEN "user" ELSE IF c \in Hidden \ hidden THEN Undefined ELSE row[c]]

\* The entity a query makes of a row: of the hidden columns, those it selects.
Loaded(row, hidden) ==
    [c \in Columns |-> IF c \in Hidden \ hidden THEN Undefined ELSE row[c]]

\* Mutant: no unique constraint.
FreeAlways(e, u) == TRUE

\* The unique constraint on email, for the row of u.
Free(e, u) == \A v \in Having("email", e.email) : v = u

\* Mutant: the refresh token is not written.
ChangedButToken(e, row) ==
    [c \in Columns |-> IF c = "token" \/ e[c] = row[c] THEN Undefined ELSE e[c]]

\* The columns save writes: those that differ, and of the hidden ones, which it does
\* not look up, all the entity has.
Changed(e, row) ==
    [c \in Columns |-> IF c \notin Hidden /\ e[c] = row[c] THEN Undefined ELSE e[c]]

\* A handler is done with its entity.
Releases(h) == overtaken' = overtaken \ {h}

\* Mutant: an entity without a password is inserted too.
SavesAnyway(h, u, e, w, t) ==
    /\ IF users[u] # NoUser
       THEN Goes(h, "update", u, e, Changed(e, users[u]), w, t)
       ELSE Goes(h, "revive", u, e, Nothing, w, t)
    /\ UNCHANGED overtaken

\* The first command of save: it looks the row up.  A row that is gone is inserted
\* anew, for which the password must be there.
Saves(h, u, e, w, t) ==
    \/ /\ users[u] # NoUser
       /\ Goes(h, "update", u, e, Changed(e, users[u]), w, t)
       /\ UNCHANGED overtaken
    \/ /\ users[u] = NoUser
       /\ e.password # Undefined
       /\ Goes(h, "revive", u, e, Nothing, w, t)
       /\ UNCHANGED overtaken
    \/ /\ users[u] = NoUser
       /\ e.password = Undefined
       /\ Idle(h)
       /\ Releases(h)

\* The row of u is written by h: other entities of it are out of date.
Overtakes(h, u) ==
    overtaken' = (overtaken \union {g \in Handlers : who[g] = u}) \ {h}

\* A login or Google login is answered with its tokens.
Answers(h) ==
    IF want[h].token \in Tokens
    THEN /\ handed' = handed \union {want[h].token}
         /\ issued' = issued \union {Actor(want[h].token)}
    ELSE UNCHANGED tokenVars

-----------------------------------------------------------------------------
(* Accounts.                                                               *)

\* register, up to findByEmail; an address that is taken is answered with 409.
Register(h, a) ==
    /\ at[h] = "idle"
    /\ given # Ids
    /\ Having("email", a.email) = {}
    /\ LET e == [email |-> a.email, password |-> a.password, token |-> NoToken,
                 role |-> IF a.role = Undefined THEN "user" ELSE a.role]
       IN  Goes(h, "insert", Nobody, e, Nothing, e, NoToken)
    /\ UNCHANGED <<users, given, now, tokenVars, histVars>>

\* INSERT: it fails if the address was taken meanwhile.  A registration is answered,
\* a Google login goes on.
Insert(h) ==
    /\ at[h] \in {"insert", "insertGoogle"}
    /\ \/ /\ ~Free(ent[h], Nobody)
          /\ Idle(h)
          /\ UNCHANGED <<users, given, wanted>>
       \/ \E u \in Ids \ given :
             /\ Free(ent[h], u)
             /\ users' = [users EXCEPT ![u] = ent[h]]
             /\ given' = given \union {u}
             /\ wanted' = [wanted EXCEPT ![u] = ent[h]]
             /\ IF at[h] = "insert" THEN Idle(h)
                ELSE Goes(h, "session", u, ent[h], Nothing, Nothing, NoToken)
    /\ UNCHANGED <<now, tokenVars, minted, doubled, ended, overtaken, lost>>

\* The user t was signed for.  Neither authenticate nor verifyAccessToken looks at
\* the table; the expiry of tokens is left out.
Authentic(t) == t \in issued

\* The first check of updateUser and deleteUser.
MayChange(t, u) == t.id = u \/ t.role = "admin"

\* The changes updateUser takes from the body; the role only from an admin.
Changes(t, q) ==
    [email |-> q.email, password |-> q.password, token |-> Undefined,
     role |-> IF t.role = "admin" THEN q.role ELSE Undefined]

\* updateUser and updateById, up to the first command of save.  A body without any
\* column changes the name.
UpdateUser(h, t, u, q) ==
    /\ at[h] = "idle"
    /\ Authentic(t)
    /\ MayChange(t, u)
    /\ users[u] # NoUser
    /\ LET w == Changes(t, q)
       IN  Goes(h, "select", u, Over(w, Loaded(users[u], {})), Nothing, w, NoToken)
    /\ UNCHANGED <<users, given, now, tokenVars, histVars>>

\* deleteUser.
DeleteUser(h, t, u) ==
    /\ at[h] = "idle"
    /\ Authentic(t)
    /\ MayChange(t, u)
    /\ users[u] # NoUser
    /\ users' = [users EXCEPT ![u] = NoUser]
    /\ wanted' = [wanted EXCEPT ![u] = NoUser]
    /\ ended' = ended \union ({users[u].token} \ {NoToken})
    /\ Overtakes(h, u)
    /\ UNCHANGED <<given, now, handlerVars, tokenVars, minted, doubled, lost>>

-----------------------------------------------------------------------------
(* Sessions.                                                               *)

\* login, up to the comparison of the passwords, which the client knows.
Login(h, u) ==
    /\ at[h] = "idle"
    /\ users[u] # NoUser
    /\ users[u].password \in Passwords
    /\ Goes(h, "session", u, Loaded(users[u], Hidden), Nothing, Nothing, NoToken)
    /\ UNCHANGED <<users, given, now, tokenVars, histVars>>

\* handleGoogleCallback, from findByEmail on.
GoogleLogin(h, e) ==
    /\ at[h] = "idle"
    /\ \/ \E u \in Having("email", e) :
             Goes(h, "session", u, Loaded(users[u], {}), Nothing, Nothing, NoToken)
       \/ /\ Having("email", e) = {}
          /\ given # Ids
          /\ LET n == [email |-> e, password |-> Generated, role |-> "user", token |-> NoToken]
             IN  Goes(h, "insertGoogle", Nobody, n, Nothing, n, NoToken)
    /\ UNCHANGED <<users, given, now, tokenVars, histVars>>

\* createAuthenticatedSession, up to the first command of save: the payload of the
\* tokens is taken from the entity.
CreateSession(h) ==
    /\ at[h] = "session"
    /\ LET t == [id |-> who[h], email |-> ent[h].email, role |-> ent[h].role, iat |-> now]
       IN  /\ minted' = minted \union {t}
           /\ doubled' = doubled \union ({t} \intersect minted)
           /\ Saves(h, who[h], [ent[h] EXCEPT !.token = t], [Nothing EXCEPT !.token = t], NoToken)
    /\ UNCHANGED <<users, given, now, tokenVars, ended, wanted, lost>>

\* refreshAccessToken.
Refresh(t) ==
    /\ users[t.id] # NoUser
    /\ users[t.id].token = t
    /\ issued' = issued \union {[id |-> t.id, role |-> users[t.id].role]}
    /\ UNCHANGED <<users, given, now, handlerVars, handed, histVars>>

\* logout, up to findByRefreshToken; a token nobody has is answered with 200.
Logout(h, t) ==
    /\ at[h] = "idle"
    /\ \E u \in Having("token", t) :
          LET w == [Nothing EXCEPT !.token = NoToken]
          IN  Goes(h, "select", u, Over(w, Loaded(users[u], {"token"})), Nothing, w, t)
    /\ UNCHANGED <<users, given, now, tokenVars, histVars>>

\* The first command of save, after updateById and logout.
Select(h) ==
    /\ at[h] = "select"
    /\ Saves(h, who[h], ent[h], want[h], asked[h])
    /\ UNCHANGED <<users, given, now, tokenVars, minted, doubled, ended, wanted, lost>>

\* The token a write of h ends: the one it was asked to log out, or the one that its
\* new session replaces.
Ends(h, row) ==
    IF asked[h] # NoToken THEN {asked[h]}
    ELSE IF want[h].token \in Tokens /\ row # NoUser THEN {row.token} \ {NoToken, want[h].token}
    ELSE {}

\* The row was written by another since h read it, and what h makes of it is not what
\* its request asks for: it takes away what the other has set, or leaves out what was
\* there when h looked.
Undoes(h, row, after) ==
    /\ h \in overtaken
    /\ \/ after # Over(want[h], row)
       \/ want[h].token = NoToken /\ row.token \notin {asked[h], NoToken}

\* UPDATE.  No row is no error; an address that is taken is one.
Update(h) ==
    /\ at[h] = "update"
    /\ LET u     == who[h]
           row   == users[u]
           after == Over(patch[h], row)
       IN  \/ /\ row # NoUser
              /\ Free(after, u)
              /\ users' = [users EXCEPT ![u] = after]
              /\ wanted' = [wanted EXCEPT ![u] = IF @ = NoUser THEN @ ELSE Over(want[h], @)]
              /\ ended' = ended \union Ends(h, row)
              /\ lost' = IF Undoes(h, row, after) THEN lost \union {u} ELSE lost
              /\ Overtakes(h, u)
              /\ Answers(h)
           \/ /\ row = NoUser
              /\ ended' = ended \union Ends(h, row) \union ({want[h].token} \intersect Tokens)
              /\ Releases(h)
              /\ Answers(h)
              /\ UNCHANGED <<users, wanted, lost>>
           \/ /\ row # NoUser
              /\ ~Free(after, u)
              /\ Releases(h)
              /\ UNCHANGED <<users, wanted, ended, lost, tokenVars>>
    /\ Idle(h)
    /\ UNCHANGED <<given, now, minted, doubled>>

\* INSERT of an entity whose row is gone, with its id.
Revive(h) ==
    /\ at[h] = "revive"
    /\ LET u == who[h]
           e == IF ent[h].token = Undefined THEN [ent[h] EXCEPT !.token = NoToken] ELSE ent[h]
       IN  \/ /\ users[u] = NoUser
              /\ Free(e, u)
              /\ users' = [users EXCEPT ![u] = e]
              /\ lost' = lost \union {u}
              /\ Overtakes(h, u)
              /\ Answers(h)
           \/ /\ users[u] # NoUser \/ ~Free(e, u)
              /\ Releases(h)
              /\ UNCHANGED <<users, lost, tokenVars>>
    /\ Idle(h)
    /\ UNCHANGED <<given, now, minted, doubled, ended, wanted>>

-----------------------------------------------------------------------------
\* A command to the database fails, or the service restarts.
Fail(h) ==
    /\ at[h] # "idle"
    /\ Idle(h)
    /\ Releases(h)
    /\ UNCHANGED <<users, given, now, tokenVars, minted, doubled, ended, wanted, lost>>

Tick ==
    /\ now < MaxTime
    /\ now' = now + 1
    /\ UNCHANGED <<users, given, handlerVars, tokenVars, histVars>>

HandlerStep(h) ==
    \/ Insert(h) \/ CreateSession(h) \/ Select(h) \/ Update(h) \/ Revive(h) \/ Fail(h)

Request(h) ==
    /\ requests < MaxRequests
    /\ requests' = requests + 1
    /\ \/ \E a \in Accounts : Register(h, a)
       \/ \E e \in GoogleEmails : GoogleLogin(h, e)
       \/ \E u \in Ids : Login(h, u)
       \/ \E t \in handed : Logout(h, t)
       \/ \E t \in issued, u \in Ids :
             DeleteUser(h, t, u) \/ \E q \in Patches : UpdateUser(h, t, u, q)

Next ==
    \/ \E h \in Handlers : Request(h)
    \/ /\ \/ \E h \in Handlers : HandlerStep(h)
          \/ \E t \in handed : Refresh(t)
          \/ Tick
       /\ UNCHANGED requests

Spec == Init /\ [][Next]_vars

-----------------------------------------------------------------------------
\* However registrations, Google logins and changes of address overlap, an address
\* belongs to one account.  The lookup of register and of the Google login is not
\* what ensures it, and updateById has none.
EmailsUnique ==
    \A u, v \in Ids :
        users[u] # NoUser /\ users[v] # NoUser /\ users[u].email = users[v].email => u = v

\* A session that has ended stays ended: no handler that read the account earlier
\* stores its refresh token again.  But for a token signed twice: two logins in one
\* second have the same.
LogoutHolds ==
    \A u \in Ids : users[u] # NoUser /\ users[u].token \in ended => users[u].token \in doubled

\* A refresh token a client was answered can be used until it is logged out, replaced
\* by a login or its user deleted, unless a handler that overlapped undid it.
HandedStands ==
    \A t \in handed :
        t \in ended \/ t.id \in lost \/ (users[t.id] # NoUser /\ users[t.id].token = t)

\* An account is as the requests answered have set it, one after the other, unless
\* one of them has undone what another had set between its read and its write; a
\* deleted one stays deleted but for that.
ChangesStick ==
    \A u \in Ids \ lost :
        IF wanted[u] = NoUser THEN users[u] = NoUser
        ELSE /\ users[u] # NoUser
             /\ \A c \in Columns \ {"token"} : users[u][c] = wanted[u][c]

=============================================================================
