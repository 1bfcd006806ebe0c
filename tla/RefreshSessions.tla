-------------------------- MODULE RefreshSessions --------------------------
(***************************************************************************)
(* The account of one e-mail address and its refresh sessions:             *)
(* registration, login, token rotation and logout as database transactions *)
(* that overlap, with the unique key of the address, the row locks of      *)
(* SELECT ... FOR UPDATE, a deactivation of the user, and responses that   *)
(* leave before the transaction commits.                                   *)
(*                                                                         *)
(* A token is the number under which create_token issued it, and stands    *)
(* for its digest, its jti and the row that stores them.  A transaction's  *)
(* writes are its own until it commits, so they are made by the commit.    *)
(* Clients are not modelled: any token that a response carried may be      *)
(* presented again, at any time and as often as one likes.                 *)
(***************************************************************************)
EXTENDS Naturals

CONSTANTS Requests,    \* requests about the address being served
          NoRequest,   \* no one holds a row lock
          MaxTokens    \* bound on the refresh tokens ever issued

ASSUME SessionBounds == NoRequest \notin Requests /\ MaxTokens \in Nat

VARIABLES row,         \* committed rows of refresh_sessions
          revoked,     \* rows with revoked_at
          next,        \* replaced_by_id
          lock,        \* who holds FOR UPDATE on a row
          users,       \* committed rows of users with the address
          active,      \* users.is_active
          expired,     \* tokens past exp and expires_at
          issued,      \* tokens created so far
          held,        \* tokens that some response carried
          pc, op,      \* where a request is, and what it does
          tok, new,    \* the token presented, the token created
          login,       \* history: the token that opened a row's login
          late,        \* history: rows committed after the deactivation
          leaving,     \* history: the login a logout found live on arrival
          left         \* history: logins whose logout has been carried out

tableVars   == <<row, revoked, next, login>>
requestVars == <<pc, op, tok, new, leaving>>
vars == <<tableVars, requestVars, lock, users, active, expired, issued, held, late, left>>

Tokens  == 1 .. MaxTokens
NoToken == 0

\* A row that refresh would rotate and logout would revoke.
Live == row \ revoked

Init == /\ row = {} /\ revoked = {}
        /\ next = [t \in Tokens |-> NoToken]
        /\ lock = [t \in Tokens |-> NoRequest]
        /\ users \in {0, 1}
        /\ active = TRUE
        /\ expired = {}
        /\ issued = 0
        /\ held = {}
        /\ pc = [q \in Requests |-> "idle"]
        /\ op = [q \in Requests |-> "none"]
        /\ tok = [q \in Requests |-> NoToken]
        /\ new = [q \in Requests |-> NoToken]
        /\ login = [t \in Tokens |-> NoToken]
        /\ late = {}
        /\ leaving = [q \in Requests |-> NoToken]
        /\ left = {}

Goto(q, from, to) == pc[q] = from /\ pc' = [pc EXCEPT ![q] = to]

\* The request is over; its transaction keeps no lock.
Release(q) ==
    lock' = [t \in Tokens |-> IF lock[t] = q THEN NoRequest ELSE lock[t]]

End(q) ==
    /\ pc' = [pc EXCEPT ![q] = "idle"]
    /\ op' = [op EXCEPT ![q] = "none"]
    /\ tok' = [tok EXCEPT ![q] = NoToken]
    /\ new' = [new EXCEPT ![q] = NoToken]
    /\ leaving' = [leaving EXCEPT ![q] = NoToken]
    /\ Release(q)

-----------------------------------------------------------------------------
\* POST /auth/register: get_user_by_email finds nobody; otherwise the request is
\* answered 409 at once.
StartRegister(q) ==
    /\ users = 0
    /\ Goto(q, "idle", "insert")
    /\ op' = [op EXCEPT ![q] = "register"]
    /\ UNCHANGED <<tableVars, tok, new, leaving, lock, users, active, expired, issued,
                   held, late, left>>

\* Who has inserted the address and not committed yet.
Registering == {q \in Requests : op[q] = "register" /\ pc[q] \in {"create", "respond", "commit"}}

\* Mutant: users.email is not unique.
InsertAnyUser(q) ==
    /\ Goto(q, "insert", "create")
    /\ UNCHANGED <<tableVars, op, tok, new, leaving, lock, users, active, expired, issued,
                   held, late, left>>

\* create_user: the insert waits for whoever has inserted the address before.
InsertUser(q) ==
    /\ Registering = {} /\ users = 0
    /\ Goto(q, "insert", "create")
    /\ UNCHANGED <<tableVars, op, tok, new, leaving, lock, users, active, expired, issued,
                   held, late, left>>

\* create_user: a unique violation becomes EmailAlreadyRegisteredError: 409.
RefuseAddress(q) ==
    /\ pc[q] = "insert"
    /\ Registering = {} /\ users # 0
    /\ End(q)
    /\ UNCHANGED <<tableVars, users, active, expired, issued, held, late, left>>

\* POST /auth/login with the right password: the user is read and is active.
\* A wrong password or an inactive user is refused before anything is written.
StartLogin(q) ==
    /\ users # 0 /\ active
    /\ Goto(q, "idle", "create")
    /\ op' = [op EXCEPT ![q] = "login"]
    /\ UNCHANGED <<tableVars, tok, new, leaving, lock, users, active, expired, issued,
                   held, late, left>>

\* POST /auth/refresh: decode_token refuses a token that has expired.
StartRefresh(q, t) ==
    /\ t \in held \ expired
    /\ Goto(q, "idle", "lock")
    /\ op' = [op EXCEPT ![q] = "refresh"]
    /\ tok' = [tok EXCEPT ![q] = t]
    /\ UNCHANGED <<tableVars, new, leaving, lock, users, active, expired, issued, held,
                   late, left>>

\* POST /auth/logout: the cookie is taken as it is.
StartLogout(q, t) ==
    /\ t \in held
    /\ Goto(q, "idle", "lock")
    /\ op' = [op EXCEPT ![q] = "logout"]
    /\ tok' = [tok EXCEPT ![q] = t]
    /\ leaving' = [leaving EXCEPT ![q] = IF t \in Live THEN login[t] ELSE NoToken]
    /\ UNCHANGED <<tableVars, new, lock, users, active, expired, issued, held, late, left>>

\* get_by_token_hash_for_update: waits for the row lock, then sees the row as
\* last committed.
Acquire(q) ==
    /\ lock[tok[q]] = NoRequest
    /\ lock' = [lock EXCEPT ![tok[q]] = q]

\* Mutants: the row is read without FOR UPDATE; revoked_at is not looked at.
ReadForRefresh(q) ==
    /\ op[q] = "refresh"
    /\ Goto(q, "lock", "user")
    /\ tok[q] \in Live \ expired
    /\ UNCHANGED <<tableVars, op, tok, new, leaving, lock, users, active, expired, issued,
                   held, late, left>>

LockRevoked(q) ==
    /\ op[q] = "refresh"
    /\ Goto(q, "lock", "user")
    /\ tok[q] \in row \ expired
    /\ Acquire(q)
    /\ UNCHANGED <<tableVars, op, tok, new, leaving, users, active, expired, issued, held,
                   late, left>>

\* refresh: _validate_refresh_session accepts the locked row.
LockForRefresh(q) ==
    /\ op[q] = "refresh"
    /\ Goto(q, "lock", "user")
    /\ tok[q] \in Live \ expired
    /\ Acquire(q)
    /\ UNCHANGED <<tableVars, op, tok, new, leaving, users, active, expired, issued, held,
                   late, left>>

\* refresh: there is no such row, or it is revoked or expired: 401, rollback.
RefuseToken(q) ==
    /\ op[q] = "refresh" /\ pc[q] = "lock"
    /\ tok[q] \notin Live \ expired
    /\ lock[tok[q]] = NoRequest
    /\ End(q)
    /\ UNCHANGED <<tableVars, users, active, expired, issued, held, late, left>>

\* Mutant: is_active is not looked at.
CheckNobody(q) ==
    /\ Goto(q, "user", "create")
    /\ UNCHANGED <<tableVars, op, tok, new, leaving, lock, users, active, expired, issued,
                   held, late, left>>

\* refresh: the user is read, without a lock on it.
CheckUser(q) ==
    /\ active
    /\ Goto(q, "user", "create")
    /\ UNCHANGED <<tableVars, op, tok, new, leaving, lock, users, active, expired, issued,
                   held, late, left>>

\* refresh: the user is inactive: 401, rollback.
RefuseUser(q) ==
    /\ ~active
    /\ pc[q] = "user"
    /\ End(q)
    /\ UNCHANGED <<tableVars, users, active, expired, issued, held, late, left>>

\* _create_session, or create_token and rotate: the statements are flushed.
Create(q) ==
    /\ issued < MaxTokens
    /\ Goto(q, "create", "respond")
    /\ issued' = issued + 1
    /\ new' = [new EXCEPT ![q] = issued + 1]
    /\ UNCHANGED <<tableVars, op, tok, leaving, lock, users, active, expired, held, late, left>>

\* revoke_by_token_hash: a live row is locked and revoked; for any other token
\* there is nothing to do.
LockForLogout(q) ==
    /\ op[q] = "logout"
    /\ Goto(q, "lock", "respond")
    /\ \/ tok[q] \in Live /\ Acquire(q)
       \/ tok[q] \notin Live /\ lock[tok[q]] = NoRequest /\ UNCHANGED lock
    /\ UNCHANGED <<tableVars, op, tok, new, leaving, users, active, expired, issued, held,
                   late, left>>

\* The response leaves, with the new token in its cookies, before get_db commits.
Respond(q) ==
    /\ Goto(q, "respond", "commit")
    /\ held' = held \cup ({new[q]} \ {NoToken})
    /\ UNCHANGED <<tableVars, op, tok, new, leaving, lock, users, active, expired, issued,
                   late, left>>

\* get_db: the session row of a login, or a new user with his, becomes visible.
CommitLogin(q) ==
    /\ op[q] \in {"login", "register"} /\ pc[q] = "commit"
    /\ users' = IF op[q] = "register" THEN users + 1 ELSE users
    /\ row' = row \cup {new[q]}
    /\ login' = [login EXCEPT ![new[q]] = new[q]]
    /\ late' = IF active THEN late ELSE late \cup {new[q]}
    /\ End(q)
    /\ UNCHANGED <<revoked, next, active, expired, issued, held, left>>

\* Mutants: the replacement is not linked; the link holds some other id.
CommitUnlinked(q) ==
    /\ op[q] = "refresh" /\ pc[q] = "commit"
    /\ row' = row \cup {new[q]}
    /\ revoked' = revoked \cup {tok[q]}
    /\ login' = [login EXCEPT ![new[q]] = login[tok[q]]]
    /\ late' = IF active THEN late ELSE late \cup {new[q]}
    /\ End(q)
    /\ UNCHANGED <<next, users, active, expired, issued, held, left>>

CommitMislinked(q) ==
    /\ op[q] = "refresh" /\ pc[q] = "commit"
    /\ row' = row \cup {new[q]}
    /\ revoked' = revoked \cup {tok[q]}
    /\ next' = [next EXCEPT ![tok[q]] = q]
    /\ login' = [login EXCEPT ![new[q]] = login[tok[q]]]
    /\ late' = IF active THEN late ELSE late \cup {new[q]}
    /\ End(q)
    /\ UNCHANGED <<users, active, expired, issued, held, left>>

\* get_db: the rotated row is revoked and points to its replacement.
CommitRefresh(q) ==
    /\ op[q] = "refresh" /\ pc[q] = "commit"
    /\ row' = row \cup {new[q]}
    /\ revoked' = revoked \cup {tok[q]}
    /\ next' = [next EXCEPT ![tok[q]] = new[q]]
    /\ login' = [login EXCEPT ![new[q]] = login[tok[q]]]
    /\ late' = IF active THEN late ELSE late \cup {new[q]}
    /\ End(q)
    /\ UNCHANGED <<users, active, expired, issued, held, left>>

\* get_db: the row that logout locked, if it did, is revoked.
CommitLogout(q) ==
    /\ op[q] = "logout" /\ pc[q] = "commit"
    /\ revoked' = IF lock[tok[q]] = q THEN revoked \cup {tok[q]} ELSE revoked
    /\ left' = left \cup ({leaving[q]} \ {NoToken})
    /\ End(q)
    /\ UNCHANGED <<row, next, login, users, active, expired, issued, held, late>>

\* A statement or the commit fails, or the process dies: nothing is written.
Abort(q) ==
    /\ pc[q] # "idle"
    /\ End(q)
    /\ UNCHANGED <<tableVars, users, active, expired, issued, held, late, left>>

\* An operator deactivates the user.
Deactivate ==
    /\ users # 0 /\ active
    /\ active' = FALSE
    /\ UNCHANGED <<tableVars, requestVars, lock, users, expired, issued, held, late, left>>

\* Time passes.
Expire(t) ==
    /\ t \in (1 .. issued) \ expired
    /\ expired' = expired \cup {t}
    /\ UNCHANGED <<tableVars, requestVars, lock, users, active, issued, held, late, left>>

-----------------------------------------------------------------------------
Work(q) == \/ InsertUser(q) \/ RefuseAddress(q)
           \/ RefuseToken(q) \/ CheckUser(q) \/ RefuseUser(q)
           \/ Create(q) \/ Respond(q)
           \/ CommitLogin(q) \/ CommitRefresh(q) \/ CommitLogout(q)
Lock(q) == LockForRefresh(q) \/ LockForLogout(q)

Next == \/ \E q \in Requests : Work(q) \/ Lock(q) \/ Abort(q)
                                \/ StartRegister(q) \/ StartLogin(q)
        \/ \E q \in Requests, t \in Tokens : StartRefresh(q, t) \/ StartLogout(q, t)
        \/ Deactivate
        \/ \E t \in Tokens : Expire(t)

Spec == Init /\ [][Next]_vars

-----------------------------------------------------------------------------
TypeOK ==
    /\ row \subseteq Tokens /\ revoked \subseteq Tokens
    /\ next \in [Tokens -> Tokens \cup {NoToken}]
    /\ lock \in [Tokens -> Requests \cup {NoRequest}]
    /\ users \in Nat
    /\ active \in BOOLEAN
    /\ expired \subseteq Tokens
    /\ issued \in 0 .. MaxTokens
    /\ held \subseteq Tokens
    /\ pc \in [Requests -> {"idle", "insert", "lock", "user", "create", "respond",
                           "commit"}]
    /\ op \in [Requests -> {"none", "register", "login", "refresh", "logout"}]
    /\ tok \in [Requests -> Tokens \cup {NoToken}]
    /\ new \in [Requests -> Tokens \cup {NoToken}]
    /\ login \in [Tokens -> Tokens \cup {NoToken}]
    /\ late \subseteq Tokens
    /\ leaving \in [Requests -> Tokens \cup {NoToken}]
    /\ left \subseteq Tokens

\* However many registrations of an address find it free at a time, one user is
\* made of it, and nobody can use a session before that user is there.
UniqueAddress == users <= 1 /\ (users = 0 => row = {})

\* However refreshes, replays and logouts of its tokens overlap, a login has at
\* most one session row that can still be used.
OneLivePerLogin == \A t, u \in Live : login[t] = login[u] => t = u

\* replaced_by_id links the rows of a login into one line: a row is replaced
\* once, by a row of its own login, and no row replaces two.
ReplacementsFormLines ==
    /\ \A t \in row : next[t] # NoToken =>
          /\ t \in revoked
          /\ next[t] \in row /\ login[next[t]] = login[t]
    /\ \A t, u \in row : next[t] = next[u] /\ next[t] # NoToken => t = u
    /\ \A t \in row : login[t] = t \/ \E u \in row : next[u] = t

\* Deactivating the user ends each login within one rotation, the one that had
\* read the user before.
DeactivationEndsLogins == \A t, u \in late : login[t] = login[u] => t = u

\* test_logout_revokes_current_session_and_is_idempotent: when a logout that was
\* sent with the token of a live session is done, that login is over.
LogoutEndsLogin == \A t \in Live \ expired : login[t] \notin left

-----------------------------------------------------------------------------
\* The token that serves a login.
Current(l) == LET serving == {t \in Live : login[t] = l} IN
              IF serving = {} THEN NoToken ELSE CHOOSE t \in serving : TRUE

Logins == INSTANCE LoginSessions
            WITH current <- [l \in Tokens |-> Current(l)],
                 begun <- {t \in row : login[t] = t},
                 spent <- row

\* The session table serves each login through one token at a time.
ImplementsLogins == Logins!Spec
-----------------------------------------------------------------------------
(* Why the invariants hold: their inductive form.                          *)

\* What a request carries at each of its statements.
Stages ==
    \A q \in Requests :
       /\ pc[q] = "idle" <=> op[q] = "none"
       /\ pc[q] = "insert" => op[q] = "register"
       /\ pc[q] = "lock" => op[q] \in {"refresh", "logout"}
       /\ pc[q] = "user" => op[q] = "refresh"
       /\ pc[q] = "create" => op[q] # "logout"
       /\ op[q] \in {"refresh", "logout"} => tok[q] \in Tokens
       /\ new[q] \in Tokens <=> op[q] # "logout" /\ pc[q] \in {"respond", "commit"}

\* A token is created once and stored once.
FreshTokens ==
    /\ row \subseteq 1 .. issued
    /\ \A q \in Requests : new[q] \in Tokens =>
          /\ new[q] <= issued /\ new[q] \notin row
          /\ \A r \in Requests : new[r] = new[q] => r = q

\* What a row says, a row that was never committed does not.
RowsLinked ==
    /\ revoked \subseteq row
    /\ \A t \in row : login[t] \in row
    /\ \A t \in Tokens \ row : next[t] = NoToken

\* A refresh between its lock and its end.
Refreshing(q) == op[q] = "refresh" /\ pc[q] \in {"user", "create", "respond", "commit"}

\* A locked row is live, and its holder is at work on it.
LocksHeld ==
    /\ \A q \in Requests : Refreshing(q) => lock[tok[q]] = q
    /\ \A t \in Tokens, q \in Requests : lock[t] = q =>
          /\ tok[q] = t /\ t \in Live
          /\ Refreshing(q) \/ (op[q] = "logout" /\ pc[q] \in {"respond", "commit"})

\* Whoever has inserted the address is alone; whoever logs in has found it.
AddressHeld ==
    /\ \A q, r \in Registering : q = r
    /\ Registering # {} => users = 0
    /\ \A q \in Requests : op[q] = "login" => users # 0

\* A refresh that has read an active user is the last of its login.
LastRotation ==
    /\ late \subseteq row
    /\ active => late = {}
    /\ \A q \in Requests : Refreshing(q) /\ pc[q] # "user" =>
          \A t \in late : login[t] # login[tok[q]]

IInv == /\ TypeOK /\ Stages /\ FreshTokens /\ RowsLinked /\ LocksHeld
        /\ AddressHeld /\ UniqueAddress /\ OneLivePerLogin /\ ReplacementsFormLines
        /\ LastRotation /\ DeactivationEndsLogins
=============================================================================
