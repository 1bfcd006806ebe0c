------------------------ MODULE RefreshSessionsProofs ------------------------
(***************************************************************************)
(* Proofs about RefreshSessions, for any requests and number of tokens.    *)
(*                                                                         *)
(* The argument: a refresh holds the lock of its row from the moment it    *)
(* has found it live until it ends, so that a live row is replaced once,   *)
(* by a token that nobody else has created.  A refresh that rotates a      *)
(* login of a deactivated user had read the user before; the rows it       *)
(* leaves behind can only be rotated by a refresh that reads him after.    *)
(***************************************************************************)
EXTENDS RefreshSessions, TLAPS

USE SessionBounds

-----------------------------------------------------------------------------
\* The user may be there, nothing else is.
LEMMA InitInvariant == Init => IInv
<1> SUFFICES ASSUME Init PROVE IInv
  OBVIOUS
<1>1. TypeOK
  BY DEF Init, TypeOK, Tokens, NoToken
<1>2. Stages /\ AddressHeld /\ LastRotation
  BY DEF Init, Stages, AddressHeld, Registering, LastRotation, Refreshing, Tokens, NoToken
<1>3. FreshTokens /\ RowsLinked /\ LocksHeld
  BY DEF Init, FreshTokens, RowsLinked, LocksHeld, Refreshing, Tokens, NoToken
<1>4. UniqueAddress /\ OneLivePerLogin /\ ReplacementsFormLines /\ DeactivationEndsLogins
  BY DEF Init, UniqueAddress, OneLivePerLogin, Live, ReplacementsFormLines, DeactivationEndsLogins
<1> QED
  BY <1>1, <1>2, <1>3, <1>4 DEF IInv

\* What the rows say holds until a row is written.
Table == /\ RowsLinked /\ OneLivePerLogin /\ ReplacementsFormLines /\ DeactivationEndsLogins

LEMMA TableKept ==
    ASSUME IInv, UNCHANGED <<tableVars, late>>
    PROVE  Table'
BY DEF IInv, Table, tableVars, Live, RowsLinked, OneLivePerLogin, ReplacementsFormLines,
       DeactivationEndsLogins

\* A request arrives: it holds nothing and has created nothing.
LEMMA StartKeeps ==
    ASSUME IInv, NEW q \in Requests,
           \/ StartRegister(q) \/ StartLogin(q)
           \/ \E t \in Tokens : StartRefresh(q, t) \/ StartLogout(q, t)
    PROVE  IInv'
<1> DEFINE To == IF op'[q] = "register" THEN "insert"
                 ELSE IF op'[q] = "login" THEN "create" ELSE "lock"
<1>1. /\ UNCHANGED <<tableVars, new, lock, users, active, expired, issued, held, late, left>>
      /\ pc[q] = "idle" /\ op'[q] \in {"register", "login", "refresh", "logout"}
      /\ pc' = [pc EXCEPT ![q] = To]
      /\ op' = [op EXCEPT ![q] = op'[q]]
      /\ tok' \in [Requests -> Tokens \cup {NoToken}]
      /\ leaving' \in [Requests -> Tokens \cup {NoToken}]
      /\ \A r \in Requests : r # q => tok'[r] = tok[r]
      /\ op'[q] \in {"refresh", "logout"} => tok'[q] \in Tokens
      /\ op'[q] = "login" => users # 0
      /\ op'[q] = "register" => users = 0
  BY DEF IInv, TypeOK, StartRegister, StartLogin, StartRefresh, StartLogout, Goto
<1>2. /\ op[q] = "none" /\ new[q] \notin Tokens /\ ~Refreshing(q)
      /\ \A u \in Tokens : lock[u] # q
  BY <1>1 DEF IInv, Stages, LocksHeld, Refreshing
<1>3. \A r \in Requests : r # q => pc'[r] = pc[r] /\ op'[r] = op[r] /\ Refreshing(r)' = Refreshing(r)
  BY <1>1 DEF IInv, TypeOK, Refreshing
<1>4. pc'[q] = To /\ ~Refreshing(q)'
  BY <1>1 DEF IInv, TypeOK, Refreshing
<1>5. TypeOK'
  BY <1>1 DEF IInv, TypeOK, tableVars
<1>6. Stages'
  BY <1>1, <1>2, <1>3, <1>4 DEF IInv, Stages
<1>7. FreshTokens'
  BY <1>1 DEF IInv, FreshTokens, tableVars
<1>8. LocksHeld'
  BY <1>1, <1>2, <1>3, <1>4 DEF IInv, LocksHeld, Live, tableVars
<1>9. AddressHeld'
  <2>1. Registering' = Registering
    BY <1>1, <1>2, <1>3, <1>4 DEF Registering
  <2> QED
    BY <1>1, <1>3, <2>1 DEF IInv, AddressHeld
<1>10. UniqueAddress'
  BY <1>1 DEF IInv, UniqueAddress, tableVars
<1>11. LastRotation'
  BY <1>1, <1>3, <1>4 DEF IInv, LastRotation, tableVars
<1> QED
  BY <1>1, <1>5, <1>6, <1>7, <1>8, <1>9, <1>10, <1>11, TableKept DEF IInv, Table

\* A statement that writes nothing and locks nothing.
LEMMA PassKeeps ==
    ASSUME IInv, NEW q \in Requests, InsertUser(q) \/ CheckUser(q) \/ Respond(q)
    PROVE  IInv'
<1> DEFINE To == IF pc[q] = "respond" THEN "commit" ELSE "create"
<1>1. /\ UNCHANGED <<tableVars, op, tok, new, leaving, lock, users, active, expired, issued,
                     late, left>>
      /\ held' \subseteq Tokens
      /\ pc[q] \in {"insert", "user", "respond"}
      /\ pc[q] = "insert" => users = 0 /\ Registering = {}
      /\ pc[q] = "user" => active
      /\ pc' = [pc EXCEPT ![q] = To]
  BY DEF IInv, TypeOK, InsertUser, CheckUser, Respond, Goto
<1>2. \A r \in Requests : r # q => pc'[r] = pc[r]
  BY <1>1 DEF IInv, TypeOK
<1>3. pc'[q] = To
  BY <1>1 DEF IInv, TypeOK
<1>4. \A r \in Requests : Refreshing(r)' = Refreshing(r)
  BY <1>1, <1>2, <1>3 DEF IInv, Stages, Refreshing
<1>5. TypeOK'
  BY <1>1 DEF IInv, TypeOK, tableVars
<1>6. Stages'
  BY <1>1, <1>2, <1>3 DEF IInv, Stages
<1>7. FreshTokens'
  BY <1>1 DEF IInv, FreshTokens, tableVars
<1>8. LocksHeld'
  <2>1. \A r \in Requests : pc[r] \in {"respond", "commit"} => pc'[r] \in {"respond", "commit"}
    BY <1>1, <1>2, <1>3
  <2> QED
    BY <1>1, <1>4, <2>1 DEF IInv, LocksHeld, Live, tableVars
<1>9. AddressHeld'
  <2>1. CASE pc[q] = "insert"
    BY <1>1, <1>2, <2>1 DEF IInv, AddressHeld, Registering
  <2>2. CASE pc[q] # "insert"
    BY <1>1, <1>2, <1>3, <2>2 DEF IInv, AddressHeld, Registering, Stages
  <2> QED
    BY <2>1, <2>2
<1>10. UniqueAddress'
  BY <1>1 DEF IInv, UniqueAddress, tableVars
<1>11. LastRotation'
  BY <1>1, <1>2, <1>3, <1>4 DEF IInv, LastRotation, tableVars
<1> QED
  BY <1>1, <1>5, <1>6, <1>7, <1>8, <1>9, <1>10, <1>11, TableKept DEF IInv, Table

\* A refresh or a logout takes the lock of a live row, or a logout finds none.
LEMMA LockKeeps ==
    ASSUME IInv, NEW q \in Requests, Lock(q)
    PROVE  IInv'
<1> DEFINE To == IF op[q] = "refresh" THEN "user" ELSE "respond"
<1>1. /\ UNCHANGED <<tableVars, op, tok, new, leaving, users, active, expired, issued, held,
                     late, left>>
      /\ pc[q] = "lock" /\ pc' = [pc EXCEPT ![q] = To]
      /\ op[q] \in {"refresh", "logout"}
      /\ lock[tok[q]] = NoRequest
      /\ \/ tok[q] \in Live /\ lock' = [lock EXCEPT ![tok[q]] = q]
         \/ op[q] = "logout" /\ UNCHANGED lock
  BY DEF Lock, LockForRefresh, LockForLogout, Acquire, Goto
<1>2. /\ \A r \in Requests : r # q => pc'[r] = pc[r] /\ Refreshing(r)' = Refreshing(r)
      /\ pc'[q] = To /\ Refreshing(q)' = (op[q] = "refresh")
  BY <1>1 DEF IInv, TypeOK, Refreshing
<1>3. /\ tok[q] \in Tokens /\ ~Refreshing(q)
      /\ \A u \in Tokens : lock[u] # q
  BY <1>1 DEF IInv, Stages, LocksHeld, Refreshing
<1>4. TypeOK'
  BY <1>1, <1>3 DEF IInv, TypeOK, tableVars
<1>5. Stages'
  BY <1>1, <1>2 DEF IInv, Stages
<1>6. FreshTokens'
  BY <1>1 DEF IInv, FreshTokens, tableVars
<1>7. LocksHeld'
  <2>1. \A r \in Requests : Refreshing(r) => lock[tok[r]] = r /\ tok[r] \in Tokens /\ tok[r] # tok[q]
    BY <1>1 DEF IInv, LocksHeld, Stages, Refreshing
  <2>2. Live' = Live
    BY <1>1 DEF Live, tableVars
  <2>3. CASE tok[q] \in Live /\ lock' = [lock EXCEPT ![tok[q]] = q]
    <3>1. /\ lock'[tok[q]] = q
          /\ \A u \in Tokens : u # tok[q] => lock'[u] = lock[u]
      BY <1>3, <2>3 DEF IInv, TypeOK
    <3>2. ASSUME NEW r \in Requests, Refreshing(r)' PROVE lock'[tok'[r]] = r
      BY <1>1, <1>2, <2>1, <3>1, <3>2
    <3>3. ASSUME NEW u \in Tokens, NEW r \in Requests, lock'[u] = r
          PROVE  /\ tok'[r] = u /\ u \in Live'
                 /\ Refreshing(r)' \/ (op'[r] = "logout" /\ pc'[r] \in {"respond", "commit"})
      <4>1. CASE u = tok[q]
        BY <1>1, <1>2, <2>2, <2>3, <3>1, <3>3, <4>1
      <4>2. CASE u # tok[q]
        BY <1>1, <1>2, <1>3, <2>2, <3>1, <3>3, <4>2 DEF IInv, LocksHeld
      <4> QED
        BY <4>1, <4>2
    <3> QED
      BY <3>2, <3>3 DEF LocksHeld
  <2>4. CASE op[q] = "logout" /\ UNCHANGED lock
    <3>1. ASSUME NEW r \in Requests, Refreshing(r)' PROVE lock'[tok'[r]] = r
      BY <1>1, <1>2, <2>1, <2>4, <3>1
    <3>2. ASSUME NEW u \in Tokens, NEW r \in Requests, lock'[u] = r
          PROVE  /\ tok'[r] = u /\ u \in Live'
                 /\ Refreshing(r)' \/ (op'[r] = "logout" /\ pc'[r] \in {"respond", "commit"})
      BY <1>1, <1>2, <1>3, <2>2, <2>4, <3>2 DEF IInv, LocksHeld
    <3> QED
      BY <3>1, <3>2 DEF LocksHeld
  <2> QED
    BY <1>1, <2>3, <2>4
<1>8. AddressHeld'
  <2>1. Registering' = Registering
    BY <1>1, <1>2 DEF Registering
  <2> QED
    BY <1>1, <2>1 DEF IInv, AddressHeld
<1>9. UniqueAddress'
  BY <1>1 DEF IInv, UniqueAddress, tableVars
<1>10. LastRotation'
  BY <1>1, <1>2 DEF IInv, LastRotation, tableVars
<1> QED
  BY <1>1, <1>4, <1>5, <1>6, <1>7, <1>8, <1>9, <1>10, TableKept DEF IInv, Table

\* A new token has a number of its own.
LEMMA CreateKeeps ==
    ASSUME IInv, NEW q \in Requests, Create(q)
    PROVE  IInv'
<1>1. /\ UNCHANGED <<tableVars, op, tok, leaving, lock, users, active, expired, held, late, left>>
      /\ pc[q] = "create" /\ pc' = [pc EXCEPT ![q] = "respond"]
      /\ issued < MaxTokens /\ issued' = issued + 1
      /\ new' = [new EXCEPT ![q] = issued + 1]
  BY DEF Create, Goto
<1>2. /\ \A r \in Requests : r # q => pc'[r] = pc[r] /\ new'[r] = new[r]
      /\ pc'[q] = "respond" /\ new'[q] = issued + 1
  BY <1>1 DEF IInv, TypeOK
<1>3. \A r \in Requests : Refreshing(r)' = Refreshing(r)
  BY <1>1, <1>2 DEF Refreshing
<1>4. issued \in Nat /\ issued + 1 \in Tokens /\ 1 .. issued \subseteq 1 .. issued'
  BY <1>1 DEF IInv, TypeOK, Tokens
<1>5. TypeOK'
  BY <1>1, <1>4 DEF IInv, TypeOK, tableVars, Tokens
<1>6. Stages'
  BY <1>1, <1>2, <1>4 DEF IInv, Stages
<1>7. FreshTokens'
  <2>1. row' \subseteq 1 .. issued'
    BY <1>1, <1>4 DEF IInv, FreshTokens, tableVars
  <2>2. ASSUME NEW r \in Requests, new'[r] \in Tokens, r # q
        PROVE  new'[r] = new[r] /\ new[r] \in Nat /\ new[r] <= issued /\ new[r] \notin row
    BY <1>2, <2>2 DEF IInv, FreshTokens, Tokens
  <2>3. new'[q] = issued + 1 /\ issued + 1 \notin row
    BY <1>2, <1>4 DEF IInv, FreshTokens
  <2> QED
    BY <1>1, <1>2, <1>4, <2>1, <2>2, <2>3 DEF IInv, FreshTokens, tableVars
<1>8. LocksHeld'
  <2>1. \A r \in Requests : pc[r] \in {"respond", "commit"} => pc'[r] \in {"respond", "commit"}
    BY <1>1, <1>2
  <2> QED
    BY <1>1, <1>3, <2>1 DEF IInv, LocksHeld, Live, tableVars
<1>9. AddressHeld'
  <2>1. Registering' = Registering
    BY <1>1, <1>2 DEF Registering
  <2> QED
    BY <1>1, <2>1 DEF IInv, AddressHeld
<1>10. UniqueAddress'
  BY <1>1 DEF IInv, UniqueAddress, tableVars
<1>11. LastRotation'
  BY <1>1, <1>2, <1>3 DEF IInv, LastRotation, tableVars
<1> QED
  BY <1>1, <1>5, <1>6, <1>7, <1>8, <1>9, <1>10, <1>11, TableKept DEF IInv, Table

-----------------------------------------------------------------------------
\* What the end of a request leaves to the others.
LEMMA EndFacts ==
    ASSUME IInv, NEW q \in Requests, End(q)
    PROVE  /\ pc' \in [Requests -> {"idle", "insert", "lock", "user", "create", "respond", "commit"}]
           /\ op' \in [Requests -> {"none", "register", "login", "refresh", "logout"}]
           /\ tok' \in [Requests -> Tokens \cup {NoToken}]
           /\ new' \in [Requests -> Tokens \cup {NoToken}]
           /\ leaving' \in [Requests -> Tokens \cup {NoToken}]
           /\ lock' \in [Tokens -> Requests \cup {NoRequest}]
           /\ pc'[q] = "idle" /\ op'[q] = "none" /\ new'[q] \notin Tokens
           /\ ~Refreshing(q)'
           /\ \A r \in Requests : r # q =>
                 /\ pc'[r] = pc[r] /\ op'[r] = op[r] /\ tok'[r] = tok[r] /\ new'[r] = new[r]
                 /\ Refreshing(r)' = Refreshing(r)
           /\ \A r \in Requests : Refreshing(r)' => r # q /\ lock'[tok'[r]] = r
           /\ \A u \in Tokens, r \in Requests : lock'[u] = r => r # q /\ lock[u] = r
           /\ Stages'
<1>1. /\ pc' = [pc EXCEPT ![q] = "idle"]
      /\ op' = [op EXCEPT ![q] = "none"]
      /\ tok' = [tok EXCEPT ![q] = NoToken]
      /\ new' = [new EXCEPT ![q] = NoToken]
      /\ leaving' = [leaving EXCEPT ![q] = NoToken]
      /\ lock' = [u \in Tokens |-> IF lock[u] = q THEN NoRequest ELSE lock[u]]
  BY DEF End, Release
<1>2. /\ pc'[q] = "idle" /\ op'[q] = "none" /\ new'[q] \notin Tokens
      /\ \A r \in Requests : r # q =>
            /\ pc'[r] = pc[r] /\ op'[r] = op[r] /\ tok'[r] = tok[r] /\ new'[r] = new[r]
  BY <1>1 DEF IInv, TypeOK, Tokens, NoToken
<1>3. /\ ~Refreshing(q)'
      /\ \A r \in Requests : r # q => Refreshing(r)' = Refreshing(r)
  BY <1>2 DEF Refreshing
<1>4. /\ pc' \in [Requests -> {"idle", "insert", "lock", "user", "create", "respond", "commit"}]
      /\ op' \in [Requests -> {"none", "register", "login", "refresh", "logout"}]
      /\ tok' \in [Requests -> Tokens \cup {NoToken}]
      /\ new' \in [Requests -> Tokens \cup {NoToken}]
      /\ leaving' \in [Requests -> Tokens \cup {NoToken}]
      /\ lock' \in [Tokens -> Requests \cup {NoRequest}]
  BY <1>1 DEF IInv, TypeOK
<1>5. \A u \in Tokens, r \in Requests : lock'[u] = r => r # q /\ lock[u] = r
  BY <1>1
<1>6. ASSUME NEW r \in Requests, Refreshing(r)' PROVE r # q /\ lock'[tok'[r]] = r
  <2>1. r # q /\ Refreshing(r) /\ tok'[r] = tok[r]
    BY <1>2, <1>3, <1>6
  <2>2. tok[r] \in Tokens /\ lock[tok[r]] = r
    BY <2>1 DEF IInv, Stages, LocksHeld, Refreshing
  <2> QED
    BY <1>1, <2>1, <2>2
<1>7. Stages'
  BY <1>2 DEF IInv, Stages
<1> QED
  BY <1>2, <1>3, <1>4, <1>5, <1>6, <1>7

\* A request ends and has written nothing.
LEMMA RefuseKeeps ==
    ASSUME IInv, NEW q \in Requests,
           RefuseAddress(q) \/ RefuseToken(q) \/ RefuseUser(q) \/ Abort(q)
    PROVE  IInv'
<1>1. /\ End(q)
      /\ UNCHANGED <<tableVars, users, active, expired, issued, held, late, left>>
  BY DEF RefuseAddress, RefuseToken, RefuseUser, Abort
<1>2. TypeOK'
  BY <1>1, EndFacts DEF IInv, TypeOK, tableVars
<1>3. FreshTokens'
  BY <1>1, EndFacts DEF IInv, FreshTokens, tableVars
<1>4. LocksHeld'
  <2>1. \A u \in Tokens, r \in Requests : lock[u] = r =>
           /\ tok[r] = u /\ u \in Live'
           /\ Refreshing(r) \/ (op[r] = "logout" /\ pc[r] \in {"respond", "commit"})
    BY <1>1 DEF IInv, LocksHeld, Live, tableVars
  <2> QED
    BY <1>1, <2>1, EndFacts DEF LocksHeld
<1>5. AddressHeld'
  <2>1. Registering' \subseteq Registering
    BY <1>1, EndFacts DEF Registering
  <2> QED
    BY <1>1, <2>1, EndFacts DEF IInv, AddressHeld
<1>6. UniqueAddress'
  BY <1>1 DEF IInv, UniqueAddress, tableVars
<1>7. LastRotation'
  BY <1>1, EndFacts DEF IInv, LastRotation, tableVars
<1> QED
  BY <1>1, <1>2, <1>3, <1>4, <1>5, <1>6, <1>7, TableKept, EndFacts DEF IInv, Table

\* The row of a login becomes visible; a registration brings the user with it.
LEMMA CommitLoginKeeps ==
    ASSUME IInv, NEW q \in Requests, CommitLogin(q)
    PROVE  IInv'
<1> DEFINE n == new[q]
<1>1. /\ End(q)
      /\ op[q] \in {"login", "register"} /\ pc[q] = "commit"
      /\ users' = IF op[q] = "register" THEN users + 1 ELSE users
      /\ row' = row \cup {n}
      /\ login' = [login EXCEPT ![n] = n]
      /\ late' = IF active THEN late ELSE late \cup {n}
      /\ UNCHANGED <<revoked, next, active, expired, issued, held, left>>
  BY DEF CommitLogin
<1>2. /\ n \in Tokens /\ n \notin row /\ n \in Nat /\ n >= 1 /\ n <= issued
      /\ \A r \in Requests : new[r] = n => r = q
  BY <1>1 DEF IInv, Stages, FreshTokens, Tokens
<1>3. /\ login'[n] = n
      /\ \A t \in Tokens : t # n => login'[t] = login[t]
      /\ row \subseteq Tokens /\ late \subseteq row
      /\ \A t \in row : t # n /\ login[t] # n
  BY <1>1, <1>2 DEF IInv, TypeOK, LastRotation, RowsLinked
<1>4. users' = 1
  BY <1>1 DEF IInv, TypeOK, UniqueAddress, AddressHeld, Registering
<1>5. TypeOK'
  BY <1>1, <1>2, <1>4, EndFacts DEF IInv, TypeOK
<1>6. FreshTokens'
  <2>1. \A r \in Requests : new'[r] \in Tokens => r # q /\ new'[r] = new[r] /\ new[r] # n
    BY <1>1, <1>2, EndFacts
  <2>2. row' \subseteq 1 .. issued'
    <3>1. issued \in Nat
      BY DEF IInv, TypeOK
    <3>2. n \in 1 .. issued
      BY <1>2, <3>1
    <3> QED
      BY <1>1, <3>2 DEF IInv, FreshTokens
  <2> QED
    BY <1>1, <1>2, <2>1, <2>2 DEF IInv, FreshTokens
<1>7. RowsLinked'
  BY <1>1, <1>3 DEF IInv, RowsLinked
<1>8. Live' = Live \cup {n}
  BY <1>1, <1>2 DEF IInv, RowsLinked, Live
<1>9. LocksHeld'
  <2>1. \A u \in Tokens, r \in Requests : lock[u] = r =>
           /\ tok[r] = u /\ u \in Live'
           /\ Refreshing(r) \/ (op[r] = "logout" /\ pc[r] \in {"respond", "commit"})
    BY <1>8 DEF IInv, LocksHeld
  <2> QED
    BY <1>1, <2>1, EndFacts DEF LocksHeld
<1>10. AddressHeld'
  <2>1. Registering' = {}
    BY <1>1, EndFacts DEF IInv, AddressHeld, Registering
  <2> QED
    BY <1>4, <2>1 DEF AddressHeld
<1>11. UniqueAddress'
  BY <1>4 DEF UniqueAddress
<1>12. OneLivePerLogin'
  BY <1>3, <1>8 DEF IInv, OneLivePerLogin, Live
<1>13. ReplacementsFormLines'
  BY <1>1, <1>2, <1>3 DEF IInv, ReplacementsFormLines, RowsLinked
<1>14. LastRotation'
  <2>1. late' \subseteq row' /\ (active' => late' = {})
    BY <1>1, <1>3 DEF IInv, LastRotation
  <2>2. ASSUME NEW r \in Requests, Refreshing(r)', pc'[r] # "user", NEW t \in late'
        PROVE  login'[t] # login'[tok'[r]]
    <3>1. /\ r # q /\ Refreshing(r) /\ pc[r] # "user" /\ tok'[r] = tok[r]
      BY <1>1, <2>2, EndFacts
    <3>2. tok[r] \in row
      BY <3>1 DEF IInv, Stages, LocksHeld, Refreshing, Live
    <3>3. login'[tok[r]] = login[tok[r]] /\ login[tok[r]] # n
      BY <1>3, <3>2
    <3>4. CASE t = n
      BY <1>3, <3>1, <3>3, <3>4
    <3>5. CASE t # n
      BY <1>1, <1>3, <2>2, <3>1, <3>3, <3>5 DEF IInv, LastRotation
    <3> QED
      BY <3>4, <3>5
  <2> QED
    BY <2>1, <2>2 DEF LastRotation
<1>15. DeactivationEndsLogins'
  BY <1>1, <1>3 DEF IInv, DeactivationEndsLogins
<1> QED
  BY <1>1, <1>5, <1>6, <1>7, <1>9, <1>10, <1>11, <1>12, <1>13, <1>14, <1>15, EndFacts DEF IInv

\* The rotated row is revoked, and its replacement takes its place in the login.
LEMMA CommitRefreshKeeps ==
    ASSUME IInv, NEW q \in Requests, CommitRefresh(q)
    PROVE  IInv'
<1> DEFINE n == new[q]
           o == tok[q]
<1>1. /\ End(q)
      /\ op[q] = "refresh" /\ pc[q] = "commit"
      /\ row' = row \cup {n}
      /\ revoked' = revoked \cup {o}
      /\ next' = [next EXCEPT ![o] = n]
      /\ login' = [login EXCEPT ![n] = login[o]]
      /\ late' = IF active THEN late ELSE late \cup {n}
      /\ UNCHANGED <<users, active, expired, issued, held, left>>
  BY DEF CommitRefresh
<1>2. /\ n \in Tokens /\ n \notin row /\ n \in Nat /\ n >= 1 /\ n <= issued
      /\ \A r \in Requests : new[r] = n => r = q
  BY <1>1 DEF IInv, Stages, FreshTokens, Tokens
<1>3. /\ o \in Tokens /\ o \in Live /\ o \in row /\ o \notin revoked /\ lock[o] = q /\ o # n
      /\ Refreshing(q)
  BY <1>1, <1>2 DEF IInv, Stages, LocksHeld, Refreshing, Live
<1>4. /\ login'[n] = login[o] /\ login[o] \in row
      /\ \A t \in Tokens : t # n => login'[t] = login[t]
      /\ next'[o] = n
      /\ \A t \in Tokens : t # o => next'[t] = next[t]
      /\ row \subseteq Tokens /\ late \subseteq row
      /\ \A t \in row : t # n /\ login[t] # n /\ next[t] # n
      /\ next[o] = NoToken /\ next[n] = NoToken /\ n # NoToken
  BY <1>1, <1>2, <1>3
  DEF IInv, TypeOK, LastRotation, RowsLinked, ReplacementsFormLines, Tokens, NoToken
<1>5. TypeOK'
  BY <1>1, <1>2, <1>3, EndFacts DEF IInv, TypeOK
<1>6. FreshTokens'
  <2>1. \A r \in Requests : new'[r] \in Tokens => r # q /\ new'[r] = new[r] /\ new[r] # n
    BY <1>1, <1>2, EndFacts
  <2>2. row' \subseteq 1 .. issued'
    <3>1. issued \in Nat
      BY DEF IInv, TypeOK
    <3>2. n \in 1 .. issued
      BY <1>2, <3>1
    <3> QED
      BY <1>1, <3>2 DEF IInv, FreshTokens
  <2> QED
    BY <1>1, <1>2, <2>1, <2>2 DEF IInv, FreshTokens
<1>7. RowsLinked'
  BY <1>1, <1>3, <1>4 DEF IInv, RowsLinked
<1>8. Live' = (Live \ {o}) \cup {n}
  BY <1>1, <1>2, <1>3 DEF IInv, RowsLinked, Live
<1>9. LocksHeld'
  <2>1. ASSUME NEW u \in Tokens, NEW r \in Requests, lock'[u] = r
        PROVE  /\ tok'[r] = u /\ u \in Live'
               /\ Refreshing(r)' \/ (op'[r] = "logout" /\ pc'[r] \in {"respond", "commit"})
    <3>1. r # q /\ lock[u] = r
      BY <1>1, <2>1, EndFacts
    <3>2. /\ tok[r] = u /\ u \in Live /\ u # o
          /\ Refreshing(r) \/ (op[r] = "logout" /\ pc[r] \in {"respond", "commit"})
      BY <1>3, <3>1 DEF IInv, LocksHeld
    <3> QED
      BY <1>1, <1>8, <3>1, <3>2, EndFacts
  <2> QED
    BY <1>1, <2>1, EndFacts DEF LocksHeld
<1>10. AddressHeld'
  <2>1. Registering' \subseteq Registering
    BY <1>1, EndFacts DEF Registering
  <2> QED
    BY <1>1, <2>1, EndFacts DEF IInv, AddressHeld
<1>11. UniqueAddress'
  BY <1>1, <1>3 DEF IInv, UniqueAddress
<1>12. OneLivePerLogin'
  <2>1. \A t \in Live \ {o} : t # n /\ login[t] # login[o] /\ login'[t] = login[t]
    BY <1>3, <1>4 DEF IInv, OneLivePerLogin, Live
  <2> QED
    BY <1>4, <1>8, <2>1 DEF IInv, OneLivePerLogin
<1>13. ReplacementsFormLines'
  <2>1. ASSUME NEW t \in row', next'[t] # NoToken
        PROVE  t \in revoked' /\ next'[t] \in row' /\ login'[next'[t]] = login'[t]
    <3>1. CASE t = o
      BY <1>1, <1>3, <1>4, <3>1
    <3>2. CASE t # o
      <4>1. t # n /\ t \in row /\ next'[t] = next[t]
        BY <1>1, <1>2, <1>4, <2>1, <3>2
      <4>2. t \in revoked /\ next[t] \in row /\ login[next[t]] = login[t]
        BY <2>1, <4>1 DEF IInv, ReplacementsFormLines
      <4> QED
        BY <1>1, <1>4, <4>1, <4>2
    <3> QED
      BY <3>1, <3>2
  <2>2. ASSUME NEW t \in row', NEW u \in row', next'[t] = next'[u], next'[t] # NoToken
        PROVE  t = u
    <3>1. /\ t # n /\ u # n /\ t \in row /\ u \in row
      BY <1>1, <1>2, <1>3, <1>4, <2>2
    <3> QED
      BY <1>4, <2>2, <3>1 DEF IInv, ReplacementsFormLines
  <2>3. ASSUME NEW t \in row' PROVE login'[t] = t \/ \E u \in row' : next'[u] = t
    <3>1. CASE t = n
      BY <1>1, <1>3, <1>4, <3>1
    <3>2. CASE t # n /\ login[t] = t
      BY <1>1, <1>4, <2>3, <3>2
    <3>3. CASE t # n /\ login[t] # t
      <4>1. PICK u \in row : next[u] = t
        BY <1>1, <2>3, <3>3 DEF IInv, ReplacementsFormLines
      <4>2. u # o
        BY <1>1, <1>4, <2>3, <3>3, <4>1 DEF IInv, TypeOK, Tokens, NoToken
      <4> QED
        BY <1>1, <1>4, <4>1, <4>2
    <3> QED
      BY <3>1, <3>2, <3>3
  <2> QED
    BY <2>1, <2>2, <2>3 DEF ReplacementsFormLines
<1>14. LastRotation'
  <2>1. late' \subseteq row' /\ (active' => late' = {})
    BY <1>1, <1>4 DEF IInv, LastRotation
  <2>2. ASSUME NEW r \in Requests, Refreshing(r)', pc'[r] # "user", NEW t \in late'
        PROVE  login'[t] # login'[tok'[r]]
    <3>1. r # q /\ Refreshing(r) /\ pc[r] # "user" /\ tok'[r] = tok[r]
      BY <1>1, <2>2, EndFacts
    <3>2. tok[r] \in Live /\ tok[r] \in row /\ tok[r] # o
      BY <1>3, <3>1 DEF IInv, Stages, LocksHeld, Refreshing, Live
    <3>3. login'[tok[r]] = login[tok[r]] /\ login[tok[r]] # login[o]
      BY <1>3, <1>4, <3>2 DEF IInv, OneLivePerLogin
    <3>4. CASE t = n
      BY <1>4, <3>1, <3>3, <3>4
    <3>5. CASE t # n
      BY <1>1, <1>4, <2>2, <3>1, <3>3, <3>5 DEF IInv, LastRotation
    <3> QED
      BY <3>4, <3>5
  <2> QED
    BY <2>1, <2>2 DEF LastRotation
<1>15. DeactivationEndsLogins'
  <2>1. \A t \in late : login[t] # login[o]
    BY <1>1, <1>3 DEF IInv, LastRotation
  <2> QED
    BY <1>1, <1>4, <2>1 DEF IInv, DeactivationEndsLogins
<1> QED
  BY <1>1, <1>5, <1>6, <1>7, <1>9, <1>10, <1>11, <1>12, <1>13, <1>14, <1>15, EndFacts DEF IInv

\* A row that nobody else holds is revoked, or none.
LEMMA CommitLogoutKeeps ==
    ASSUME IInv, NEW q \in Requests, CommitLogout(q)
    PROVE  IInv'
<1> DEFINE o == tok[q]
<1>1. /\ End(q)
      /\ op[q] = "logout" /\ pc[q] = "commit"
      /\ revoked' = IF lock[o] = q THEN revoked \cup {o} ELSE revoked
      /\ left' = left \cup ({leaving[q]} \ {NoToken})
      /\ UNCHANGED <<row, next, login, users, active, expired, issued, held, late>>
  BY DEF CommitLogout
<1>2. o \in Tokens /\ (lock[o] = q => o \in row)
  BY <1>1 DEF IInv, Stages, LocksHeld, Live
<1>3. revoked \subseteq revoked' /\ revoked' \subseteq row
  BY <1>1, <1>2 DEF IInv, RowsLinked
<1>4. TypeOK'
  BY <1>1, <1>2, EndFacts DEF IInv, TypeOK
<1>5. FreshTokens' /\ UniqueAddress' /\ DeactivationEndsLogins'
  BY <1>1, EndFacts DEF IInv, FreshTokens, UniqueAddress, DeactivationEndsLogins
<1>6. RowsLinked' /\ OneLivePerLogin' /\ ReplacementsFormLines'
  BY <1>1, <1>3 DEF IInv, RowsLinked, OneLivePerLogin, ReplacementsFormLines, Live
<1>7. LocksHeld'
  <2>1. ASSUME NEW u \in Tokens, NEW r \in Requests, lock'[u] = r
        PROVE  /\ tok'[r] = u /\ u \in Live'
               /\ Refreshing(r)' \/ (op'[r] = "logout" /\ pc'[r] \in {"respond", "commit"})
    <3>1. r # q /\ lock[u] = r
      BY <1>1, <2>1, EndFacts
    <3>2. /\ tok[r] = u /\ u \in Live
          /\ Refreshing(r) \/ (op[r] = "logout" /\ pc[r] \in {"respond", "commit"})
      BY <3>1 DEF IInv, LocksHeld
    <3>3. u \in Live'
      BY <1>1, <3>1, <3>2 DEF Live
    <3> QED
      BY <1>1, <3>1, <3>2, <3>3, EndFacts
  <2> QED
    BY <1>1, <2>1, EndFacts DEF LocksHeld
<1>8. AddressHeld'
  <2>1. Registering' \subseteq Registering
    BY <1>1, EndFacts DEF Registering
  <2> QED
    BY <1>1, <2>1, EndFacts DEF IInv, AddressHeld
<1>9. LastRotation'
  BY <1>1, EndFacts DEF IInv, LastRotation
<1> QED
  BY <1>1, <1>4, <1>5, <1>6, <1>7, <1>8, <1>9, EndFacts DEF IInv

-----------------------------------------------------------------------------
\* A deactivation, or the passing of time.
LEMMA OthersKeep ==
    ASSUME IInv, Deactivate \/ (\E t \in Tokens : Expire(t)) \/ UNCHANGED vars
    PROVE  IInv'
<1>1. /\ UNCHANGED <<tableVars, requestVars, lock, users, issued, held, late, left>>
      /\ active' \in BOOLEAN /\ (active' => active)
      /\ expired' \subseteq Tokens
  <2>1. CASE Deactivate
    BY <2>1 DEF IInv, TypeOK, Deactivate
  <2>2. CASE \E t \in Tokens : Expire(t)
    BY <2>2 DEF IInv, TypeOK, Expire
  <2>3. CASE UNCHANGED vars
    BY <2>3 DEF IInv, TypeOK, vars
  <2> QED
    BY <2>1, <2>2, <2>3
<1>2. TypeOK'
  BY <1>1 DEF IInv, TypeOK, tableVars, requestVars
<1>3. Stages' /\ FreshTokens' /\ LocksHeld' /\ UniqueAddress'
  BY <1>1 DEF IInv, Stages, FreshTokens, LocksHeld, Refreshing, Live, UniqueAddress, tableVars,
              requestVars
<1>4. AddressHeld' /\ LastRotation'
  BY <1>1 DEF IInv, AddressHeld, Registering, LastRotation, Refreshing, tableVars, requestVars
<1> QED
  BY <1>1, <1>2, <1>3, <1>4, TableKept DEF IInv, Table

\* Every step keeps the invariant.
LEMMA NextInvariant == IInv /\ [Next]_vars => IInv'
<1> SUFFICES ASSUME IInv, [Next]_vars PROVE IInv'
  OBVIOUS
<1>1. ASSUME NEW q \in Requests, Work(q) \/ Lock(q) \/ Abort(q) PROVE IInv'
  BY <1>1, PassKeeps, LockKeeps, CreateKeeps, RefuseKeeps, CommitLoginKeeps, CommitRefreshKeeps,
     CommitLogoutKeeps DEF Work
<1>2. ASSUME NEW q \in Requests, StartRegister(q) \/ StartLogin(q) PROVE IInv'
  BY <1>2, StartKeeps
<1>3. ASSUME NEW q \in Requests, NEW t \in Tokens, StartRefresh(q, t) \/ StartLogout(q, t)
      PROVE  IInv'
  BY <1>3, StartKeeps
<1> QED
  BY <1>1, <1>2, <1>3, OthersKeep DEF Next

\* Whatever overlaps, the tokens, rows, locks and requests are in the states that the code makes.
THEOREM Invariance == Spec => []IInv
<1>1. Init => IInv
  BY InitInvariant
<1>2. IInv /\ [Next]_vars => IInv'
  BY NextInvariant
<1> QED
  BY <1>1, <1>2, PTL DEF Spec

\* Every variable stays in its type, however many requests and tokens there are.
THEOREM TypeCorrectness == Spec => []TypeOK
<1>1. IInv => TypeOK
  BY DEF IInv
<1> QED
  BY <1>1, Invariance, PTL

\* However refreshes, replays and logouts overlap, a login has one usable row at most: the row
\* lock of get_by_token_hash_for_update is held until the rotation is committed.
THEOREM OneLiveRow == Spec => []OneLivePerLogin
<1>1. IInv => OneLivePerLogin
  BY DEF IInv
<1> QED
  BY <1>1, Invariance, PTL

\* replaced_by_id makes one line of the rows of a login, in which no row has two neighbours.
THEOREM Lines == Spec => []ReplacementsFormLines
<1>1. IInv => ReplacementsFormLines
  BY DEF IInv
<1> QED
  BY <1>1, Invariance, PTL

\* Once the user is deactivated, each login stores one more row at most.
THEOREM DeactivationEnds == Spec => []DeactivationEndsLogins
<1>1. IInv => DeactivationEndsLogins
  BY DEF IInv
<1> QED
  BY <1>1, Invariance, PTL

\* Registrations that overlap make one user, who is there before any session.
THEOREM AddressUnique == Spec => []UniqueAddress
<1>1. IInv => UniqueAddress
  BY DEF IInv
<1> QED
  BY <1>1, Invariance, PTL

-----------------------------------------------------------------------------
(* The refinement of LoginSessions.                                        *)

\* The tokens that serve each login, and the one of them that stands for them.
Serving == [l \in Tokens |-> {t \in Live : login[t] = l}]

Chosen(S) == IF S = {} THEN NoToken ELSE CHOOSE t \in S : TRUE

LEMMA ChosenOnly == Chosen({}) = NoToken /\ \A t : Chosen({t}) = t
BY DEF Chosen

LEMMA CurrentChooses ==
    /\ \A l \in Tokens : Current(l) = Chosen(Serving[l])
    /\ \A l \in Tokens : Current(l)' = Chosen(Serving'[l])
<1>1. ASSUME NEW l \in Tokens PROVE Current(l) = Chosen(Serving[l])
  BY DEF Current, Serving, Chosen
<1>2. ASSUME NEW l \in Tokens PROVE Current(l)' = Chosen(Serving'[l])
  BY DEF Current, Serving, Chosen
<1> QED
  BY <1>1, <1>2

\* What becomes of the current tokens when those that serve one login change.
LEMMA CurrentChanges ==
    ASSUME NEW m \in Tokens, NEW c,
           \A l \in Tokens : l # m => Serving'[l] = Serving[l],
           (c = NoToken /\ Serving'[m] = {}) \/ Serving'[m] = {c}
    PROVE  [l \in Tokens |-> Current(l)]' = [[l \in Tokens |-> Current(l)] EXCEPT ![m] = c]
<1>1. Current(m)' = c
  BY CurrentChooses, ChosenOnly
<1>2. ASSUME NEW l \in Tokens, l # m PROVE Current(l)' = Current(l)
  <2>1. Current(l) = Chosen(Serving[l]) /\ Current(l)' = Chosen(Serving[l])
    BY <1>2, CurrentChooses
  <2> QED
    BY <2>1
<1> QED
  BY <1>1, <1>2

\* A live token is the one that serves its login.
LEMMA LiveIsCurrent ==
    ASSUME IInv, NEW t \in Live
    PROVE  Serving[login[t]] = {t} /\ Current(login[t]) = t /\ t # NoToken /\ login[t] \in Tokens
<1>1. t # NoToken /\ login[t] \in Tokens
  BY DEF IInv, TypeOK, RowsLinked, Live, Tokens, NoToken
<1>2. {u \in Live : login[u] = login[t]} = {t}
  BY DEF IInv, OneLivePerLogin
<1> QED
  BY <1>1, <1>2, CurrentChooses, ChosenOnly DEF Serving

\* No login is served at first.
LEMMA RefineInit == Init => Logins!Init
<1> SUFFICES ASSUME Init PROVE Logins!Init
  OBVIOUS
<1>1. \A l \in Tokens : Current(l) = NoToken
  BY DEF Init, Current, Live
<1>2. \A l \in Tokens : Current(l) = 0
  BY <1>1 DEF NoToken
<1> QED
  BY <1>2 DEF Init, Logins!Init, Logins!Tokens, Logins!NoToken, Tokens

\* A commit of a login opens it.
LEMMA RefineLogin ==
    ASSUME IInv, NEW q \in Requests, CommitLogin(q)
    PROVE  Logins!Open(new[q])
<1> DEFINE n == new[q]
<1>1. /\ row' = row \cup {n} /\ revoked' = revoked
      /\ login' = [login EXCEPT ![n] = n]
      /\ op[q] # "logout" /\ pc[q] = "commit"
  BY DEF CommitLogin
<1>2. /\ n \in Tokens /\ n \notin row /\ n \notin revoked
      /\ login'[n] = n
      /\ \A t \in row : t # n /\ login'[t] = login[t] /\ login[t] # n
  BY <1>1 DEF IInv, TypeOK, Stages, FreshTokens, RowsLinked
<1>3. Live' = Live \cup {n}
  BY <1>1, <1>2 DEF Live
<1>4. Serving'[n] = {n} /\ \A l \in Tokens : l # n => Serving'[l] = Serving[l]
  <2>1. {t \in Live' : login'[t] = n} = {n}
    BY <1>2, <1>3 DEF Live
  <2>2. ASSUME NEW l \in Tokens, l # n
        PROVE  {t \in Live' : login'[t] = l} = {t \in Live : login[t] = l}
    BY <1>2, <1>3, <2>2 DEF Live
  <2> QED
    BY <1>2, <2>1, <2>2 DEF Serving
<1>5. {t \in row : login[t] = t}' = {t \in row : login[t] = t} \cup {n}
  BY <1>1, <1>2
<1>6. [l \in Tokens |-> Current(l)]' = [[l \in Tokens |-> Current(l)] EXCEPT ![n] = n]
  BY <1>2, <1>4, CurrentChanges
<1> QED
  BY <1>1, <1>2, <1>5, <1>6 DEF Logins!Open

\* A commit of a refresh moves its login to the new token.
LEMMA RefineRefresh ==
    ASSUME IInv, NEW q \in Requests, CommitRefresh(q)
    PROVE  Logins!Rotate(login[tok[q]], new[q])
<1> DEFINE n == new[q]
           o == tok[q]
           m == login[o]
<1>1. /\ row' = row \cup {n} /\ revoked' = revoked \cup {o}
      /\ login' = [login EXCEPT ![n] = m]
      /\ op[q] = "refresh" /\ pc[q] = "commit"
  BY DEF CommitRefresh
<1>2. /\ n \in Tokens /\ n \notin row /\ n \notin revoked
      /\ o \in Tokens /\ o \in Live /\ o \in row
  BY <1>1 DEF IInv, Stages, FreshTokens, RowsLinked, LocksHeld, Refreshing, Live
<1>3. /\ login'[n] = m /\ m # n /\ o # n /\ m \in Tokens
      /\ \A t \in row : t # n /\ login'[t] = login[t]
  BY <1>1, <1>2 DEF IInv, TypeOK, RowsLinked
<1>4. Live' = (Live \ {o}) \cup {n}
  BY <1>1, <1>2 DEF Live
<1>5. Serving[m] = {o} /\ Current(m) = o /\ o # NoToken
  BY <1>2, LiveIsCurrent
<1>6. Serving'[m] = {n} /\ \A l \in Tokens : l # m => Serving'[l] = Serving[l]
  <2>1. {t \in Live : login[t] = m} = {o}
    BY <1>3, <1>5 DEF Serving
  <2>2. {t \in Live' : login'[t] = m} = {n}
    BY <1>2, <1>3, <1>4, <2>1 DEF Live
  <2>3. ASSUME NEW l \in Tokens, l # m
        PROVE  {t \in Live' : login'[t] = l} = {t \in Live : login[t] = l}
    BY <1>2, <1>3, <1>4, <2>3 DEF Live
  <2> QED
    BY <1>3, <2>2, <2>3 DEF Serving
<1>7. {t \in row : login[t] = t}' = {t \in row : login[t] = t}
  BY <1>1, <1>2, <1>3
<1>8. [l \in Tokens |-> Current(l)]' = [[l \in Tokens |-> Current(l)] EXCEPT ![m] = n]
  BY <1>3, <1>6, CurrentChanges
<1>9. [l \in Tokens |-> Current(l)][m] # 0
  BY <1>3, <1>5 DEF NoToken
<1> QED
  BY <1>1, <1>2, <1>7, <1>8, <1>9 DEF Logins!Rotate, Logins!NoToken

\* A commit of a logout that holds a row ends its login.
LEMMA RefineLogout ==
    ASSUME IInv, NEW q \in Requests, CommitLogout(q), lock[tok[q]] = q
    PROVE  Logins!End(login[tok[q]])
<1> DEFINE o == tok[q]
           m == login[o]
<1>1. /\ revoked' = revoked \cup {o} /\ UNCHANGED <<row, login>>
      /\ op[q] = "logout"
  BY DEF CommitLogout
<1>2. o \in Live
  BY <1>1 DEF IInv, Stages, LocksHeld
<1>3. Serving[m] = {o} /\ Current(m) = o /\ o # NoToken /\ m \in Tokens
  BY <1>2, LiveIsCurrent
<1>4. Live' = Live \ {o}
  BY <1>1 DEF Live
<1>5. Serving'[m] = {} /\ \A l \in Tokens : l # m => Serving'[l] = Serving[l]
  <2>1. {t \in Live : login[t] = m} = {o}
    BY <1>3 DEF Serving
  <2>2. {t \in Live' : login'[t] = m} = {}
    BY <1>1, <1>4, <2>1
  <2>3. ASSUME NEW l \in Tokens, l # m
        PROVE  {t \in Live' : login'[t] = l} = {t \in Live : login[t] = l}
    BY <1>1, <1>2, <1>4, <2>3
  <2> QED
    BY <1>3, <2>2, <2>3 DEF Serving
<1>6. [l \in Tokens |-> Current(l)]' = [[l \in Tokens |-> Current(l)] EXCEPT ![m] = 0]
  BY <1>3, <1>5, CurrentChanges DEF NoToken
<1>7. [l \in Tokens |-> Current(l)][m] # 0
  BY <1>3 DEF NoToken
<1> QED
  BY <1>1, <1>6, <1>7 DEF Logins!End, Logins!NoToken

\* A step that changes no row changes no login.
LEMMA RefineStutter ==
    ASSUME UNCHANGED <<row, revoked, login>>
    PROVE  UNCHANGED Logins!vars
<1>1. \A l \in Tokens : Current(l)' = Current(l)
  BY DEF Current, Live
<1> QED
  BY <1>1 DEF Logins!vars

\* Every step opens, rotates or ends one login, or none.
LEMMA RefineStep == IInv /\ [Next]_vars => [Logins!Next]_(Logins!vars)
<1> SUFFICES ASSUME IInv, [Next]_vars
             PROVE  Logins!Next \/ UNCHANGED Logins!vars
  OBVIOUS
<1>1. ASSUME NEW q \in Requests, CommitLogin(q) PROVE Logins!Next
  <2>1. new[q] \in Tokens
    BY <1>1 DEF CommitLogin, IInv, Stages
  <2>2. Logins!Open(new[q])
    BY <1>1, RefineLogin
  <2>3. \E l \in Logins!Tokens : Logins!Open(l)
    BY <2>1, <2>2 DEF Logins!Tokens, Tokens, Logins!Open
  <2> QED
    BY <2>3 DEF Logins!Next
<1>2. ASSUME NEW q \in Requests, CommitRefresh(q) PROVE Logins!Next
  <2>1. new[q] \in Tokens /\ login[tok[q]] \in Tokens
    BY <1>2, LiveIsCurrent DEF CommitRefresh, IInv, Stages, LocksHeld, Refreshing
  <2> QED
    BY <1>2, <2>1, RefineRefresh DEF Logins!Next, Logins!Tokens, Tokens
<1>3. ASSUME NEW q \in Requests, CommitLogout(q)
      PROVE  Logins!Next \/ UNCHANGED Logins!vars
  <2>1. CASE lock[tok[q]] = q
    <3>1. login[tok[q]] \in Tokens
      BY <1>3, <2>1, LiveIsCurrent DEF CommitLogout, IInv, Stages, LocksHeld
    <3> QED
      BY <1>3, <2>1, <3>1, RefineLogout DEF Logins!Next, Logins!Tokens, Tokens
  <2>2. CASE lock[tok[q]] # q
    BY <1>3, <2>2, RefineStutter DEF CommitLogout
  <2> QED
    BY <2>1, <2>2
<1>4. ASSUME NEW q \in Requests,
             \/ Lock(q) \/ Abort(q) \/ StartRegister(q) \/ StartLogin(q)
             \/ InsertUser(q) \/ RefuseAddress(q) \/ RefuseToken(q) \/ CheckUser(q)
             \/ RefuseUser(q) \/ Create(q) \/ Respond(q)
      PROVE  UNCHANGED Logins!vars
  <2>1. UNCHANGED tableVars
    BY <1>4 DEF Lock, LockForRefresh, LockForLogout, Abort, StartRegister, StartLogin, InsertUser,
                RefuseAddress, RefuseToken, CheckUser, RefuseUser, Create, Respond
  <2> QED
    BY <2>1, RefineStutter DEF tableVars
<1>5. ASSUME NEW q \in Requests, NEW t \in Tokens, StartRefresh(q, t) \/ StartLogout(q, t)
      PROVE  UNCHANGED Logins!vars
  BY <1>5, RefineStutter DEF StartRefresh, StartLogout, tableVars
<1>6. ASSUME Deactivate \/ (\E t \in Tokens : Expire(t)) \/ UNCHANGED vars
      PROVE  UNCHANGED Logins!vars
  BY <1>6, RefineStutter DEF Deactivate, Expire, vars, tableVars
<1> QED
  BY <1>1, <1>2, <1>3, <1>4, <1>5, <1>6 DEF Next, Work

\* The session table, with its locks and its late commits, rotates tokens as LoginSessions says.
THEOREM Refinement == Spec => ImplementsLogins
<1>1. Init => Logins!Init
  BY RefineInit
<1>2. IInv /\ [Next]_vars => [Logins!Next]_(Logins!vars)
  BY RefineStep
<1> QED
  BY <1>1, <1>2, Invariance, PTL DEF Spec, ImplementsLogins, Logins!Spec
=============================================================================
