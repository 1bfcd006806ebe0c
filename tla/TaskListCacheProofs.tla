------------------------ MODULE TaskListCacheProofs ------------------------
(***************************************************************************)
(* The task-list cache for any number of requests, fingerprints, commits   *)
(* and INCR attempts: the inductive invariant IInv, what follows from it,  *)
(* and that the cached endpoint implements TaskListContract.               *)
(***************************************************************************)
EXTENDS TaskListCache, TLAPS

LEMMA MaxVersionNat == MaxVersion \in Nat
  BY CacheBounds DEF MaxVersion

\* The values that variables start from and return to.
LEMMA Resets == /\ 0 \in Commits
                /\ 0 \in Versions
                /\ 0 \in 0 .. MaxAttempts
                /\ NoEntry \in Entry
                /\ Garbage \in Entry
  <1>1. 0 \in Commits /\ 0 \in Versions /\ 0 \in 0 .. MaxAttempts
    BY MaxVersionNat, CacheBounds DEF Commits, Versions
  <1> QED
    BY <1>1 DEF NoEntry, Garbage, Entry

LEMMA Numbers == Commits \subseteq Nat /\ Versions \subseteq Nat
  BY DEF Commits, Versions

\* Writing one response key keeps the type of the keyspace.
LEMMA EntriesUpdate ==
    ASSUME NEW K \in [Versions -> [Queries -> Entry]], NEW e \in Entry,
           NEW v \in Versions, NEW q \in Queries
    PROVE  [K EXCEPT ![v][q] = e] \in [Versions -> [Queries -> Entry]]
  <1>1. [K[v] EXCEPT ![q] = e] \in [Queries -> Entry]
    OBVIOUS
  <1> QED
    BY <1>1

LEMMA InitInv == Init => IInv
  <1> SUFFICES ASSUME Init PROVE IInv
    OBVIOUS
  <1>1. TypeOK
    BY Resets DEF Init, TypeOK
  <1>2. FloorMonotone
    BY MaxVersionNat DEF Init, FloorMonotone, Versions
  <1>3. EntriesCoverFloor
    BY DEF Init, EntriesCoverFloor, NoEntry, Garbage
  <1>4. ReaderOrdered /\ AnswersCoverInvalidations
    BY Resets DEF Init, ReaderOrdered, Ordered, AnswersCoverInvalidations,
                 AnswerCovers
  <1>5. WriterCommitted /\ CommitsAccounted
    BY DEF Init, WriterCommitted, CommitsAccounted
  <1> QED
    BY <1>1, <1>2, <1>3, <1>4, <1>5 DEF IInv

LEMMA TypeStep == TypeOK /\ ReaderOrdered /\ [Next]_vars => TypeOK'
  <1> SUFFICES ASSUME TypeOK, ReaderOrdered, [Next]_vars PROVE TypeOK'
    OBVIOUS
  <1> USE Resets DEF TypeOK, listVars, writeVars
  <1>1. ASSUME NEW r \in Readers, NEW q \in Queries, StartList(r, q) PROVE TypeOK'
    BY <1>1 DEF StartList, Goto
  <1>2. ASSUME NEW r \in Readers, ReadVersion(r) PROVE TypeOK'
    BY <1>2 DEF ReadVersion, Goto
  <1>3. ASSUME NEW r \in Readers, Hit(r) PROVE TypeOK'
    <2>1. Slot(r) \in Entry
      BY <1>3 DEF Hit, Goto, Slot, ReaderOrdered, Ordered
    <2> QED
      BY <1>3, <2>1 DEF Hit, Goto, Entry
  <1>4. ASSUME NEW r \in Readers, Miss(r) PROVE TypeOK'
    BY <1>4 DEF Miss, Goto
  <1>5. ASSUME NEW r \in Readers, Unlink(r) PROVE TypeOK'
    <2>1. ver[r] \in Versions
      BY <1>5 DEF Unlink, Goto, ReaderOrdered, Ordered
    <2>2. entries' \in [Versions -> [Queries -> Entry]]
      <3>1. \/ entries' = [entries EXCEPT ![ver[r]][query[r]] = NoEntry]
            \/ entries' = entries
        BY <1>5 DEF Unlink
      <3>2. [entries EXCEPT ![ver[r]][query[r]] = NoEntry]
              \in [Versions -> [Queries -> Entry]]
        BY <2>1, EntriesUpdate
      <3> QED
        BY <3>1, <3>2
    <2>3. /\ pc' = [pc EXCEPT ![r] = "count"]
          /\ UNCHANGED <<db, version, query, ver, total, items, low, writeVars,
                         floor, lost>>
      BY <1>5 DEF Unlink, Goto
    <2> QED
      BY <2>2, <2>3
  <1>6. ASSUME NEW r \in Readers, CountTasks(r) PROVE TypeOK'
    BY <1>6 DEF CountTasks, Goto
  <1>7. ASSUME NEW r \in Readers, SelectTasks(r) PROVE TypeOK'
    BY <1>7 DEF SelectTasks, Goto
  <1>8. ASSUME NEW r \in Readers, StoreEntry(r) PROVE TypeOK'
    <2>1. ver[r] \in Versions
      BY <1>8 DEF StoreEntry, Goto, ReaderOrdered, Ordered
    <2>2. [kind |-> "page", total |-> total[r], items |-> items[r]] \in Entry
      BY DEF Entry
    <2> DEFINE page == [kind |-> "page", total |-> total[r], items |-> items[r]]
    <2>3. entries' \in [Versions -> [Queries -> Entry]]
      <3>1. \/ entries' = [entries EXCEPT ![ver[r]][query[r]] = page]
            \/ entries' = entries
        BY <1>8 DEF StoreEntry
      <3>2. [entries EXCEPT ![ver[r]][query[r]] = page]
              \in [Versions -> [Queries -> Entry]]
        BY <2>1, <2>2, EntriesUpdate
      <3> QED
        BY <3>1, <3>2
    <2>4. /\ pc' = [pc EXCEPT ![r] = "answered"]
          /\ UNCHANGED <<db, version, query, ver, total, items, low, writeVars,
                         floor, lost>>
      BY <1>8 DEF StoreEntry, Goto
    <2> QED
      BY <2>3, <2>4
  <1>9. ASSUME NEW r \in Readers, FinishList(r) \/ AbortList(r) PROVE TypeOK'
    <2>1. pc' = [pc EXCEPT ![r] = "idle"]
      BY <1>9 DEF FinishList, AbortList, EndList, Goto
    <2>2. /\ ver' = [ver EXCEPT ![r] = NoVersion]
          /\ total' = [total EXCEPT ![r] = 0]
          /\ items' = [items EXCEPT ![r] = 0]
          /\ low' = [low EXCEPT ![r] = 0]
      BY <1>9 DEF FinishList, AbortList, EndList
    <2>3. UNCHANGED <<db, version, entries, query, writeVars, floor, lost>>
      BY <1>9 DEF FinishList, AbortList, EndList, Goto
    <2> QED
      BY <2>1, <2>2, <2>3
  <1>10. ASSUME NEW w \in Writers, Mutate(w) \/ Rollback(w) PROVE TypeOK'
    BY <1>10 DEF Mutate, Rollback
  <1>11. ASSUME NEW w \in Writers, Commit(w) PROVE TypeOK'
    BY <1>11, CacheBounds DEF Commit, Commits
  <1>12. ASSUME NEW w \in Writers, Invalidate(w) PROVE TypeOK'
    <2>1. version + 1 \in Versions
      BY <1>12, MaxVersionNat DEF Invalidate, Versions
    <2>2. floor' \in [Versions -> Commits]
      BY <1>12 DEF Invalidate
    <2>3. /\ phase' \in [Writers -> {"idle", "flushed", "committed"}]
          /\ mine' \in [Writers -> Commits]
          /\ tries' \in [Writers -> 0 .. MaxAttempts]
      <3>1. CASE EndMutation(w)
        BY <3>1 DEF EndMutation
      <3>2. CASE /\ tries[w] + 1 < MaxAttempts
                 /\ tries' = [tries EXCEPT ![w] = tries[w] + 1]
                 /\ UNCHANGED <<phase, mine>>
        BY <3>2, CacheBounds
      <3> QED
        BY <1>12, <3>1, <3>2 DEF Invalidate
    <2> QED
      BY <1>12, <2>1, <2>2, <2>3 DEF Invalidate
  <1>13. ASSUME NEW w \in Writers, GiveUp(w) PROVE TypeOK'
    BY <1>13 DEF GiveUp, EndMutation
  <1>14. ASSUME NEW v \in Versions, NEW q \in Queries, Expire(v, q) PROVE TypeOK'
    BY <1>14, EntriesUpdate DEF Expire
  <1>15. CASE UNCHANGED vars
    BY <1>15 DEF vars
  <1> QED
    BY <1>1, <1>2, <1>3, <1>4, <1>5, <1>6, <1>7, <1>8, <1>9, <1>10, <1>11, <1>12,
       <1>13, <1>14, <1>15 DEF Next, Lookup, Load

-----------------------------------------------------------------------------
(* The steps of list requests. *)

\* What depends only on the commits, the version key and the mutating requests
\* survives the steps that leave those alone.
LEMMA CommitsFrame ==
    ASSUME IInv, UNCHANGED <<db, version, writeVars, floor, lost>>
    PROVE  FloorMonotone' /\ WriterCommitted' /\ CommitsAccounted'
  <1>1. FloorMonotone'
    BY DEF IInv, FloorMonotone
  <1>2. WriterCommitted'
    BY DEF IInv, WriterCommitted, writeVars
  <1>3. CommitsAccounted'
    BY DEF IInv, CommitsAccounted, Pending, writeVars
  <1> QED
    BY <1>1, <1>2, <1>3

LEMMA EntriesFrame ==
    ASSUME IInv, UNCHANGED <<db, version, entries, floor>>
    PROVE  EntriesCoverFloor'
  BY DEF IInv, EntriesCoverFloor

LEMMA FloorNat ==
    ASSUME IInv
    PROVE  /\ db \in Nat
           /\ version \in Nat
           /\ version \in 0 .. version
           /\ version \in Versions
           /\ 0 .. version \subseteq Versions
           /\ \A v \in Versions : floor[v] \in Nat
  <1>1. db \in Nat /\ version \in Versions /\ version \in Nat
    BY Numbers DEF IInv, TypeOK
  <1>2. 0 .. version \subseteq Versions
    BY <1>1, MaxVersionNat DEF Versions
  <1>3. \A v \in Versions : floor[v] \in Nat
    BY Numbers DEF IInv, TypeOK
  <1> QED
    BY <1>1, <1>2, <1>3

LEMMA FloorBelow ==
    ASSUME IInv, NEW v \in Versions, v <= version
    PROVE  /\ floor[v] \in Nat /\ db \in Nat
           /\ floor[v] <= db
           /\ floor[v] <= floor[version]
  <1>1. v \in 0 .. version /\ version \in 0 .. version
    BY DEF IInv, TypeOK, Versions
  <1> QED
    BY <1>1, Numbers DEF IInv, TypeOK, FloorMonotone

\* A request nobody moves stays ordered, for coverage and commits only grow.
LEMMA OthersOrdered ==
    ASSUME IInv, UNCHANGED <<db, version, floor>>,
           NEW x \in Readers, pc'[x] = pc[x], ver'[x] = ver[x], low'[x] = low[x],
           total'[x] = total[x], items'[x] = items[x]
    PROVE  Ordered(x)' /\ AnswerCovers(x)'
  BY DEF IInv, ReaderOrdered, AnswersCoverInvalidations, Ordered, AnswerCovers

\* A request looks up under a version that covers what is covered now.
LEMMA StartListInv ==
    ASSUME IInv, NEW r \in Readers, NEW q \in Queries, StartList(r, q)
    PROVE  ReaderOrdered' /\ AnswersCoverInvalidations'
  <1>1. Ordered(r)' /\ AnswerCovers(r)'
    <2>1. /\ pc'[r] = "version" /\ ver'[r] = NoVersion
          /\ low'[r] = floor[version] /\ floor[version] \in Nat
          /\ UNCHANGED <<version, floor>>
      BY Numbers DEF IInv, TypeOK, StartList, Goto, ReaderOrdered, Ordered
    <2> QED
      BY <2>1 DEF Ordered, AnswerCovers
  <1>2. ASSUME NEW x \in Readers, x # r PROVE Ordered(x)' /\ AnswerCovers(x)'
    BY <1>2, OthersOrdered DEF IInv, TypeOK, StartList, Goto
  <1> QED
    BY <1>1, <1>2 DEF ReaderOrdered, AnswersCoverInvalidations

\* The version a lookup reads is the current one, or the lookup is given up.
LEMMA ReadVersionInv ==
    ASSUME IInv, NEW r \in Readers, ReadVersion(r)
    PROVE  ReaderOrdered' /\ AnswersCoverInvalidations'
  <1>1. Ordered(r)' /\ AnswerCovers(r)'
    <2>1. /\ pc[r] = "version" /\ ver[r] = NoVersion /\ version \in Nat
          /\ low[r] <= floor[version]
          /\ UNCHANGED <<db, version, low, floor>>
      BY Numbers DEF IInv, TypeOK, ReadVersion, Goto, ReaderOrdered, Ordered
    <2>2. \/ pc'[r] = "entry" /\ ver'[r] = version
          \/ pc'[r] = "count" /\ ver'[r] = NoVersion
      BY <2>1 DEF IInv, TypeOK, ReadVersion, Goto
    <2>3. version # NoVersion
      BY <2>1 DEF NoVersion
    <2> QED
      BY <2>1, <2>2, <2>3 DEF Ordered, AnswerCovers
  <1>2. ASSUME NEW x \in Readers, x # r PROVE Ordered(x)' /\ AnswerCovers(x)'
    BY <1>2, OthersOrdered DEF IInv, TypeOK, ReadVersion, Goto
  <1> QED
    BY <1>1, <1>2 DEF ReaderOrdered, AnswersCoverInvalidations

\* A hit is a page of a version that covers what the request must see.
LEMMA HitInv ==
    ASSUME IInv, NEW r \in Readers, Hit(r)
    PROVE  ReaderOrdered' /\ AnswersCoverInvalidations'
  <1>1. Ordered(r)' /\ AnswerCovers(r)'
    <2>1. /\ pc[r] = "entry" /\ ver[r] \in Versions
          /\ ver[r] <= version /\ low[r] <= floor[ver[r]] /\ low[r] <= floor[version]
          /\ UNCHANGED <<db, version, ver, low, floor>>
      BY DEF IInv, TypeOK, Hit, Goto, ReaderOrdered, Ordered
    <2>2. /\ Slot(r).kind = "page"
          /\ pc'[r] = "answered"
          /\ total'[r] = Slot(r).total /\ items'[r] = Slot(r).items
      BY DEF IInv, TypeOK, Hit, Goto
    <2>3. /\ floor[ver[r]] <= Slot(r).total
          /\ Slot(r).total <= Slot(r).items
          /\ Slot(r).items <= db
      BY <2>1, <2>2 DEF IInv, TypeOK, EntriesCoverFloor, Slot
    <2>4. low[r] \in Nat /\ floor[ver[r]] \in Nat /\ Slot(r).total \in Nat
      BY <2>1, Numbers DEF IInv, TypeOK, Slot, Entry
    <2> QED
      BY <2>1, <2>2, <2>3, <2>4 DEF Ordered, AnswerCovers
  <1>2. ASSUME NEW x \in Readers, x # r PROVE Ordered(x)' /\ AnswerCovers(x)'
    BY <1>2, OthersOrdered DEF IInv, TypeOK, Hit, Goto
  <1> QED
    BY <1>1, <1>2 DEF ReaderOrdered, AnswersCoverInvalidations

\* A miss keeps the version it missed under, or none.
LEMMA MissInv ==
    ASSUME IInv, NEW r \in Readers, Miss(r) \/ Unlink(r)
    PROVE  ReaderOrdered' /\ AnswersCoverInvalidations'
  <1>1. Ordered(r)' /\ AnswerCovers(r)'
    <2>1. /\ ver[r] # NoVersion
          /\ ver[r] <= version /\ low[r] <= floor[ver[r]] /\ low[r] <= floor[version]
          /\ UNCHANGED <<db, version, low, floor>>
      BY DEF IInv, TypeOK, Miss, Unlink, Goto, ReaderOrdered, Ordered
    <2>2. \/ pc'[r] = "count" /\ ver'[r] \in {ver[r], NoVersion}
          \/ pc'[r] = "unlink" /\ ver'[r] = ver[r]
      BY DEF IInv, TypeOK, Miss, Unlink, Goto
    <2> QED
      BY <2>1, <2>2 DEF Ordered, AnswerCovers
  <1>2. ASSUME NEW x \in Readers, x # r PROVE Ordered(x)' /\ AnswerCovers(x)'
    BY <1>2, OthersOrdered DEF IInv, TypeOK, Miss, Unlink, Goto
  <1> QED
    BY <1>1, <1>2 DEF ReaderOrdered, AnswersCoverInvalidations

\* The count sees every commit, hence those the version covers.
LEMMA CountTasksInv ==
    ASSUME IInv, NEW r \in Readers, CountTasks(r)
    PROVE  ReaderOrdered' /\ AnswersCoverInvalidations'
  <1>1. Ordered(r)' /\ AnswerCovers(r)'
    <2>1. /\ ver[r] # NoVersion => ver[r] <= version /\ low[r] <= floor[ver[r]]
          /\ low[r] <= floor[version]
          /\ pc'[r] = "select" /\ total'[r] = db
          /\ UNCHANGED <<db, version, ver, low, floor>>
      BY DEF IInv, TypeOK, CountTasks, Goto, ReaderOrdered, Ordered
    <2>2. /\ low[r] \in Nat /\ db \in Nat /\ floor[version] \in Nat
          /\ floor[version] <= db
      <3>1. version \in Versions /\ version <= version
        BY Numbers DEF IInv, TypeOK
      <3>2. low[r] \in Nat
        BY Numbers DEF IInv, TypeOK
      <3> QED
        BY <3>1, <3>2, FloorBelow
    <2>3. ver[r] # NoVersion => floor[ver[r]] <= db
      BY <2>1, FloorBelow DEF IInv, TypeOK
    <2> QED
      BY <2>1, <2>2, <2>3 DEF Ordered, AnswerCovers
  <1>2. ASSUME NEW x \in Readers, x # r PROVE Ordered(x)' /\ AnswerCovers(x)'
    BY <1>2, OthersOrdered DEF IInv, TypeOK, CountTasks, Goto
  <1> QED
    BY <1>1, <1>2 DEF ReaderOrdered, AnswersCoverInvalidations

\* The rows are at least as recent as the count.
LEMMA SelectTasksInv ==
    ASSUME IInv, NEW r \in Readers, SelectTasks(r)
    PROVE  ReaderOrdered' /\ AnswersCoverInvalidations'
  <1>1. Ordered(r)' /\ AnswerCovers(r)'
    <2>1. /\ ver[r] # NoVersion => ver[r] <= version /\ low[r] <= floor[ver[r]]
          /\ low[r] <= floor[version]
          /\ low[r] <= total[r] /\ total[r] <= db
          /\ ver[r] # NoVersion => floor[ver[r]] <= total[r]
          /\ UNCHANGED <<db, version, ver, low, total, floor>>
      BY DEF IInv, TypeOK, SelectTasks, Goto, ReaderOrdered, Ordered
    <2>2. /\ pc'[r] = IF ver[r] = NoVersion THEN "answered" ELSE "store"
          /\ items'[r] = db /\ db \in Nat
      BY Numbers DEF IInv, TypeOK, SelectTasks, Goto
    <2> QED
      BY <2>1, <2>2 DEF Ordered, AnswerCovers
  <1>2. ASSUME NEW x \in Readers, x # r PROVE Ordered(x)' /\ AnswerCovers(x)'
    BY <1>2, OthersOrdered DEF IInv, TypeOK, SelectTasks, Goto
  <1> QED
    BY <1>1, <1>2 DEF ReaderOrdered, AnswersCoverInvalidations

\* The page is stored under the version of the lookup, which its total covers.
LEMMA StoreEntryInv ==
    ASSUME IInv, NEW r \in Readers, StoreEntry(r)
    PROVE  EntriesCoverFloor' /\ ReaderOrdered' /\ AnswersCoverInvalidations'
  <1> DEFINE page == [kind |-> "page", total |-> total[r], items |-> items[r]]
  <1>1. /\ pc[r] = "store" /\ ver[r] \in Versions /\ ver[r] # NoVersion
        /\ ver[r] <= version /\ low[r] <= floor[ver[r]] /\ low[r] <= floor[version]
        /\ low[r] <= total[r] /\ floor[ver[r]] <= total[r]
        /\ total[r] <= items[r] /\ items[r] <= db
    BY DEF IInv, TypeOK, StoreEntry, Goto, ReaderOrdered, Ordered
  <1>2. /\ pc' = [pc EXCEPT ![r] = "answered"]
        /\ UNCHANGED <<db, version, query, ver, total, items, low, floor>>
    BY DEF StoreEntry, Goto
  <1>3. \A v \in Versions, q \in Queries : entries'[v][q] \in {entries[v][q], page}
                                        /\ (v # ver[r] => entries'[v][q] = entries[v][q])
    <2>1. entries' = [entries EXCEPT ![ver[r]][query[r]] = page] \/ entries' = entries
      BY DEF StoreEntry
    <2> QED
      BY <2>1, <1>1 DEF IInv, TypeOK
  <1>4. EntriesCoverFloor'
    BY <1>1, <1>2, <1>3 DEF IInv, EntriesCoverFloor
  <1>5. Ordered(r)' /\ AnswerCovers(r)'
    BY <1>1, <1>2 DEF IInv, TypeOK, Ordered, AnswerCovers
  <1>6. ASSUME NEW x \in Readers, x # r PROVE Ordered(x)' /\ AnswerCovers(x)'
    BY <1>2, <1>6, OthersOrdered DEF IInv, TypeOK
  <1> QED
    BY <1>4, <1>5, <1>6 DEF ReaderOrdered, AnswersCoverInvalidations

\* Removing a page leaves the others as they were.
LEMMA RemovalCovers ==
    ASSUME IInv, NEW v \in Versions, NEW q \in Queries,
           entries' = [entries EXCEPT ![v][q] = NoEntry] \/ entries' = entries,
           UNCHANGED <<db, version, floor>>
    PROVE  EntriesCoverFloor'
  <1>1. \A u \in Versions, p \in Queries : entries'[u][p] \in {entries[u][p], NoEntry}
    BY DEF IInv, TypeOK
  <1>2. NoEntry.kind # "page"
    BY DEF NoEntry
  <1> QED
    BY <1>1, <1>2 DEF IInv, EntriesCoverFloor

\* A request that is over has no lookup left and sees nothing.
LEMMA EndListInv ==
    ASSUME IInv, NEW r \in Readers, FinishList(r) \/ AbortList(r)
    PROVE  ReaderOrdered' /\ AnswersCoverInvalidations'
  <1>1. /\ pc' = [pc EXCEPT ![r] = "idle"]
        /\ ver' = [ver EXCEPT ![r] = NoVersion]
        /\ total' = [total EXCEPT ![r] = 0]
        /\ items' = [items EXCEPT ![r] = 0]
        /\ low' = [low EXCEPT ![r] = 0]
        /\ UNCHANGED <<db, version, floor>>
    BY DEF FinishList, AbortList, EndList, Goto
  <1>2. Ordered(r)' /\ AnswerCovers(r)'
    <2>1. pc'[r] = "idle" /\ ver'[r] = NoVersion /\ low'[r] = 0
      BY <1>1 DEF IInv, TypeOK
    <2>2. 0 <= floor[version]
      BY FloorNat
    <2> QED
      BY <1>1, <2>1, <2>2 DEF Ordered, AnswerCovers
  <1>3. ASSUME NEW x \in Readers, x # r PROVE Ordered(x)' /\ AnswerCovers(x)'
    BY <1>1, <1>3, OthersOrdered DEF IInv, TypeOK
  <1> QED
    BY <1>2, <1>3 DEF ReaderOrdered, AnswersCoverInvalidations

-----------------------------------------------------------------------------
(* The steps of mutating requests. *)

\* A commit makes the database newer and owes an invalidation.
LEMMA CommitInv ==
    ASSUME IInv, NEW w \in Writers, Commit(w)
    PROVE  /\ FloorMonotone' /\ EntriesCoverFloor' /\ ReaderOrdered'
           /\ AnswersCoverInvalidations' /\ WriterCommitted' /\ CommitsAccounted'
  <1>1. /\ db \in Nat /\ db' = db + 1
        /\ phase[w] = "flushed"
        /\ phase' = [phase EXCEPT ![w] = "committed"]
        /\ mine' = [mine EXCEPT ![w] = db + 1]
        /\ UNCHANGED <<version, entries, pc, query, ver, total, items, low, floor, lost>>
    BY Numbers DEF IInv, TypeOK, Commit, listVars
  <1>2. FloorMonotone'
    <2>1. \A v \in 0 .. version : floor[v] <= db' /\ floor[v] \in Nat
      BY <1>1, FloorNat DEF IInv, FloorMonotone
    <2> QED
      BY <1>1, <2>1 DEF IInv, FloorMonotone
  <1>3. EntriesCoverFloor'
    <2>1. \A v \in Versions, q \in Queries : entries[v][q].items \in Nat
      BY Numbers DEF IInv, TypeOK, Entry
    <2> QED
      BY <1>1, <2>1 DEF IInv, EntriesCoverFloor
  <1>4. ReaderOrdered' /\ AnswersCoverInvalidations'
    <2>1. \A r \in Readers : total[r] \in Nat /\ items[r] \in Nat
      BY Numbers DEF IInv, TypeOK
    <2> QED
      BY <1>1, <2>1 DEF IInv, ReaderOrdered, Ordered, AnswersCoverInvalidations,
                        AnswerCovers
  <1>5. WriterCommitted'
    <2>1. ASSUME NEW x \in Writers, phase'[x] = "committed" PROVE mine'[x] \in 1 .. db'
      BY <1>1, <2>1 DEF IInv, TypeOK, WriterCommitted
    <2> QED
      BY <2>1 DEF WriterCommitted
  <1>6. CommitsAccounted'
    <2>1. ASSUME NEW c \in 1 .. db'
          PROVE  (c <= floor[version] \/ c \in lost \/ Pending(c))'
      <3>1. CASE c = db + 1
        BY <1>1, <3>1 DEF IInv, TypeOK, Pending
      <3>2. CASE c \in 1 .. db
        <4>1. CASE Pending(c)
          BY <1>1, <3>2, <4>1 DEF IInv, TypeOK, Pending
        <4> QED
          BY <1>1, <3>2, <4>1 DEF IInv, CommitsAccounted
      <3> QED
        BY <1>1, <2>1, <3>1, <3>2
    <2> QED
      BY <2>1 DEF CommitsAccounted
  <1> QED
    BY <1>2, <1>3, <1>4, <1>5, <1>6

\* Starting a mutation, and rolling it back, concern nobody else.
LEMMA MutateInv ==
    ASSUME IInv, NEW w \in Writers, Mutate(w) \/ Rollback(w)
    PROVE  /\ FloorMonotone' /\ EntriesCoverFloor' /\ ReaderOrdered'
           /\ AnswersCoverInvalidations' /\ WriterCommitted' /\ CommitsAccounted'
  <1>1. /\ phase[w] # "committed"
        /\ phase' = [phase EXCEPT ![w] = "flushed"] \/ phase' = [phase EXCEPT ![w] = "idle"]
        /\ UNCHANGED <<db, version, entries, pc, query, ver, total, items, low,
                       mine, floor, lost>>
    BY DEF IInv, TypeOK, Mutate, Rollback, listVars
  <1>2. \A x \in Writers : (phase'[x] = "committed") <=> (phase[x] = "committed")
    BY <1>1 DEF IInv, TypeOK
  <1>3. FloorMonotone' /\ EntriesCoverFloor'
    BY <1>1 DEF IInv, FloorMonotone, EntriesCoverFloor
  <1>4. ReaderOrdered' /\ AnswersCoverInvalidations'
    BY <1>1, OthersOrdered DEF ReaderOrdered, AnswersCoverInvalidations
  <1>5. WriterCommitted' /\ CommitsAccounted'
    BY <1>1, <1>2 DEF IInv, WriterCommitted, CommitsAccounted, Pending
  <1> QED
    BY <1>3, <1>4, <1>5

\* The new version covers what the old one did and the commit of this request;
\* no page is kept under it yet.
LEMMA InvalidateInv ==
    ASSUME IInv, NEW w \in Writers, Invalidate(w)
    PROVE  /\ FloorMonotone' /\ EntriesCoverFloor' /\ ReaderOrdered'
           /\ AnswersCoverInvalidations' /\ WriterCommitted' /\ CommitsAccounted'
  <1> DEFINE covers == IF mine[w] > floor[version] THEN mine[w] ELSE floor[version]
  <1>1. /\ phase[w] = "committed" /\ mine[w] \in 1 .. db
        /\ version' = version + 1 /\ version + 1 \in Versions
        /\ floor' = [floor EXCEPT ![version + 1] = covers]
        /\ UNCHANGED <<db, entries, pc, query, ver, total, items, low, lost>>
    BY FloorNat, MaxVersionNat DEF IInv, WriterCommitted, Invalidate, listVars, Versions
  <1>2. /\ covers \in Nat /\ covers <= db
        /\ floor[version] <= covers /\ mine[w] <= covers
    BY <1>1, FloorNat, FloorBelow
  <1>3. /\ floor'[version + 1] = covers
        /\ \A v \in 0 .. version : floor'[v] = floor[v]
    BY <1>1, FloorNat DEF IInv, TypeOK
  <1>4. FloorMonotone'
    <2>1. \A v \in 0 .. version' : v \in 0 .. version \/ v = version + 1
      BY <1>1, FloorNat
    <2>2. \A v \in 0 .. version : floor[v] <= covers /\ floor[v] \in Nat
      BY <1>2, FloorNat, FloorBelow
    <2>3. \A v \in 0 .. version' : floor'[v] <= db'
      BY <1>1, <1>2, <1>3, <2>1 DEF IInv, FloorMonotone
    <2>4. ASSUME NEW u \in 0 .. version', NEW v \in 0 .. version', u <= v
          PROVE  floor'[u] <= floor'[v]
      <3>1. CASE v \in 0 .. version
        BY <2>1, <2>4, <3>1, <1>1, <1>3, FloorNat DEF IInv, FloorMonotone
      <3>2. CASE v = version + 1
        BY <2>1, <2>2, <2>4, <3>2, <1>2, <1>3
      <3> QED
        BY <2>1, <3>1, <3>2
    <2> QED
      BY <2>3, <2>4 DEF FloorMonotone
  <1>5. EntriesCoverFloor'
    <2>1. ASSUME NEW v \in Versions, NEW q \in Queries, entries[v][q].kind = "page"
          PROVE  /\ v <= version' /\ floor'[v] <= entries[v][q].total
                 /\ entries[v][q].total <= entries[v][q].items
                 /\ entries[v][q].items <= db
      <3>1. v <= version /\ v \in 0 .. version
        BY <2>1, FloorNat DEF IInv, EntriesCoverFloor, Versions
      <3> QED
        BY <2>1, <3>1, <1>1, <1>3, FloorNat DEF IInv, EntriesCoverFloor
    <2> QED
      BY <1>1, <2>1 DEF EntriesCoverFloor
  <1>6. ReaderOrdered'
    <2>1. ASSUME NEW r \in Readers PROVE Ordered(r)'
      <3>1. Ordered(r) /\ low[r] \in Nat
        BY Numbers DEF IInv, TypeOK, ReaderOrdered
      <3>2. ver[r] # NoVersion =>
              ver[r] <= version' /\ floor'[ver[r]] = floor[ver[r]]
        BY <3>1, <1>1, <1>3, FloorNat DEF IInv, TypeOK, Ordered, Versions
      <3>3. low[r] <= floor'[version']
        BY <3>1, <1>1, <1>2, <1>3, FloorNat DEF Ordered
      <3> QED
        BY <3>1, <3>2, <3>3, <1>1 DEF Ordered
    <2> QED
      BY <2>1 DEF ReaderOrdered
  <1>7. AnswersCoverInvalidations'
    BY <1>1 DEF IInv, AnswersCoverInvalidations, AnswerCovers
  <1>8. \A x \in Writers : /\ phase'[x] = "committed" => phase[x] = "committed"
                           /\ phase'[x] = "committed" => mine'[x] = mine[x]
                           /\ x # w => phase'[x] = phase[x] /\ mine'[x] = mine[x]
    BY DEF IInv, TypeOK, Invalidate, EndMutation
  <1>9. WriterCommitted'
    BY <1>1, <1>8 DEF IInv, WriterCommitted
  <1>10. CommitsAccounted'
    <2>1. ASSUME NEW c \in 1 .. db
          PROVE  (c <= floor[version] \/ c \in lost \/ Pending(c))'
      <3>1. floor'[version'] = covers
        BY <1>1, <1>3
      <3>2. CASE c <= floor[version]
        BY <2>1, <3>1, <3>2, <1>2, FloorNat
      <3>3. CASE c \in lost
        BY <3>3, <1>1
      <3>4. CASE Pending(c)
        <4>1. PICK x \in Writers : phase[x] = "committed" /\ mine[x] = c
          BY <3>4 DEF Pending
        <4>2. CASE x = w
          BY <4>1, <4>2, <3>1, <1>2
        <4>3. CASE x # w
          BY <4>1, <4>3, <1>8 DEF Pending
        <4> QED
          BY <4>2, <4>3
      <3> QED
        BY <2>1, <3>2, <3>3, <3>4 DEF IInv, CommitsAccounted
    <2> QED
      BY <2>1, <1>1 DEF CommitsAccounted
  <1> QED
    BY <1>4, <1>5, <1>6, <1>7, <1>9, <1>10

\* Giving up an invalidation that nothing covers is what `lost' records.
LEMMA GiveUpInv ==
    ASSUME IInv, NEW w \in Writers, GiveUp(w)
    PROVE  /\ FloorMonotone' /\ EntriesCoverFloor' /\ ReaderOrdered'
           /\ AnswersCoverInvalidations' /\ WriterCommitted' /\ CommitsAccounted'
  <1>1. /\ mine[w] \in 1 .. db
        /\ lost' = IF mine[w] > floor[version] THEN lost \cup {mine[w]} ELSE lost
        /\ phase' = [phase EXCEPT ![w] = "idle"]
        /\ mine' = [mine EXCEPT ![w] = 0]
        /\ UNCHANGED <<db, version, entries, pc, query, ver, total, items, low, floor>>
    BY DEF IInv, WriterCommitted, GiveUp, EndMutation, listVars
  <1>2. FloorMonotone' /\ EntriesCoverFloor'
    BY <1>1 DEF IInv, FloorMonotone, EntriesCoverFloor
  <1>3. ReaderOrdered' /\ AnswersCoverInvalidations'
    BY <1>1, OthersOrdered DEF ReaderOrdered, AnswersCoverInvalidations
  <1>4. WriterCommitted'
    BY <1>1 DEF IInv, TypeOK, WriterCommitted
  <1>5. CommitsAccounted'
    <2>1. ASSUME NEW c \in 1 .. db
          PROVE  (c <= floor[version] \/ c \in lost \/ Pending(c))'
      <3>1. CASE c <= floor[version] \/ c \in lost
        BY <3>1, <1>1
      <3>2. CASE Pending(c)
        <4>1. PICK x \in Writers : phase[x] = "committed" /\ mine[x] = c
          BY <3>2 DEF Pending
        <4>2. CASE x = w
          BY <4>1, <4>2, <1>1, FloorNat
        <4>3. CASE x # w
          BY <4>1, <4>3, <1>1 DEF IInv, TypeOK, Pending
        <4> QED
          BY <4>2, <4>3
      <3> QED
        BY <2>1, <3>1, <3>2 DEF IInv, CommitsAccounted
    <2> QED
      BY <2>1, <1>1 DEF CommitsAccounted
  <1> QED
    BY <1>2, <1>3, <1>4, <1>5

-----------------------------------------------------------------------------
(* The theorems. *)

LEMMA InvStep == IInv /\ [Next]_vars => IInv'
  <1> SUFFICES ASSUME IInv, [Next]_vars PROVE IInv'
    OBVIOUS
  <1>0. TypeOK'
    BY TypeStep DEF IInv
  <1> DEFINE Rest == /\ FloorMonotone /\ EntriesCoverFloor /\ ReaderOrdered
                     /\ AnswersCoverInvalidations /\ WriterCommitted /\ CommitsAccounted
  <1>1. ASSUME NEW r \in Readers, NEW q \in Queries, StartList(r, q) PROVE Rest'
    <2>1. UNCHANGED <<db, version, entries, writeVars, floor, lost>>
      BY <1>1 DEF StartList
    <2> QED
      BY <1>1, <2>1, StartListInv, CommitsFrame, EntriesFrame
  <1>2. ASSUME NEW r \in Readers, ReadVersion(r) PROVE Rest'
    <2>1. UNCHANGED <<db, version, entries, writeVars, floor, lost>>
      BY <1>2 DEF ReadVersion
    <2> QED
      BY <1>2, <2>1, ReadVersionInv, CommitsFrame, EntriesFrame
  <1>3. ASSUME NEW r \in Readers, Hit(r) PROVE Rest'
    <2>1. UNCHANGED <<db, version, entries, writeVars, floor, lost>>
      BY <1>3 DEF Hit
    <2> QED
      BY <1>3, <2>1, HitInv, CommitsFrame, EntriesFrame
  <1>4. ASSUME NEW r \in Readers, Miss(r) PROVE Rest'
    <2>1. UNCHANGED <<db, version, entries, writeVars, floor, lost>>
      BY <1>4 DEF Miss
    <2> QED
      BY <1>4, <2>1, MissInv, CommitsFrame, EntriesFrame
  <1>5. ASSUME NEW r \in Readers, Unlink(r) PROVE Rest'
    <2>1. UNCHANGED <<db, version, writeVars, floor, lost>>
      BY <1>5 DEF Unlink
    <2>2. /\ ver[r] \in Versions /\ query[r] \in Queries
          /\ \/ entries' = [entries EXCEPT ![ver[r]][query[r]] = NoEntry]
             \/ entries' = entries
      BY <1>5 DEF Unlink, Goto, IInv, TypeOK, ReaderOrdered, Ordered
    <2>3. EntriesCoverFloor'
      BY <2>1, <2>2, RemovalCovers
    <2> QED
      BY <1>5, <2>1, <2>3, MissInv, CommitsFrame
  <1>6. ASSUME NEW r \in Readers, CountTasks(r) PROVE Rest'
    <2>1. UNCHANGED <<db, version, entries, writeVars, floor, lost>>
      BY <1>6 DEF CountTasks
    <2> QED
      BY <1>6, <2>1, CountTasksInv, CommitsFrame, EntriesFrame
  <1>7. ASSUME NEW r \in Readers, SelectTasks(r) PROVE Rest'
    <2>1. UNCHANGED <<db, version, entries, writeVars, floor, lost>>
      BY <1>7 DEF SelectTasks
    <2> QED
      BY <1>7, <2>1, SelectTasksInv, CommitsFrame, EntriesFrame
  <1>8. ASSUME NEW r \in Readers, StoreEntry(r) PROVE Rest'
    <2>1. UNCHANGED <<db, version, writeVars, floor, lost>>
      BY <1>8 DEF StoreEntry
    <2> QED
      BY <1>8, <2>1, StoreEntryInv, CommitsFrame
  <1>9. ASSUME NEW r \in Readers, FinishList(r) \/ AbortList(r) PROVE Rest'
    <2>1. UNCHANGED <<db, version, entries, writeVars, floor, lost>>
      BY <1>9 DEF FinishList, AbortList, EndList
    <2> QED
      BY <1>9, <2>1, EndListInv, CommitsFrame, EntriesFrame
  <1>10. ASSUME NEW w \in Writers, Mutate(w) \/ Rollback(w) PROVE Rest'
    BY <1>10, MutateInv
  <1>11. ASSUME NEW w \in Writers, Commit(w) PROVE Rest'
    BY <1>11, CommitInv
  <1>12. ASSUME NEW w \in Writers, Invalidate(w) PROVE Rest'
    BY <1>12, InvalidateInv
  <1>13. ASSUME NEW w \in Writers, GiveUp(w) PROVE Rest'
    BY <1>13, GiveUpInv
  <1>14. ASSUME NEW v \in Versions, NEW q \in Queries, Expire(v, q) PROVE Rest'
    <2>1. /\ entries' = [entries EXCEPT ![v][q] = NoEntry]
          /\ UNCHANGED <<db, version, pc, query, ver, total, items, low, writeVars,
                         floor, lost>>
      BY <1>14 DEF Expire, listVars
    <2>2. EntriesCoverFloor'
      BY <2>1, RemovalCovers
    <2>3. ReaderOrdered' /\ AnswersCoverInvalidations'
      BY <2>1, OthersOrdered DEF ReaderOrdered, AnswersCoverInvalidations
    <2> QED
      BY <2>1, <2>2, <2>3, CommitsFrame
  <1>15. CASE UNCHANGED vars
    <2>1. UNCHANGED <<db, version, entries, pc, query, ver, total, items, low,
                      writeVars, floor, lost>>
      BY <1>15 DEF vars, listVars
    <2>2. ReaderOrdered' /\ AnswersCoverInvalidations'
      BY <2>1, OthersOrdered DEF ReaderOrdered, AnswersCoverInvalidations
    <2> QED
      BY <2>1, <2>2, CommitsFrame, EntriesFrame, <1>0 DEF IInv
  <1>16. CASE Next
    BY <1>0, <1>1, <1>2, <1>3, <1>4, <1>5, <1>6, <1>7, <1>8, <1>9, <1>10, <1>11,
       <1>12, <1>13, <1>14, <1>16 DEF Next, Lookup, Load, IInv
  <1> QED
    BY <1>15, <1>16

\* The inductive invariant of list_tasks, the cache and post-commit invalidation
\* holds in every reachable state.
THEOREM Invariance == Spec => []IInv
  <1>1. Init => IInv
    BY InitInv
  <1>2. IInv /\ [Next]_vars => IInv'
    BY InvStep
  <1> QED
    BY <1>1, <1>2, PTL DEF Spec

\* Every variable keeps its type.
THEOREM TypeCorrectness == Spec => []TypeOK
  BY Invariance, PTL DEF IInv

\* RedisTaskListCache.set never leaves a page that misses a commit its version
\* covers, however late it runs.
THEOREM CacheCoherence == Spec => []EntriesCoverFloor
  BY Invariance, PTL DEF IInv

\* list_tasks answers with every commit whose invalidation was applied before
\* the request arrived.
THEOREM AnswersAreCovered == Spec => []AnswersCoverInvalidations
  BY Invariance, PTL DEF IInv

\* A page that can be found is stale only by commits whose invalidation is still
\* to run or was lost.
THEOREM StalenessIsAccounted == Spec => []StaleOnlyWhileUncovered
  <1>1. IInv => StaleOnlyWhileUncovered
    <2> SUFFICES ASSUME IInv, NEW q \in Queries, entries[version][q].kind = "page",
                        NEW c \in entries[version][q].total + 1 .. db
                 PROVE  c \in lost \/ Pending(c)
      BY DEF StaleOnlyWhileUncovered
    <2>1. /\ version \in Versions /\ floor[version] \in Nat /\ db \in Nat
          /\ entries[version][q].total \in Nat
      <3>1. version \in Versions /\ floor[version] \in Nat /\ db \in Nat
        BY FloorNat
      <3>2. entries[version][q] \in Entry
        BY <3>1 DEF IInv, TypeOK
      <3> QED
        BY <3>1, <3>2, Numbers DEF Entry
    <2>2. floor[version] <= entries[version][q].total
      BY <2>1 DEF IInv, EntriesCoverFloor
    <2>3. c \in 1 .. db /\ ~(c <= floor[version])
      BY <2>1, <2>2
    <2> QED
      BY <2>3 DEF IInv, CommitsAccounted
  <1> QED
    BY <1>1, Invariance, PTL

-----------------------------------------------------------------------------
(* Refinement: forgetting Redis, each step is a step of the contract. *)

LEMMA RefineInit == Init => Contract!Init
  <1> SUFFICES ASSUME Init PROVE Contract!Init
    OBVIOUS
  <1>1. db = 0 /\ floor[version] = 0
    BY Resets DEF Init
  <1>2. \A r \in Readers : Request(r) = Contract!Idle
    BY DEF Init, Request, Contract!Idle
  <1> QED
    BY <1>1, <1>2 DEF Contract!Init

\* Between its arrival and its answer, a request's steps are invisible.
LEMMA OpenStep ==
    ASSUME IInv, NEW r \in Readers, NEW to, pc[r] \notin {"idle", "answered"},
           to \notin {"idle", "answered"}, pc' = [pc EXCEPT ![r] = to],
           \A x \in Readers : x # r => total'[x] = total[x] /\ items'[x] = items[x],
           UNCHANGED <<db, version, floor, low>>
    PROVE  UNCHANGED Contract!vars
  <1>1. \A x \in Readers : Request(x)' = Request(x)
    BY DEF IInv, TypeOK, Request
  <1> QED
    BY <1>1 DEF Contract!vars

\* An answer is one the contract allows.
LEMMA AnswerStep ==
    ASSUME IInv, IInv', NEW r \in Readers, pc[r] \notin {"idle", "answered"},
           pc' = [pc EXCEPT ![r] = "answered"],
           \A x \in Readers : x # r => total'[x] = total[x] /\ items'[x] = items[x],
           UNCHANGED <<db, version, floor, low>>
    PROVE  Contract!Answer(r)
  <1>1. /\ low[r] \in Nat /\ total'[r] \in Nat /\ items'[r] \in Nat /\ db \in Nat
        /\ low[r] <= total'[r] /\ total'[r] <= items'[r] /\ items'[r] <= db
    <2>1. /\ low[r] \in Nat /\ total'[r] \in Nat /\ items'[r] \in Nat /\ db \in Nat
      BY Numbers DEF IInv, TypeOK
    <2>2. AnswerCovers(r)'
      BY DEF IInv, AnswersCoverInvalidations
    <2> QED
      BY <2>1, <2>2 DEF IInv, TypeOK, AnswerCovers
  <1>2. total'[r] \in low[r] .. db /\ items'[r] \in low[r] .. db
    BY <1>1
  <1>3. Request(r) = [state |-> "open", low |-> low[r], total |-> 0, items |-> 0]
    BY DEF Request
  <1>4. Request(r)' = [state |-> "answered", low |-> low[r],
                       total |-> total'[r], items |-> items'[r]]
    BY DEF IInv, TypeOK, Request
  <1>5. \A x \in Readers : x # r => Request(x)' = Request(x)
    BY DEF IInv, TypeOK, Request
  <1> DEFINE R == [x \in Readers |-> Request(x)]
  <1>6. R[r].state = "open" /\ R[r].low = low[r]
    BY <1>3
  <1>7. R' = [R EXCEPT ![r] = [state |-> "answered", low |-> low[r],
                              total |-> total'[r], items |-> items'[r]]]
    BY <1>4, <1>5
  <1> HIDE DEF R
  <1>8. \E t, i \in R[r].low .. db :
           /\ t <= i
           /\ R' = [R EXCEPT ![r] = [state |-> "answered", low |-> R[r].low,
                                   total |-> t, items |-> i]]
    BY <1>1, <1>2, <1>6, <1>7
  <1> QED
    BY <1>6, <1>8 DEF Contract!Answer, R

LEMMA RefineStep == IInv /\ IInv' /\ [Next]_vars => [Contract!Next]_(Contract!vars)
  <1> SUFFICES ASSUME IInv, IInv', [Next]_vars
               PROVE  Contract!Next \/ UNCHANGED Contract!vars
    OBVIOUS
  <1> DEFINE Refined == Contract!Next \/ UNCHANGED Contract!vars
  <1>1. ASSUME NEW r \in Readers, NEW q \in Queries, StartList(r, q) PROVE Refined
    <2>1. /\ pc[r] = "idle" /\ pc' = [pc EXCEPT ![r] = "version"]
          /\ low' = [low EXCEPT ![r] = floor[version]]
          /\ UNCHANGED <<db, version, floor, total, items>>
      BY <1>1 DEF StartList, Goto
    <2>2. Request(r)' = [state |-> "open", low |-> floor[version],
                         total |-> 0, items |-> 0]
      BY <2>1 DEF IInv, TypeOK, Request
    <2>3. \A x \in Readers : x # r => Request(x)' = Request(x)
      BY <2>1 DEF IInv, TypeOK, Request
    <2>4. Request(r).state = "idle"
      BY <2>1 DEF Request
    <2>5. Contract!Ask(r)
      BY <2>1, <2>2, <2>3, <2>4 DEF Contract!Ask
    <2> QED
      BY <2>5 DEF Contract!Next
  <1>2. ASSUME NEW r \in Readers, ReadVersion(r) PROVE Refined
    <2>1. /\ pc[r] = "version"
          /\ pc' = [pc EXCEPT ![r] = "entry"] \/ pc' = [pc EXCEPT ![r] = "count"]
          /\ UNCHANGED <<db, version, floor, low, total, items>>
      BY <1>2 DEF ReadVersion, Goto
    <2> QED
      BY <2>1, OpenStep
  <1>3. ASSUME NEW r \in Readers, Hit(r) PROVE Refined
    <2>1. /\ pc[r] = "entry" /\ pc' = [pc EXCEPT ![r] = "answered"]
          /\ \A x \in Readers : x # r => total'[x] = total[x] /\ items'[x] = items[x]
          /\ UNCHANGED <<db, version, floor, low>>
      BY <1>3 DEF IInv, TypeOK, Hit, Goto
    <2> QED
      BY <2>1, AnswerStep DEF Contract!Next
  <1>4. ASSUME NEW r \in Readers, Miss(r) \/ Unlink(r) PROVE Refined
    <2>1. /\ pc[r] \in {"entry", "unlink"}
          /\ pc' = [pc EXCEPT ![r] = "unlink"] \/ pc' = [pc EXCEPT ![r] = "count"]
          /\ UNCHANGED <<db, version, floor, low, total, items>>
      BY <1>4 DEF Miss, Unlink, Goto
    <2> QED
      BY <2>1, OpenStep
  <1>5. ASSUME NEW r \in Readers, CountTasks(r) PROVE Refined
    <2>1. /\ pc[r] = "count" /\ pc' = [pc EXCEPT ![r] = "select"]
          /\ \A x \in Readers : x # r => total'[x] = total[x] /\ items'[x] = items[x]
          /\ UNCHANGED <<db, version, floor, low>>
      BY <1>5 DEF IInv, TypeOK, CountTasks, Goto
    <2> QED
      BY <2>1, OpenStep
  <1>6. ASSUME NEW r \in Readers, SelectTasks(r) PROVE Refined
    <2>1. /\ pc[r] = "select"
          /\ pc' = [pc EXCEPT ![r] = "answered"] \/ pc' = [pc EXCEPT ![r] = "store"]
          /\ \A x \in Readers : x # r => total'[x] = total[x] /\ items'[x] = items[x]
          /\ UNCHANGED <<db, version, floor, low>>
      BY <1>6 DEF IInv, TypeOK, SelectTasks, Goto
    <2>2. CASE pc' = [pc EXCEPT ![r] = "answered"]
      BY <2>1, <2>2, AnswerStep DEF Contract!Next
    <2>3. CASE pc' = [pc EXCEPT ![r] = "store"]
      BY <2>1, <2>3, OpenStep
    <2> QED
      BY <2>1, <2>2, <2>3
  <1>7. ASSUME NEW r \in Readers, StoreEntry(r) PROVE Refined
    <2>1. /\ pc[r] = "store" /\ pc' = [pc EXCEPT ![r] = "answered"]
          /\ UNCHANGED <<db, version, floor, low, total, items>>
      BY <1>7 DEF StoreEntry, Goto
    <2> QED
      BY <2>1, AnswerStep DEF Contract!Next
  <1>8. ASSUME NEW r \in Readers, FinishList(r) \/ AbortList(r) PROVE Refined
    <2>1. /\ pc[r] # "idle" /\ pc' = [pc EXCEPT ![r] = "idle"]
          /\ total' = [total EXCEPT ![r] = 0]
          /\ items' = [items EXCEPT ![r] = 0]
          /\ low' = [low EXCEPT ![r] = 0]
          /\ UNCHANGED <<db, version, floor>>
      BY <1>8 DEF FinishList, AbortList, EndList, Goto
    <2>2. Request(r)' = Contract!Idle
      BY <2>1 DEF IInv, TypeOK, Request, Contract!Idle
    <2>3. \A x \in Readers : x # r => Request(x)' = Request(x)
      BY <2>1 DEF IInv, TypeOK, Request
    <2>4. Request(r).state # "idle"
      BY <2>1 DEF Request
    <2>5. Contract!Close(r)
      BY <2>1, <2>2, <2>3, <2>4 DEF Contract!Close
    <2> QED
      BY <2>5 DEF Contract!Next
  <1>9. ASSUME NEW w \in Writers, Commit(w) PROVE Refined
    <2>1. /\ db < MaxCommits /\ db' = db + 1
          /\ UNCHANGED <<version, floor, pc, low, total, items>>
      BY <1>9 DEF Commit, listVars
    <2>2. \A x \in Readers : Request(x)' = Request(x)
      BY <2>1 DEF Request
    <2>3. Contract!Commit
      BY <2>1, <2>2 DEF Contract!Commit
    <2> QED
      BY <2>3 DEF Contract!Next
  <1>10. ASSUME NEW w \in Writers, Invalidate(w) PROVE Refined
    <2>1. /\ version' = version + 1
          /\ UNCHANGED <<db, pc, low, total, items>>
      BY <1>10 DEF Invalidate, listVars
    <2>2. floor'[version'] \in floor[version] .. db
      <3>1. /\ mine[w] \in 1 .. db /\ version + 1 \in Versions
            /\ floor' = [floor EXCEPT ![version + 1] =
                  IF mine[w] > floor[version] THEN mine[w] ELSE floor[version]]
        BY <1>10, FloorNat, MaxVersionNat
           DEF IInv, WriterCommitted, Invalidate, Versions
      <3>2. floor'[version'] =
              IF mine[w] > floor[version] THEN mine[w] ELSE floor[version]
        BY <2>1, <3>1 DEF IInv, TypeOK
      <3> QED
        BY <3>1, <3>2, FloorNat, FloorBelow
    <2>3. \A x \in Readers : Request(x)' = Request(x)
      BY <2>1 DEF Request
    <2>4. Contract!Cover
      BY <2>1, <2>2, <2>3 DEF Contract!Cover
    <2> QED
      BY <2>4 DEF Contract!Next
  <1>11. ASSUME UNCHANGED <<db, version, floor, pc, low, total, items>> PROVE Refined
    <2>1. \A x \in Readers : Request(x)' = Request(x)
      BY <1>11 DEF Request
    <2> QED
      BY <1>11, <2>1 DEF Contract!vars
  <1>12. ASSUME NEW w \in Writers, Mutate(w) \/ Rollback(w) \/ GiveUp(w) PROVE Refined
    BY <1>11, <1>12 DEF Mutate, Rollback, GiveUp, listVars
  <1>13. ASSUME NEW v \in Versions, NEW q \in Queries, Expire(v, q) PROVE Refined
    BY <1>11, <1>13 DEF Expire, listVars
  <1>14. CASE UNCHANGED vars
    BY <1>11, <1>14 DEF vars, listVars
  <1>15. CASE Next
    BY <1>1, <1>2, <1>3, <1>4, <1>5, <1>6, <1>7, <1>8, <1>9, <1>10, <1>12, <1>13,
       <1>15 DEF Next, Lookup, Load
  <1> QED
    BY <1>14, <1>15

\* The list endpoint with its cache, its commits and its invalidations behaves
\* as the contract says.
THEOREM Refinement == Spec => ImplementsContract
  <1>1. Init => Contract!Init
    BY RefineInit
  <1>2. IInv /\ IInv' /\ [Next]_vars => [Contract!Next]_(Contract!vars)
    BY RefineStep
  <1> QED
    BY <1>1, <1>2, Invariance, PTL DEF Spec, ImplementsContract, Contract!Spec
=============================================================================
