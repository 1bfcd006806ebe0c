---------------------------- MODULE TaskListCache ----------------------------
(***************************************************************************)
(* The Redis task-list cache of one project, with the requests that read   *)
(* pages through it and the requests whose commits invalidate it.          *)
(*                                                                         *)
(* Every `await' of the code is a point where other requests run, so each  *)
(* Redis command and each SQL statement is a step of its own.  The tasks   *)
(* of the project are the number of committed mutations; a page is what    *)
(* its two statements saw: `total' for the count and `items' for the rows. *)
(* A query stands for one fingerprint of page, page size and filters.      *)
(*                                                                         *)
(* A Redis command may fail before or after it took effect.  A command     *)
(* that reaches Redis after its caller timed out is a caller that is slow. *)
(***************************************************************************)
EXTENDS Integers

CONSTANTS Readers,     \* list requests
          Writers,     \* mutating requests
          Queries,     \* fingerprints
          MaxCommits,  \* bound on committed mutations
          MaxAttempts  \* INCRs the Redis client sends for one invalidation

ASSUME CacheBounds == MaxCommits \in Nat /\ MaxAttempts \in Nat \ {0}

VARIABLES db,      \* committed mutations of the project
          version, \* the project's version key; an absent key reads as 0
          entries, \* entries[v][q]: the response key of version v and query q
          pc,      \* where a list request is
          query,   \* its fingerprint
          ver,     \* the version its lookup read, or NoVersion
          total,   \* the commits its count saw
          items,   \* the commits its rows saw
          phase,   \* where a mutating request is
          mine,    \* the commit it made
          tries,   \* the INCRs of it that timed out
          floor,   \* history: the last commit covered when the key became v
          low,     \* history: what was covered when a list request arrived
          lost     \* history: commits whose invalidation was never applied

listVars  == <<pc, query, ver, total, items, low>>
writeVars == <<phase, mine, tries>>
vars == <<db, version, entries, listVars, writeVars, floor, lost>>

MaxVersion == MaxAttempts * MaxCommits
Versions   == 0 .. MaxVersion
NoVersion  == -1      \* cache_lookup is None: the lookup failed
Commits    == 0 .. MaxCommits

Entry   == [kind : {"absent", "invalid", "page"}, total : Commits, items : Commits]
NoEntry == [kind |-> "absent", total |-> 0, items |-> 0]
Garbage == [kind |-> "invalid", total |-> 0, items |-> 0]

\* A payload that no longer validates may be left over at the first version.
Init == /\ db = 0
        /\ version = 0
        /\ entries \in [Versions -> [Queries -> {NoEntry, Garbage}]]
        /\ \A v \in Versions \ {0}, q \in Queries : entries[v][q] = NoEntry
        /\ pc = [r \in Readers |-> "idle"]
        /\ query \in [Readers -> Queries]
        /\ ver = [r \in Readers |-> NoVersion]
        /\ total = [r \in Readers |-> 0]
        /\ items = [r \in Readers |-> 0]
        /\ phase = [w \in Writers |-> "idle"]
        /\ mine = [w \in Writers |-> 0]
        /\ tries = [w \in Writers |-> 0]
        /\ floor = [v \in Versions |-> 0]
        /\ low = [r \in Readers |-> 0]
        /\ lost = {}

-----------------------------------------------------------------------------
(* GET /projects/{project_id}/tasks *)

Goto(r, from, to) == pc[r] = from /\ pc' = [pc EXCEPT ![r] = to]

\* The response key a request looks up and stores under.
Slot(r) == entries[ver[r]][query[r]]

\* The request arrives and passes its access check.
StartList(r, q) ==
    /\ Goto(r, "idle", "version")
    /\ query' = [query EXCEPT ![r] = q]
    /\ low' = [low EXCEPT ![r] = floor[version]]
    /\ UNCHANGED <<db, version, entries, ver, total, items, writeVars, floor, lost>>

\* Mutant: the version is taken for absent whatever the key holds.
ReadVersionZero(r) ==
    /\ Goto(r, "version", "entry")
    /\ ver' = [ver EXCEPT ![r] = 0]
    /\ UNCHANGED <<db, version, entries, query, total, items, low, writeVars,
                   floor, lost>>

\* get: the version key is read, or the lookup fails as a whole.
ReadVersion(r) ==
    /\ \/ /\ Goto(r, "version", "entry")
          /\ ver' = [ver EXCEPT ![r] = version]
       \/ /\ Goto(r, "version", "count")
          /\ UNCHANGED ver
    /\ UNCHANGED <<db, version, entries, query, total, items, low, writeVars,
                   floor, lost>>

\* Mutant: a page of an older version is good enough.
HitOlder(r) ==
    /\ Goto(r, "entry", "answered")
    /\ \E v \in 0 .. ver[r] : LET e == entries[v][query[r]] IN
          /\ e.kind = "page"
          /\ total' = [total EXCEPT ![r] = e.total]
          /\ items' = [items EXCEPT ![r] = e.items]
    /\ UNCHANGED <<db, version, entries, query, ver, low, writeVars, floor, lost>>

\* get: the response key holds a page, and the page is the answer.
Hit(r) ==
    /\ Goto(r, "entry", "answered")
    /\ Slot(r).kind = "page"
    /\ total' = [total EXCEPT ![r] = Slot(r).total]
    /\ items' = [items EXCEPT ![r] = Slot(r).items]
    /\ UNCHANGED <<db, version, entries, query, ver, low, writeVars, floor, lost>>

\* get: no response; a payload that fails validation is first to be unlinked,
\* and a Redis error makes the whole lookup None.
Miss(r) ==
    /\ \/ /\ Goto(r, "entry", "count")
          /\ Slot(r).kind = "absent"
          /\ UNCHANGED ver
       \/ /\ Goto(r, "entry", "unlink")
          /\ Slot(r).kind = "invalid"
          /\ UNCHANGED ver
       \/ /\ Goto(r, "entry", "count")
          /\ ver' = [ver EXCEPT ![r] = NoVersion]
    /\ UNCHANGED <<db, version, entries, query, total, items, low, writeVars,
                   floor, lost>>

\* get: the response key is unlinked, whatever it holds by now, or the command
\* fails and the payload stays.
Unlink(r) ==
    /\ Goto(r, "unlink", "count")
    /\ \/ entries' = [entries EXCEPT ![ver[r]][query[r]] = NoEntry]
       \/ UNCHANGED entries
    /\ UNCHANGED <<db, version, query, ver, total, items, low, writeVars, floor, lost>>

\* list_by_project: the count, in a snapshot of its own (READ COMMITTED).
CountTasks(r) ==
    /\ Goto(r, "count", "select")
    /\ total' = [total EXCEPT ![r] = db]
    /\ UNCHANGED <<db, version, entries, query, ver, items, low, writeVars, floor, lost>>

\* list_by_project: the rows, in a later snapshot.
SelectTasks(r) ==
    /\ Goto(r, "select", IF ver[r] = NoVersion THEN "answered" ELSE "store")
    /\ items' = [items EXCEPT ![r] = db]
    /\ UNCHANGED <<db, version, entries, query, ver, total, low, writeVars, floor, lost>>

\* Mutants: the version is read again when the page is stored; the stored total
\* counts one task too many.
StoreUnderCurrent(r) ==
    /\ Goto(r, "store", "answered")
    /\ entries' = [entries EXCEPT ![version][query[r]] =
                      [kind |-> "page", total |-> total[r], items |-> items[r]]]
    /\ UNCHANGED <<db, version, query, ver, total, items, low, writeVars, floor, lost>>

StoreMiscounted(r) ==
    /\ Goto(r, "store", "answered")
    /\ entries' = [entries EXCEPT ![ver[r]][query[r]] =
                      [kind |-> "page", total |-> total[r] + 1, items |-> items[r]]]
    /\ UNCHANGED <<db, version, query, ver, total, items, low, writeVars, floor, lost>>

\* set: the page is stored under the version of the lookup; an error is logged.
StoreEntry(r) ==
    /\ Goto(r, "store", "answered")
    /\ \/ entries' = [entries EXCEPT ![ver[r]][query[r]] =
                         [kind |-> "page", total |-> total[r], items |-> items[r]]]
       \/ UNCHANGED entries
    /\ UNCHANGED <<db, version, query, ver, total, items, low, writeVars, floor, lost>>

\* The request is over and forgotten: answered, or dead before it was.
EndList(r, from) ==
    /\ \E p \in from : Goto(r, p, "idle")
    /\ ver' = [ver EXCEPT ![r] = NoVersion]
    /\ total' = [total EXCEPT ![r] = 0]
    /\ items' = [items EXCEPT ![r] = 0]
    /\ low' = [low EXCEPT ![r] = 0]
    /\ UNCHANGED <<db, version, entries, query, writeVars, floor, lost>>

FinishList(r) == EndList(r, {"answered"})
AbortList(r)  == EndList(r, {"version", "entry", "unlink", "count", "select", "store"})

-----------------------------------------------------------------------------
(* Requests that mutate the project's tasks *)

\* The service flushes its statements and registers the invalidation.
Mutate(w) ==
    /\ phase[w] = "idle"
    /\ phase' = [phase EXCEPT ![w] = "flushed"]
    /\ UNCHANGED <<db, version, entries, listVars, mine, tries, floor, lost>>

\* Mutant: the service registers no invalidation.
CommitUnannounced(w) ==
    /\ phase[w] = "flushed"
    /\ db < MaxCommits
    /\ db' = db + 1
    /\ phase' = [phase EXCEPT ![w] = "idle"]
    /\ UNCHANGED <<version, entries, listVars, mine, tries, floor, lost>>

\* get_db: the commit makes the mutation visible.
Commit(w) ==
    /\ phase[w] = "flushed"
    /\ db < MaxCommits
    /\ db' = db + 1
    /\ phase' = [phase EXCEPT ![w] = "committed"]
    /\ mine' = [mine EXCEPT ![w] = db + 1]
    /\ UNCHANGED <<version, entries, listVars, tries, floor, lost>>

\* get_db: the transaction is rolled back and the callbacks never run.
Rollback(w) ==
    /\ phase[w] = "flushed"
    /\ phase' = [phase EXCEPT ![w] = "idle"]
    /\ UNCHANGED <<db, version, entries, listVars, mine, tries, floor, lost>>

\* The mutating request is over and forgotten.
EndMutation(w) ==
    /\ phase' = [phase EXCEPT ![w] = "idle"]
    /\ mine' = [mine EXCEPT ![w] = 0]
    /\ tries' = [tries EXCEPT ![w] = 0]

\* PostCommitActions.run, invalidate_project: an INCR takes effect.  Its reply
\* arrives, or the client times out and sends the INCR again.
Invalidate(w) ==
    /\ phase[w] = "committed"
    /\ version < MaxVersion
    /\ version' = version + 1
    /\ floor' = [floor EXCEPT ![version + 1] =
          IF mine[w] > floor[version] THEN mine[w] ELSE floor[version]]
    /\ \/ EndMutation(w)
       \/ /\ tries[w] + 1 < MaxAttempts
          /\ tries' = [tries EXCEPT ![w] = tries[w] + 1]
          /\ UNCHANGED <<phase, mine>>
    /\ UNCHANGED <<db, entries, listVars, lost>>

\* The error of the last attempt is swallowed, or the process dies between the
\* commit and the callback: nothing will invalidate on this commit's behalf.
GiveUp(w) ==
    /\ phase[w] = "committed"
    /\ lost' = IF mine[w] > floor[version] THEN lost \cup {mine[w]} ELSE lost
    /\ EndMutation(w)
    /\ UNCHANGED <<db, version, entries, listVars, floor>>

\* Mutant: pages are stored without a time to live.
NeverExpires(v, q) ==
    /\ entries[v][q].kind = "expired"
    /\ entries' = [entries EXCEPT ![v][q] = NoEntry]
    /\ UNCHANGED <<db, version, listVars, writeVars, floor, lost>>

\* Redis drops a page when its time to live is over.
Expire(v, q) ==
    /\ entries[v][q].kind = "page"
    /\ entries' = [entries EXCEPT ![v][q] = NoEntry]
    /\ UNCHANGED <<db, version, listVars, writeVars, floor, lost>>

-----------------------------------------------------------------------------
Lookup(r) == ReadVersion(r) \/ Hit(r) \/ Miss(r) \/ Unlink(r)
Load(r)   == CountTasks(r) \/ SelectTasks(r) \/ StoreEntry(r)

Next == \/ \E r \in Readers, q \in Queries : StartList(r, q)
        \/ \E r \in Readers : Lookup(r) \/ Load(r)
        \/ \E r \in Readers : FinishList(r) \/ AbortList(r)
        \/ \E w \in Writers : Mutate(w) \/ Commit(w) \/ Rollback(w)
        \/ \E w \in Writers : Invalidate(w) \/ GiveUp(w)
        \/ \E v \in Versions, q \in Queries : Expire(v, q)

Spec == Init /\ [][Next]_vars

\* A request that has started runs to its end: the event loop resumes every
\* coroutine, and each Redis or database call returns or times out.  Redis
\* removes an expired key.
Fairness ==
    /\ \A r \in Readers : WF_vars(Lookup(r) \/ Load(r) \/ FinishList(r))
    /\ \A w \in Writers : WF_vars(Invalidate(w) \/ GiveUp(w))
    /\ \A v \in Versions, q \in Queries : WF_vars(Expire(v, q))

FairSpec == Spec /\ Fairness

-----------------------------------------------------------------------------
TypeOK ==
    /\ db \in Commits
    /\ version \in Versions
    /\ entries \in [Versions -> [Queries -> Entry]]
    /\ pc \in [Readers -> {"idle", "version", "entry", "unlink", "count",
                           "select", "store", "answered"}]
    /\ query \in [Readers -> Queries]
    /\ ver \in [Readers -> Versions \cup {NoVersion}]
    /\ total \in [Readers -> Commits]
    /\ items \in [Readers -> Commits]
    /\ low \in [Readers -> Commits]
    /\ phase \in [Writers -> {"idle", "flushed", "committed"}]
    /\ mine \in [Writers -> Commits]
    /\ tries \in [Writers -> 0 .. MaxAttempts]
    /\ floor \in [Versions -> Commits]
    /\ lost \subseteq Commits

\* A page kept under a version was computed after every commit that version
\* covers: set may be delayed past any number of INCRs, and still never puts a
\* page where a lookup that follows the invalidation finds it.
EntriesCoverFloor ==
    \A v \in Versions, q \in Queries :
        entries[v][q].kind = "page" =>
            /\ v <= version
            /\ floor[v] <= entries[v][q].total
            /\ entries[v][q].total <= entries[v][q].items
            /\ entries[v][q].items <= db

\* list_tasks never answers with a page older than an invalidation applied
\* before the request arrived, whether the page is a hit, was loaded after a
\* miss, or was loaded because Redis failed.
AnswerCovers(r) ==
    pc[r] = "answered" =>
        /\ low[r] <= total[r]
        /\ total[r] <= items[r]
        /\ items[r] <= db

AnswersCoverInvalidations == \A r \in Readers : AnswerCovers(r)

\* invalidate_project of this commit has yet to run or to be retried.
Pending(c) == \E w \in Writers : phase[w] = "committed" /\ mine[w] = c

\* A page that lookups can find misses a commit only while that commit's own
\* invalidation is still to be applied, or when it was lost for good.
StaleOnlyWhileUncovered ==
    \A q \in Queries : LET e == entries[version][q] IN
        e.kind = "page" =>
            \A c \in e.total + 1 .. db : c \in lost \/ Pending(c)

\* Once mutations stop, the pages that lookups can find become current and stay
\* so, even when the last invalidation was lost: the time to live repairs it.
CurrentPagesFresh ==
    \A q \in Queries : LET e == entries[version][q] IN
        e.kind = "page" => e.total = db /\ e.items = db

EventuallyFresh == <>[]CurrentPagesFresh

-----------------------------------------------------------------------------
(* The strengthening that makes these invariants inductive. *)

\* Coverage grows with the version key and never runs ahead of the commits.
FloorMonotone ==
    /\ \A v \in 0 .. version : floor[v] <= db
    /\ \A u, v \in 0 .. version : u <= v => floor[u] <= floor[v]

\* A request looks up, loads and stores under a version that covers at least
\* what was covered when it arrived, and counts after that version was current.
Ordered(r) ==
    /\ pc[r] \in {"idle", "version"} => ver[r] = NoVersion
    /\ pc[r] \in {"entry", "unlink", "store"} => ver[r] # NoVersion
    /\ ver[r] # NoVersion => ver[r] <= version /\ low[r] <= floor[ver[r]]
    /\ low[r] <= floor[version]
    /\ pc[r] \in {"select", "store"} => low[r] <= total[r] /\ total[r] <= db
    /\ pc[r] \in {"select", "store"} /\ ver[r] # NoVersion =>
          floor[ver[r]] <= total[r]
    /\ pc[r] = "store" => total[r] <= items[r] /\ items[r] <= db

ReaderOrdered == \A r \in Readers : Ordered(r)

\* A mutation waiting to invalidate has committed.
WriterCommitted ==
    \A w \in Writers : phase[w] = "committed" => mine[w] \in 1 .. db

\* Every commit is covered, or lost, or still has a request working for it.
CommitsAccounted ==
    \A c \in 1 .. db : c <= floor[version] \/ c \in lost \/ Pending(c)

\* The inductive invariant, which the four invariants above follow from.
IInv == /\ TypeOK
        /\ FloorMonotone
        /\ EntriesCoverFloor
        /\ ReaderOrdered
        /\ AnswersCoverInvalidations
        /\ WriterCommitted
        /\ CommitsAccounted

-----------------------------------------------------------------------------
Request(r) ==
    LET answered == pc[r] = "answered" IN
    [state |-> IF pc[r] = "idle" THEN "idle"
               ELSE IF answered THEN "answered" ELSE "open",
     low   |-> low[r],
     total |-> IF answered THEN total[r] ELSE 0,
     items |-> IF answered THEN items[r] ELSE 0]

Contract == INSTANCE TaskListContract
              WITH covered <- floor[version],
                   request <- [r \in Readers |-> Request(r)]

\* The cached, concurrent list endpoint behaves as the contract says.
ImplementsContract == Contract!Spec
=============================================================================
