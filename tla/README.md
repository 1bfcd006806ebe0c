# Task Hub API: a TLA+ verification project

Task Hub is a FastAPI service: routers call services, services call
repositories, and one request is one PostgreSQL transaction opened by `get_db`
and followed by the post-commit callbacks the services registered. Redis caches
the pages of the task list. This directory holds models of the parts where
requests, transactions, Redis and the event loop interleave, TLC runs of small
instances, and TLAPS proofs for instances of any size.

Source paths are relative to the repository; line numbers are in
`PROJECT.json`, which maps every definition to the code it models.

## Inventory

| Part | State | Operations | Interacts with | What is hard | What makes it correct |
|---|---|---|---|---|---|
| Task-list cache (`app/cache/task_list_cache.py`) | a version key per project, a page per version and fingerprint, a time to live | `get`, `set`, `invalidate_project` | list requests, post-commit callbacks, Redis | loads in flight across invalidations, Redis errors, lost and repeated INCRs | an answer is never older than an invalidation applied before its request; staleness only where an invalidation is missing, and not for ever |
| Task listing (`task_service.list_tasks`, `task_repository.py`) | none of its own | access check, lookup, count, select, store | cache, database | two snapshots, torn pages, a page cached late | same; a walk through the pages shows every task once |
| Transactions and post-commit actions (`app/db/session.py`, `app/db/post_commit.py`) | the transaction, the callback list | commit, rollback, run callbacks | every service | the response leaves before the commit; the process may die between commit and callbacks; one callback fails | callbacks only after a commit, all of them, each at most once |
| Authentication (`auth_service.py`, `refresh_session_repository.py`) | `refresh_sessions` rows, row locks | register, login, refresh, logout | users, cookies | refresh against refresh, logout against refresh, replays, deactivation, two registrations | one live session per login, linear rotation, revocation for good, unique addresses |
| Tasks and assignment (`task_service.py`, `base_repository.py`) | tasks, copies of them in ORM sessions | create, update, delete | cache, members, notifier | updates computed from stale copies, membership revoked meanwhile | notices go to the assignee, assignees are members |
| Dispatcher and mail (`core/background.py`, `notifications/gmail.py`, `main.py`) | running tasks, accepting flag, SMTP threads | submit, run, shutdown | post-commit callbacks, lifespan | submission during shutdown, cancellation of a thread in flight | nothing runs after shutdown, nothing runs twice |
| Workspaces and members | workspaces, members, roles | create, add, remove | access checks of every service | check and use in different statements, unique constraint, a removal that waits | one membership per user; a removal takes the membership it found |
| Projects | projects, archived flag | create, list | access checks | - | nothing archives one, see below |
| Labels (`label_service.py`, `task_label_service.py`, migration `5a9ec52dd048`) | labels, task-label pairs, triggers | create, update, delete, assign, remove | tasks, cache | name races, project mismatch races | unique names, label and task in one project |
| Comments (`comment_service.py`) | comments | add, delete | access checks, deletion of tasks | an insert while the task is deleted, a member removed meanwhile | only the author deletes, no comment outlives its task |
| Redis client (`session.py: init_redis`) | one client, a lock | init, close | lifespan, dependency | concurrent initialisation that fails | one client, the failed one closed |
| Users, wiring, errors, configuration | a user row; none | - | - | - | not modelled, see below |

## Modules

| Module | Models |
|---|---|
| `TaskListContract` | what the list endpoint promises about the age of a page, without Redis |
| `TaskListCache` | the cache protocol: list requests, mutating requests, Redis |
| `TaskListCacheProofs` | its inductive invariant, the safety theorems and the refinement, for TLAPS |
| `MCTaskListCache` | TLC instances (two configurations) |
| `TaskPaging` | a walk through the pages of a list that changes |
| `TaskPagingProofs` | ranks in a list, the inductive invariant of a walk and its exactness, for TLAPS |
| `MCTaskPaging` | a TLC instance |
| `LoginSessions` | what token rotation promises: one token at a time serves a login |
| `RefreshSessions` | register, login, refresh and logout as overlapping transactions with row locks |
| `RefreshSessionsProofs` | its inductive invariant, the theorems on it and the refinement of `LoginSessions`, for TLAPS |
| `MCRefreshSessions` | TLC instances (two configurations) |
| `TaskAssignment` | one task: overlapping creates, updates and deletes, notices, members |
| `TaskAssignmentProofs` | its inductive invariant and the theorems on its safety properties, for TLAPS |
| `MCTaskAssignment` | TLC instances (two configurations) |
| `TaskLabels` | labels on tasks: assign, remove, delete, the triggers, and deadlocks |
| `TaskLabelsProofs` | its inductive invariant and the theorems on it, for TLAPS |
| `MCTaskLabels` | TLC instances (two configurations) |
| `NameTable` | what labels promise about their names |
| `LabelNames` | create, rename and delete labels as overlapping transactions, the unique constraint |
| `LabelNamesProofs` | its inductive invariant, the theorems on it and the refinement of `NameTable`, for TLAPS |
| `MCLabelNames` | a TLC instance |
| `BackgroundDispatcher` | the tasks that send notices, the SMTP threads, the shutdown |
| `Application` | the requests, the Redis client and the lifespan around the dispatcher |
| `ApplicationProofs` | for TLAPS: the inductive invariant of the dispatcher and what holds when its shutdown returns; what of it holds in the application, and its invariant |
| `MCApplication` | a TLC instance |
| `WorkspaceMembers` | add and remove members as overlapping transactions, the unique membership |
| `Comments` | comments on tasks while members change and tasks are deleted |
| `CommentsProofs` | the inductive invariant of both and the theorems on it, for TLAPS |
| `MCComments` | a TLC instance of both |

The modules meet at the commit. `TaskAssignment` ends a request with its commit
and its notice, `TaskLabels` one that assigns or removes a label: what the
commit does to the task list is `TaskListCache`, what becomes of the notice is
`Application`, which extends `BackgroundDispatcher` and has the requests submit
to it. `Comments` extends `WorkspaceMembers`: its access checks read the
memberships that the other writes. Roles are checked in `TaskAssignment` only; in
`TaskLabels` and `LabelNames` a caller who is refused is an `Abort`, and in
`Comments` every member may delete a task.

### The task-list cache

`list_tasks` checks access, asks the cache, and on a miss counts and selects in
two statements and stores the page. `invalidate_project` increments the version
key of the project; it runs as a post-commit callback of every request that
creates, updates, deletes, labels or unlabels a task. The model has one step per
Redis command and per SQL statement, because each is an `await`:

- `StartList`, `ReadVersion`, `Hit`, `Miss`, `Unlink`, `CountTasks`,
  `SelectTasks`, `StoreEntry`, `FinishList` and `AbortList` for a list request.
  A Redis error in the lookup makes it `None` (`NoVersion`), and then nothing is
  stored; an error of `set` or `unlink` is swallowed.
- `Mutate`, `Commit`, `Rollback`, `Invalidate` and `GiveUp` for a mutating
  request. The Redis client is created with `retry_on_timeout`, so `Invalidate`
  may take effect several times; `GiveUp` is the error that
  `invalidate_project` swallows, and the death of the process between the commit
  and the callback.
- `Expire` for the time to live that `set` gives every page.

Data is abstracted to its age. `db` counts the commits, a page records the
commits its `total` and its `items` were computed from, a query is a distinct
value. `floor`, `low` and `lost` are history variables: what each version
covered when it was reached, what was covered when a request arrived, and the
commits whose invalidation never took effect.

`TaskListContract` has three variables. Its only rule is that an answer lies
between what was covered when the request arrived and what has been committed,
and that the items are no older than the total. `ImplementsContract` maps
`covered` to `floor[version]` and forgets everything about Redis.

What the properties say:

- `EntriesCoverFloor`: a page kept under version `v` was computed after every
  commit that `v` covers. It rests on the version being read before the
  database, on `set` using that version, and on the INCR following the commit.
- `AnswersCoverInvalidations`: the consequence a client sees.
- `StaleOnlyWhileUncovered`: a page that can be found misses a commit only while
  that commit's own invalidation is to come, or was lost.
- `EventuallyFresh`: staleness by a lost invalidation ends with the time to live.

No property says that a client reads its own writes. It would be false: the
dependency that commits is unwound after the response was sent, so the client
may list again before the commit, or before the INCR.

### The pages of the list

`TaskPaging` is one client that asks for page after page until `total_pages`.
`CountTasks` and `SelectTasks` are the two statements of `list_by_project`;
`Join` and `Leave` are commits of other requests between any two of them, by
creation, deletion or an update that makes a task match the filters or not. The
database may return rows in any order that ORDER BY allows (`Listings`), and each
page is cut from an order of its own (`Offset`, `Items`).

`EveryTaskOnce` says what a walk is worth: a task that was listed all along is
seen once, except that each task that leaves, or that joins between the last
count and its rows, may hide one, and each that joins may show one twice. That is
what OFFSET gives; the property fails without the id as second sort key, with an
offset that is off by one, and with page numbers rounded down.

### Registration and refresh sessions

A request of one user is a registration, a login, a refresh or a logout. A
registration looks for the address (`StartRegister`), inserts the user
(`InsertUser`, which waits for a transaction that has inserted the same address
and has not ended) or is refused by the unique constraint (`RefuseAddress`), and
then logs in: the user and the session are one commit. `LockForRefresh` and
`LockForLogout` are `SELECT ... FOR UPDATE`: they wait for the holder of the row
lock and then see the row as it was last committed. `CheckUser` reads the user
without a lock. `Create` issues the token, `Respond` sends it, and only then the
`Commit...` action of the request writes the rows and releases the lock, which
is the order in which FastAPI unwinds the dependency. `Abort` stands for a
failing statement or commit and for the death of the process, at any point.
Every token a response carried may be presented again by anybody, so replays and
tokens whose row was never committed are included. `Deactivate` and the passing
of time (`Expire`) are the environment.

`UniqueAddress` says that one user, at most, has registered the address of the
model. `DeactivationEndsLogins` says that a deactivation ends each login within one
rotation, the one whose request had read the user before.

`LoginSessions` is the abstract view: a login is served by one token, moves to a
fresh one, and never reopens. `ImplementsLogins` maps the serving token to the
row of the login that is not revoked.

`logout_loses` is a run that TLC must find violated. A test says that logging
out revokes the current session. When a refresh of the same token is ahead in
the queue for the row lock, the logout finds the row revoked and does nothing,
and the replacement session stays live.

### One task and its requests

`TaskAssignment` follows a request of `task_service.py` statement by statement.
`Load` puts a copy of the row into the session (`loaded`). `Admit` or `Deny`
read the role, `Validate` or `RefuseAssignee` the assignee. `Insert`, `Flush`
and `Erase` are the flushes; `Flush` and `Erase` wait for the row lock. The ORM
writes only the columns whose value in the payload differs from the copy
(`Dirty`), and without one it sends no UPDATE and takes no lock. `Refresh`
reads the row again; the notice is registered when the assignee it reads
differs from the copy. The commit applies the columns to the row as it then is
(`Written`: READ COMMITTED, PostgreSQL re-reads the row it has waited for).
`FlushFails`, `RefreshFails`, `Abort` and the refusals roll back. `Erase` takes
a row that is already gone: `repo.delete` finds the task in its session, and
SQLAlchemy only warns of a DELETE that matched nothing. `AddMember` and
`RemoveMember` change the roles in between; nothing locks them.

The columns are the assignee and a title that stands for all the others, which
the code treats alike. Payloads are functions from some columns to values. The
history variable `lapsed` records the users removed after a request had checked
their access (`Vetted`).

What the properties say:

- `WritesWereAllowed`: what a request checked still holds at its commit. A removal
  that committed before the check counts, whenever the request began; one that
  committed after it is excused. That exception is the code's: nothing locks the
  membership, so a member removed between the check and the commit gets the task
  all the same, and no line of the repository says otherwise.
- `AssignmentsAnnounced`: every commit that changes the assignee notifies the
  new one. It is not obvious, because the decision compares a re-read row with a
  stale copy: it holds because the row lock keeps what `Refresh` reads the same
  up to the commit, and because a column equal to the copy is not written.
- `UpdatesKeepTheRest`: overlapping updates of different columns are both kept.
- `DeletionIsFinal`: no update that loaded the task before brings it back.

`notice_misleads` must be found violated: an update that sets the assignee its
copy already has writes nothing. If the task was unassigned meanwhile, the
re-read assignee differs from the copy and the user gets a mail about a task
that is not his.

Two overlapping deletes are both answered 204: the second finds the task in its
session. `delete_task` has a branch for a task that is gone by then; the model
has no action for it, since no step reaches it.

### Labels on tasks

`TaskLabels` follows a transaction that assigns a label (`Find`, `FindLabel`,
`LockTask`, `LockLabel`, `Insert`), removes one (`Find`, `FindLabel`, `Remove`)
or deletes a label or a task (`Find`, `Select`, `ErasePair`, `EraseRow`,
`Cascade`). `LockTask` and `LockLabel` are the two SELECT ... FOR SHARE of the
trigger on `task_labels`, which runs before ON CONFLICT looks for the pair.
A deletion goes by the order of the ORM: it loads the pairs of the row
(`Select`), deletes them one by one, then the row, and the foreign key deletes
the pairs that came meanwhile. `StartMove`, `LockRow`, `MoveAllowed` and
`MoveRefused` are an UPDATE of `project_id` with the triggers that guard it. No
operation of the API makes one; the migration guards against it, and so the
model has it.

Locks are not variables: what a transaction holds follows from where it is
(`Shares`, `Owns`, `added`, `erased`). A statement sees what is committed. `Waits`
says whom a statement waits for, and `Detect` aborts one of a set of transactions
that wait for each other, two or more of them; without it the model would stop.

- `SameProject`: a task and its labels exist and are of one project. The check in
  the service cannot give that, because it ends long before the commit: the
  share locks of the trigger keep what was compared, and an owner of the row
  sees every pair.
- `RequestsEnd`: no request waits for ever, deadlocks included. With more than two
  transactions there is an exception, which is PostgreSQL's: share locks are
  granted past a waiting deletion, so a deletion or a move may starve behind a
  stream of assignments that overlap, and only behind one. The property states
  it; the run has two transactions, where it plays no part.

`Dangling` is an assignment whose label or task was deleted after the service
found it: the foreign key refuses the insert, and the request fails with 500, where
a missing label is otherwise answered 404.

`assign_deadlocks` must be found violated: an assignment of a pair that exists waits
for a deletion that has already deleted the pair, while holding the share lock the
deletion needs next. One of the two fails.

### The names of labels

`LabelNames` follows a transaction that creates a label (`NameFree` or
`NameTaken`, `Insert`, `TakeKey`), updates one (`Find`, `NameFree` or `NameTaken`,
`SetColumns`, `WriteRow`, `TakeKey`) or deletes one (`Find`, `Erase`). The service
looks for the name, and the unique constraint decides: `TakeKey` is the flush that
puts the key into the index, after waiting for transactions that have put it there
or hold the row that has it, and `DuplicateKey` the violation that the service
turns into the error of `NameTaken`. The ORM writes the columns that differ from
what it loaded (`Dirty`), so an update of the color, or to the name as loaded, does
not touch the key. `RowLost` and `RefreshFails` are an update whose label was
deleted.

- `UniqueNames`: no two labels of a project have one name, committed names being
  what everybody else sees.
- `RenamesAreMeant`: a label changes only as the request that commits means it to.
  A client that changes the color may send the name it knows along; if the label was
  renamed since its update loaded it, the old name is not written back.
- `ConflictHasName`: the assertion in `update_label` holds. It would not if the ORM
  wrote whole rows, because the name as loaded may have been taken since.
- `ImplementsTable`: each commit is one creation, renaming or deletion of
  `NameTable`. A label that was deleted does not come back.

Two requests that swap the names of two labels wait for each other; this takes a
third one that has moved the names between the checks and the writes. PostgreSQL
aborts one (`Detect`), which is answered 500.

### The dispatcher and its shutdown

A notice becomes a task in `_tasks` (`Submit`). The task creates a second one
for the send (`Begin`), which queues a blocking conversation for a thread of
the default executor (`Enqueue`, `Converse`, `EndConversation`: asyncio and the
thread pool, modelled from their use). `Resume` is the end of the task;
`SeeCancel` and `Drain` are the `except CancelledError` of the notifier, which
waits for the shielded send before it lets the cancellation through. `Discard`
is the done callback. `Shutdown`, `GraceSuffices`, `GraceEnds`, `Drained` and
`Stop` are `shutdown` and the end of the lifespan; `Refuse` is the RuntimeError
of `submit`, which `PostCommitActions.run` logs. The grace period ends at any
moment, except that the tasks it cancels have begun: they were created before
the timer was, and the loop runs what is ready first.

- `QuietAfterShutdown`: when `shutdown` returns, no task runs and no thread is
  talking to the server, though a thread cannot be cancelled.
- `AcceptedAreTried`: the cancellation never costs a mail that was accepted,
  not even one still queued for a thread.
- `ShutdownEnds`: the second wait of `shutdown` has no timeout, so it ends only
  because the SMTP operations have one.

A process that is killed loses its notices: they are kept in memory only, and
nothing here says otherwise.

### The application around it

`Application` adds the requests. `Arrive` finds the Redis client or goes to
`init_redis` (`Connect`, `Pinged`, `PingFails` under `redis_init_lock`); `Work`
registers the invalidation and perhaps the notice; `Commit` or `Fail` is `get_db`;
`Invalidate`, `Dispatch` and `Finish` are `PostCommitActions.run`. `Close` and
`CloseRedis` are the lifespan, which the instance also runs without, as the tests
do: then the first requests open the client. Requests may still be running while
the dispatcher shuts down, since `submit` is written to refuse them; after the
lifespan the process ends, and what a request has left is not done.

- `OneClient`: however many requests find no client at a time, and however many
  pings fail, one pool is open, the shared one or the one being tried.
- `NoticesAreCommitted`: no mail about a change that was rolled back.
- `CommittedAreMailed`: a committed notice is tried, even if the callback before
  it failed, unless the shutdown came first.
- `NoticesHandedOver`: on the way there it is never lost. It is among the actions of
  its request until the dispatcher has it, and is refused only by a shutdown.

Each step is one of the dispatcher or leaves its variables alone, so the properties
of `BackgroundDispatcher` are checked here.

### Members and comments

`WorkspaceMembers` has one transaction per request of the owner: `StartAdd` and
`StartRemove` are the checks, `Insert`, `Duplicate` and `Erase` the flushes, which
wait for whoever has written the same key (`KeyFree`) or row. A membership is a
row with an id, so a user who is removed and added again has another one.

- `OneMembership`: a user is a member once. Two rows would make every later
  `scalar_one_or_none` of an access check raise.
- `RemovalIsExact`: a removal takes the row it loaded. A user who is added again
  while a second removal waits stays a member.

`Comments` has a transaction that adds a comment (`Admit`, `InsertComment`),
deletes one (`Admit`, `EraseComment`) or deletes the task (`LoadComments`,
`EraseComments`, `EraseTask`, by the order of the ORM). The foreign key makes an
insert wait for a deletion of its task and fail after it (`ForeignKeyFails`,
answered 500), and a deletion wait for inserts, which the cascade then takes.

- `CommentsWereAllowed`: a comment is written and deleted by its author, who is a
  member at the commit or was removed after he was let in, or goes with its task.
- `NoOrphans`: no comment outlives its task.

Two deletions of one comment are both answered 204, as with tasks: the second
finds the object in its session.

## Runs

| Run | Instance | Shows |
|---|---|---|
| `cache_interleavings` | 2 list requests, 2 mutating requests, 1 query, 2 commits, 1 INCR each | all interleavings around one response key |
| `cache_heals` | 1 list request, 2 mutating requests, 1 query, 2 commits, 2 INCRs each | versions that jump; `EventuallyFresh` under fairness |
| `sessions` | 2 requests at a time, 3 tokens | a registration and a login with two rotations, or two logins, with every overlap of two requests |
| `logout_loses` | 2 requests, 2 tokens | the finding above |
| `assignment` | 2 requests, 3 users (1 inactive), 2 titles, 5 payloads | overlaps of any two of create, update and delete, with members added and removed |
| `notice_misleads` | 2 requests, 2 users, 3 payloads | the finding above |
| `labels` | 2 transactions, 2 tasks, 1 label, 2 projects | `SameProject` while anything is assigned, deleted and moved; `RequestsEnd` under fairness |
| `assign_deadlocks` | 2 transactions, 1 task, 1 label | the finding above |
| `label_names` | 3 transactions, 2 labels, 3 names | names under every overlap, a swap that deadlocks included |
| `application` | 3 requests, 2 threads, with and without a lifespan | opening the client; a shutdown at any moment; a send that waits for a thread; `ShutdownEnds` and `CommittedAreMailed` under fairness |
| `members` | 2 requests of the owner, 2 users, 2 memberships, 2 writers, 1 task, 2 comments | both memberships of one user or one of each; a comment inserted and deleted under a deletion of its task |
| `paging` | 4 tasks, 2 times of creation, pages of 1 to 3, 3 commits | up to four pages, full and partial, with ties on either side of an edge |

Bounds. Requests are processes that start over, so two of them give sequences of
any length of pairwise overlaps. Two commits are the least for which an older
and a newer invalidation can be confused, and two INCRs the least for which a
retry skips a version. Three tokens give a chain of two rotations. `MaxCommits`,
`MaxAttempts`, `MaxTokens` and `MaxChanges` are the only bounds on the behaviour;
`MaxVersion` is as large as they allow. A task is written by two overlapping
requests in any order and any number of times; three users give the owner, a
member who comes and goes, and an account nothing may be assigned to. Two
transactions on labels are any two of an assignment, a removal, a deletion and a
move; a second task lets a label have two pairs, and a second project makes a move
matter. The proof of `SameProject` has no such limit. Three transactions on names are two that swap and one that has set the stage; two
labels and three names are the least for that. Labels run out after two creations,
and the run starts from every table, so each overlap of creations is met. Three
notices over fewer threads leave one in the queue while the others are sent and
cancelled; three requests are one that pings, one that waits for the lock and one
that comes later. Two memberships are the least for which one user may have two.
Ids of memberships and comments are used up in the end, and each is met fresh from
the initial state. `MaxChanges` lets a walk be disturbed before, between and after
its pages; four tasks give four pages of one or an uneven last page. The proofs have none of these limits.

Fairness. A started request is resumed by the event loop and each of its calls
returns or times out (weak fairness on its steps, not on its start and not on
failures). Redis expires keys (weak fairness on `Expire`). PostgreSQL queues the
waiters of a row lock, so a request that can take it again and again does
(strong fairness on taking the lock, and in
`TaskLabels` on the steps of a transaction), and detects deadlocks (weak
fairness on `Detect`). The event loop runs what is ready, threads
take what is queued and SMTP operations time out (weak fairness on `Loop` and
`Thread`), and the timer of the grace period fires (weak fairness on `Draining`
and `CloseRedis`). A request that has
committed runs its callbacks, since an INCR has a timeout (weak fairness on
`RunCallbacks`). Nothing makes a request arrive or finish its work, and nothing
makes the application shut down.

Deadlock is checked for the cache. It is not for the sessions, where a
deactivated user with no token can do nothing more. It is checked for tasks,
labels and their names. It is not for the application, which has stopped or served
its requests at the end, for members and comments, whose ids are used up, nor for
a walk that is over.

## Proofs

`TaskListCacheProofs` proves, for any finite or infinite sets of requests and
queries and any `MaxCommits` and `MaxAttempts` (assumption `CacheBounds`):

- `Invariance`: `IInv` is inductive. `EntriesCoverFloor` alone is not: storing a
  page needs to know that the request counted after its version was current
  (`Ordered`), a hit needs coverage to grow with the version
  (`FloorMonotone`), an INCR needs the mutation to have committed
  (`WriterCommitted`), and accounting for staleness needs each commit to be
  covered, lost or pending (`CommitsAccounted`).
- `TypeCorrectness`, `CacheCoherence`, `AnswersAreCovered` and
  `StalenessIsAccounted` follow from it.
- `Refinement`: every step is a step of `TaskListContract` or leaves its
  variables alone.

The proof goes by one lemma per action: what the action does to the request that
takes it, and one lemma for all the others (`OthersOrdered`).

`TaskAssignmentProofs` proves, for any sets of requests, accounts and titles and
any payloads that name a column and give it a value (assumptions `Accounts` and
`Payloads`):

- `Invariance`: `IInv` is inductive. Its heart is `RowLock`: the lock is held by
  exactly the request that has written the row and not committed, and while it
  is held the row is there. From it follow that what `Refresh` compared is what
  is committed (`Noticed`), and that nobody writes a row that is gone.
- `AllowedWrites`, `NoLostUpdate`, `NoSilentAssignment` and `DeletedForGood`
  state the four properties of the run, the last three as action properties.

The proof splits the steps of a request into those that work and those that
close it; `StepStays` says that they change no other request.

`TaskLabelsProofs` proves `OneProject` for any sets of transactions, tasks, labels
and projects (assumption `Tables`: tasks and labels are different rows).
`SameProject` is not inductive, since an assignment inserts long after it has
compared. `IInv` adds that a row that is owned is owned and shared by no one else
(`Exclusive`), that what was compared is still so (`Compared`), and that a row
about to be moved or deleted has no pair that stays behind (`Detached`). The lemmas
say what a step does to the locks (`Acquires`), that a locked row is left alone
(`LockedStays`), and that it gains no pair (`PairsKept`).

`ApplicationProofs` begins with the dispatcher: it proves `Quiescence` and
`NothingDropped` for any set of notices and any number of threads. `IInv` adds that every running task is in
`_tasks`, that the shutdown has taken over all of them (`Tracked`), and that a
task is over only when its send is (`Sends`).

`AppQuiescence` and `AppNothingDropped` carry the two theorems over to the
application, by the lemma `AppRefinement`: every step of the application is a step of
the dispatcher or leaves it alone. `AppIInv` adds who holds `redis_init_lock` (`LockHeld`)
and what the pending actions of a request stand for (`ActionsOwed`); from it follow
`AppOneClient` and `AppNoticesAreCommitted`, for any number of requests.
`AppHandsOver` proves `NoticesHandedOver`, the safety half of `CommittedAreMailed`, by
what a request has registered at each step (`Progress`). With `AppNothingDropped`, a
committed notice is tried or refused by a shutdown if its request gets to run its
actions.

`CommentsProofs` proves all five properties of the run `members`, for any requests,
users, memberships, tasks and comments (assumptions `RowStates` and
`CommentStates`: the marks of an unused and of a deleted row are no ids).
`OneMembership` needs that requests past an insert have distinct users without a
row, and distinct rows (`AddsExclusive`); `RemovalIsExact` that a removal's row is
none of those committed since it looked (`RemovalsLoaded`); `NoOrphans` that nobody
is deleting a task while a comment on it is being inserted (`InsertsHold`);
`CommentsWereAllowed` what the access check has found (`Entitled`, `ErasesLoaded`).

`RefreshSessionsProofs` proves every invariant of the run `sessions`, and
`ImplementsLogins`, for any set of requests and any `MaxTokens` (assumption
`SessionBounds`).

- `OneLivePerLogin` is not inductive: two refreshes that have each found the same
  row live would both store a replacement. `IInv` adds that a refresh holds the lock
  of its row from `LockForRefresh` to its end, and that a locked row is live and has
  its holder at work on it (`LocksHeld`), so that the row is still live when the
  rotation is committed. The token it stores is one nobody else has created
  (`FreshTokens`), and a row that was not committed is linked to nothing
  (`RowsLinked`).
- `UniqueAddress` needs that whoever has inserted the address is alone, and that a
  login has found a user (`AddressHeld`). What is committed before a registration
  ends is all the next one waits for.
- `DeactivationEndsLogins` needs that a refresh past `CheckUser` is at work on a
  login that has stored no row since the deactivation (`LastRotation`): those that
  are past it by then hold a live row each, and nobody gets past it any more.
- `Refinement` maps the live row of a login to the token that serves it; the lemma
  `CurrentChanges` says what a change of the live rows does to the choice.

`LabelNamesProofs` proves all properties of the run `label_names`, for any requests,
labels and names (assumption `Values`: the marks of an unused and of a deleted
label are no names).

- `UniqueNames` rests on `KeysHeld`: a name that a transaction has put into the
  index is no other row's and no other transaction's. It is kept by the wait in
  `TakeKey` and, at the commit of another transaction, by what that one has put
  being another name. `RowsLocked` keeps an updated row from being deleted before
  its commit, `FreshItems` a created one from being anybody else's.
- `RenamesMeant` is an action property. Only a commit changes a name (`StepMeans`),
  and an update that writes one asks for another than it loaded (`Stages`), of a label
  that is still there because the row is locked (`CommitWrites`, `CommitMeans`).
- `ConflictsNamed` follows from what a request carries (`Stages`): a key is only waited
  for by who has asked for a name.
- `Refinement`: a commit is one step of `NameTable`, and everything else leaves the
  table alone.

`TaskPagingProofs` proves `WalkIsExact` for any finite set of tasks, any times of
creation and page sizes, and any number of changes (assumption `PagingBounds`).
`EveryTaskOnce` speaks of the end of the walk only. `IInv` counts on the way: at
most `leaves` tasks are behind the edge of the next page without having been seen,
and at most `joins` tasks are repeated or are seen and ahead of the edge again
(`Crossings`). The rank of a task is how many are listed before it. Because the
order is total (`OrderTotal`, where the id as second key is used), no two tasks have
one rank (`RankOnce`), so a task that joins or leaves moves the ranks of others by
one at most and one task at most over the edge (`RankAfterJoin`, `RankAfterLeave`);
a page is an interval of ranks whatever the order the database chose
(`RankIsPlace`, `PageIsInterval`). At the end, the pages reach as far as the last
count, and what joined after it is all they leave out (`CountedOrTorn`, `Beyond`).

Each inductive invariant was checked by TLC on the instance of its run before it
was proved. The proof of `LabelNames` found an ambiguity in the model that TLC
could not: two guards of a CASE in `Find` overlapped for deletions, where TLC takes
the first and the semantics leaves the choice open. The guards are now disjoint.

Model-checked only: liveness (`EventuallyFresh`, `RequestsEnd`, `ShutdownEnds` and
`CommittedAreMailed`), since the prover has neither ENABLED nor fairness. The three runs that end in a violation are
counterexamples and have nothing to prove. Every other property of a run is stated
by a theorem.

## Plan

1. What the proofs share could be stated once: a lemma about row locks that
   `RefreshSessions`, `TaskAssignment` and `LabelNames` cite, each with its own
   way of saying who holds a row.
2. For `TaskLabels`, that a transaction which can take no step waits for another one
   (`Waits`), so that `Detect` is there whenever all of them are stuck: the safety
   half of `RequestsEnd`.

## Not modelled

- The durability of Redis: a restart that loses the last writes.
- The cookie jar of a browser; the access token, which is only a signed claim.
- Password hashing, token encoding, message texts, logging, configuration and
  the validation of payloads: data without control.
- The profile update, a single UPDATE of the caller's own row, and with it the
  password: nothing relates it to the refresh sessions.
- The creation of workspaces and projects: one insert under a fresh id.
- Archived projects: no operation archives one, so the checks of
  `project.status` see what they saw before.
- The cancellation of a request: nothing in the repository cancels one.
- The deactivation of a user while he works on a task: no operation does it.
