----------------------------- MODULE TaskLabels -----------------------------
(***************************************************************************)
(* Labels on tasks, in PostgreSQL: requests that assign a label to a task, *)
(* remove it, and delete the label or the task, as transactions that       *)
(* overlap, together with the triggers that keep a task and its labels in  *)
(* one project, and the moves those triggers are there for.                *)
(*                                                                         *)
(* A statement sees what is committed when it runs and what its own        *)
(* transaction wrote.  It waits for a row that another transaction has     *)
(* written or locked, and for a key that another has inserted or deleted.  *)
(* Rows are locked in share mode by the trigger on task_labels.            *)
(*                                                                         *)
(* Who may do this, and what the commit does to the task list, is in       *)
(* TaskAssignment and TaskListCache.                                       *)
(***************************************************************************)
CONSTANTS Requests,    \* transactions
          Tasks, Labels,
          Projects,
          None         \* no row, no project: deleted, or not chosen yet

Items == Tasks \cup Labels
Pairs == Tasks \X Labels

\* Tasks and labels are rows of different tables.
ASSUME Tables == /\ Tasks \cap Labels = {}
                 /\ None \notin Projects /\ None \notin Items

VARIABLES home,        \* project_id of each task and label, None when deleted
          pairs,       \* the rows of task_labels
          pc, op,      \* where a transaction is, and what it does
          item,        \* the task of a pair, or the row to delete or move
          label,       \* the label of a pair
          project,     \* task.project_id as loaded, or the project to move to
          seen,        \* pairs that the ORM has loaded and has yet to delete
          added,       \* pairs inserted and not committed
          erased       \* pairs deleted and not committed

tables == <<home, pairs>>
locals == <<item, label, project, seen>>
writes == <<added, erased>>
vars   == <<tables, pc, op, locals, writes>>

\* Tasks and labels there are belong to some projects; no label is assigned.
Init == /\ home \in [Items -> Projects]
        /\ pairs = {}
        /\ pc = [r \in Requests |-> "idle"]
        /\ op = [r \in Requests |-> "none"]
        /\ item = [r \in Requests |-> None]
        /\ label = [r \in Requests |-> None]
        /\ project = [r \in Requests |-> None]
        /\ seen = [r \in Requests |-> {}]
        /\ added = [r \in Requests |-> {}]
        /\ erased = [r \in Requests |-> {}]

Goto(r, from, to) == pc[r] = from /\ pc' = [pc EXCEPT ![r] = to]

Pair(r) == <<item[r], label[r]>>

\* The pairs that a row is part of.
With(x) == {p \in pairs : x \in {p[1], p[2]}}

-----------------------------------------------------------------------------
(* Locks, which a transaction holds until it ends.                         *)

\* FOR SHARE, by the trigger on task_labels.
Shares(r) == IF op[r] # "assign" THEN {}
             ELSE IF pc[r] = "label lock" THEN {item[r]}
             ELSE IF pc[r] \in {"insert", "commit"} THEN {item[r], label[r]}
             ELSE {}

\* The row that a transaction deletes or updates.
Owns(r) == IF op[r] \in {"delete", "move"} /\ pc[r] \in {"cascade", "check", "commit"}
           THEN {item[r]} ELSE {}

Others(r) == Requests \ {r}

\* A statement does not wait for a row that is gone.
Readable(r, x) == home[x] # None => \A q \in Others(r) : x \notin Owns(q)
Writable(r, x) == home[x] # None => \A q \in Others(r) : x \notin Owns(q) \cup Shares(q)

\* A pair is locked by whoever deletes it; its key is taken by whoever inserts it.
Erasable(r, p)   == \A q \in Others(r) : p \notin erased[q]
Insertable(r, p) == \A q \in Others(r) : p \notin erased[q] \cup added[q]

-----------------------------------------------------------------------------
End(r) ==
    /\ pc' = [pc EXCEPT ![r] = "idle"]
    /\ op' = [op EXCEPT ![r] = "none"]
    /\ item' = [item EXCEPT ![r] = None]
    /\ label' = [label EXCEPT ![r] = None]
    /\ project' = [project EXCEPT ![r] = None]
    /\ seen' = [seen EXCEPT ![r] = {}]
    /\ added' = [added EXCEPT ![r] = {}]
    /\ erased' = [erased EXCEPT ![r] = {}]

\* get_db: the transaction is rolled back.
Fail(r) == End(r) /\ UNCHANGED tables

\* PUT and DELETE /tasks/{id}/labels/{id}.
StartPair(r, kind, t, l) ==
    /\ Goto(r, "idle", "find")
    /\ op' = [op EXCEPT ![r] = kind]
    /\ item' = [item EXCEPT ![r] = t]
    /\ label' = [label EXCEPT ![r] = l]
    /\ UNCHANGED <<tables, project, seen, writes>>

\* DELETE /labels/{id} and /tasks/{id}.
StartDelete(r, x) ==
    /\ Goto(r, "idle", "find")
    /\ op' = [op EXCEPT ![r] = "delete"]
    /\ item' = [item EXCEPT ![r] = x]
    /\ UNCHANGED <<tables, label, project, seen, writes>>

\* An UPDATE of project_id, which no operation of the API makes.
StartMove(r, x, p) ==
    /\ Goto(r, "idle", "row")
    /\ op' = [op EXCEPT ![r] = "move"]
    /\ item' = [item EXCEPT ![r] = x]
    /\ project' = [project EXCEPT ![r] = p]
    /\ UNCHANGED <<tables, label, seen, writes>>

\* Mutant: a row that is gone is not noticed.
FindAnyway(r) ==
    /\ Goto(r, "find", IF op[r] = "delete" THEN "select" ELSE "find label")
    /\ project' = [project EXCEPT ![r] = home[item[r]]]
    /\ UNCHANGED <<tables, op, item, label, seen, writes>>

\* _get_task_access and _get_label_access: the row is loaded.
Find(r) ==
    /\ Goto(r, "find", IF op[r] = "delete" THEN "select" ELSE "find label")
    /\ home[item[r]] # None
    /\ project' = [project EXCEPT ![r] = home[item[r]]]
    /\ UNCHANGED <<tables, op, item, label, seen, writes>>

NotFound(r) == pc[r] = "find" /\ home[item[r]] = None /\ Fail(r)

\* _validate_assignment: the label is there and of the project of the task.
FindLabel(r) ==
    /\ Goto(r, "find label", IF op[r] = "assign" THEN "task lock" ELSE "remove")
    /\ home[label[r]] = project[r]
    /\ UNCHANGED <<tables, op, locals, writes>>

RefuseLabel(r) == pc[r] = "find label" /\ home[label[r]] # project[r] /\ Fail(r)

-----------------------------------------------------------------------------
(* assign_label: INSERT ... ON CONFLICT DO NOTHING, and its trigger.       *)

\* SELECT ... FROM tasks ... FOR SHARE.
LockTask(r) ==
    /\ Goto(r, "task lock", "label lock")
    /\ Readable(r, item[r])
    /\ UNCHANGED <<tables, op, locals, writes>>

\* Mutant: the label is read without a lock.
LookAtLabel(r) ==
    /\ Goto(r, "label lock", "insert")
    /\ home[label[r]] = home[item[r]] \/ None \in {home[label[r]], home[item[r]]}
    /\ UNCHANGED <<tables, op, locals, writes>>

\* SELECT ... FROM labels ... FOR SHARE: a row that is gone is not compared.
LockLabel(r) ==
    /\ Goto(r, "label lock", "insert")
    /\ Readable(r, label[r])
    /\ home[label[r]] = home[item[r]] \/ None \in {home[label[r]], home[item[r]]}
    /\ UNCHANGED <<tables, op, locals, writes>>

\* taskhub_check_task_label_project raises.
Mismatch(r) ==
    /\ pc[r] = "label lock" /\ Readable(r, label[r])
    /\ home[label[r]] # home[item[r]] /\ None \notin {home[label[r]], home[item[r]]}
    /\ Fail(r)

\* The pair is inserted unless it is there.
Insert(r) ==
    /\ Goto(r, "insert", "commit")
    /\ Insertable(r, Pair(r))
    /\ None \notin {home[item[r]], home[label[r]]}
    /\ added' = [added EXCEPT ![r] = IF Pair(r) \in pairs THEN {} ELSE {Pair(r)}]
    /\ UNCHANGED <<tables, op, locals, erased>>

\* Mutant: an assignment that a foreign key refuses is tried again.
DanglingRetried(r) ==
    /\ Goto(r, "insert", "task lock")
    /\ Insertable(r, Pair(r))
    /\ None \in {home[item[r]], home[label[r]]}
    /\ UNCHANGED <<tables, op, locals, writes>>

\* A foreign key of task_labels is violated: its row was deleted in the meantime.
Dangling(r) ==
    /\ pc[r] = "insert" /\ Insertable(r, Pair(r))
    /\ None \in {home[item[r]], home[label[r]]}
    /\ Fail(r)

-----------------------------------------------------------------------------
\* A DELETE of one pair, which may be gone or not yet visible.
Erase(r, p) ==
    /\ p \in pairs => Erasable(r, p)
    /\ erased' = [erased EXCEPT ![r] = @ \cup ({p} \cap pairs)]

\* remove_label.
Remove(r) ==
    /\ Goto(r, "remove", "commit")
    /\ Erase(r, Pair(r))
    /\ UNCHANGED <<tables, op, locals, added>>

\* repo.delete: the flush loads the pairs of the row and deletes them.
Select(r) ==
    /\ Goto(r, "select", "pairs")
    /\ seen' = [seen EXCEPT ![r] = With(item[r])]
    /\ UNCHANGED <<tables, op, item, label, project, writes>>

ErasePair(r) ==
    /\ pc[r] = "pairs"
    /\ \E p \in seen[r] : /\ Erase(r, p)
                          /\ seen' = [seen EXCEPT ![r] = @ \ {p}]
    /\ UNCHANGED <<tables, pc, op, item, label, project, added>>

\* Then the row itself.  If it is gone, the ORM only warns.
EraseRow(r) ==
    /\ Goto(r, "pairs", "cascade")
    /\ seen[r] = {}
    /\ Writable(r, item[r])
    /\ UNCHANGED <<tables, op, locals, writes>>

\* ON DELETE CASCADE: the pairs that were added since.
Cascade(r) ==
    /\ pc[r] = "cascade"
    /\ \E p \in With(item[r]) \ erased[r] : Erase(r, p)
    /\ UNCHANGED <<tables, pc, op, locals, added>>

Cascaded(r) ==
    /\ Goto(r, "cascade", "commit")
    /\ With(item[r]) \subseteq erased[r]
    /\ UNCHANGED <<tables, op, locals, writes>>

-----------------------------------------------------------------------------
(* The triggers on UPDATE OF project_id.                                   *)

LockRow(r) ==
    /\ Goto(r, "row", "check")
    /\ Writable(r, item[r])
    /\ UNCHANGED <<tables, op, locals, writes>>

\* The rows paired with the moved one that stay in another project.
Left(r) == {y \in Items \ {item[r]} :
               /\ \E p \in With(item[r]) : y \in {p[1], p[2]}
               /\ home[y] # project[r]}

MoveAllowed(r) ==
    /\ Goto(r, "check", "commit")
    /\ home[item[r]] \in {None, project[r]} \/ Left(r) = {}
    /\ UNCHANGED <<tables, op, locals, writes>>

\* The trigger locks the rows that are left, FOR SHARE, and raises.
MoveRefused(r) ==
    /\ pc[r] = "check"
    /\ home[item[r]] \notin {None, project[r]}
    /\ Left(r) # {} /\ \A y \in Left(r) : Readable(r, y)
    /\ Fail(r)

-----------------------------------------------------------------------------
\* get_db.
Commit(r) ==
    /\ pc[r] = "commit"
    /\ pairs' = (pairs \cup added[r]) \ erased[r]
    /\ home' = IF home[item[r]] = None THEN home
               ELSE CASE op[r] = "delete" -> [home EXCEPT ![item[r]] = None]
                      [] op[r] = "move"   -> [home EXCEPT ![item[r]] = project[r]]
                      [] OTHER            -> home
    /\ End(r)

\* A statement or the commit fails, the caller is refused, or the process dies.
Abort(r) == pc[r] # "idle" /\ Fail(r)

Start(r) == \/ \E t \in Tasks, l \in Labels, kind \in {"assign", "remove"} :
                  StartPair(r, kind, t, l)
            \/ \E x \in Items : StartDelete(r, x)
            \/ \E x \in Items, p \in Projects : StartMove(r, x, p)

Step(r) == \/ Find(r) \/ NotFound(r) \/ FindLabel(r) \/ RefuseLabel(r)
           \/ LockTask(r) \/ LockLabel(r) \/ Mismatch(r) \/ Insert(r) \/ Dangling(r)
           \/ Remove(r) \/ Select(r) \/ ErasePair(r) \/ EraseRow(r)
           \/ Cascade(r) \/ Cascaded(r)
           \/ LockRow(r) \/ MoveAllowed(r) \/ MoveRefused(r) \/ Commit(r)

-----------------------------------------------------------------------------
(* Waiting.                                                                *)

\* The pairs that a transaction is about to delete, in some order.
Pending(r) == CASE pc[r] = "remove"  -> {Pair(r)} \cap pairs
                [] pc[r] = "pairs"   -> seen[r] \cap pairs
                [] pc[r] = "cascade" -> With(item[r]) \ erased[r]
                [] OTHER             -> {}

\* What the transactions of a set hold.
Owned(D)  == {x \in UNION {Owns(q) : q \in D} : home[x] # None}
Shared(D) == {x \in UNION {Shares(q) : q \in D} : home[x] # None}
Erased(D) == UNION {erased[q] : q \in D}
Added(D)  == UNION {added[q] : q \in D}

\* The next statement of r cannot return before one of D has ended.
Waits(r, D) ==
    \/ pc[r] = "task lock"  /\ item[r] \in Owned(D)
    \/ pc[r] = "label lock" /\ label[r] \in Owned(D)
    \/ pc[r] = "insert"     /\ Pair(r) \in Erased(D) \cup Added(D)
    \/ Pending(r) # {}      /\ Pending(r) \subseteq Erased(D)
    \/ /\ pc[r] = "row" \/ (pc[r] = "pairs" /\ seen[r] = {})
       /\ item[r] \in Owned(D) \cup Shared(D)
    \/ /\ pc[r] = "check" /\ home[item[r]] \notin {None, project[r]}
       /\ Left(r) \cap Owned(D) # {}

\* Each of them waits for others of them.
Deadlocked(D) == \A r \in D : Waits(r, D \ {r})

\* PostgreSQL: after deadlock_timeout, one of them is aborted.
Detect(r) == (\E D \in SUBSET Requests : r \in D /\ Deadlocked(D)) /\ Fail(r)

Next == \E r \in Requests : Start(r) \/ Step(r) \/ Detect(r) \/ Abort(r)

Spec == Init /\ [][Next]_vars

\* The statements of a request return, locks are queued for, and deadlocks are
\* detected.
Fairness == \A r \in Requests : SF_vars(Step(r)) /\ WF_vars(Detect(r))

FairSpec == Spec /\ Fairness

-----------------------------------------------------------------------------
Steps == {"idle", "find", "find label", "task lock", "label lock", "insert",
          "remove", "select", "pairs", "cascade", "row", "check", "commit"}

TypeOK ==
    /\ home \in [Items -> Projects \cup {None}]
    /\ pairs \subseteq Pairs
    /\ pc \in [Requests -> Steps]
    /\ op \in [Requests -> {"none", "assign", "remove", "delete", "move"}]
    /\ item \in [Requests -> Items \cup {None}]
    /\ label \in [Requests -> Labels \cup {None}]
    /\ project \in [Requests -> Projects \cup {None}]
    /\ \A r \in Requests : pc[r] \notin {"idle", "find"} => project[r] \in Projects
    /\ seen \in [Requests -> SUBSET Pairs]
    /\ added \in [Requests -> SUBSET Pairs]
    /\ erased \in [Requests -> SUBSET Pairs]

\* A task and its labels are there and in one project, whatever is assigned,
\* deleted and moved at a time.
SameProject ==
    \A p \in pairs : home[p[1]] = home[p[2]] /\ home[p[1]] # None

\* A request ends, though requests wait for each other's rows and pairs.  Only a
\* deletion or a move may wait for ever: PostgreSQL grants share locks past it, so
\* assignments that never pause keep it from the row.
RequestsEnd ==
    \A r \in Requests :
       \/ []<>(pc[r] = "idle")
       \/ <>[](pc[r] \in {"pairs", "row"} /\ item[r] \in Shared(Others(r)))

\* test_assign_label_is_idempotent_for_project_writers: assigning a label that the
\* task has already does nothing, hence waits for no one who waits for it.
AssignIsIdempotent ==
    \A D \in SUBSET Requests : Deadlocked(D) =>
       \A r \in D : ~(pc[r] = "insert" /\ Pair(r) \in pairs)

-----------------------------------------------------------------------------
\* What a transaction does fits where it is.
Kinds ==
    \A r \in Requests :
       /\ op[r] = "none" <=> pc[r] = "idle"
       /\ op[r] \in {"assign", "remove"} => item[r] \in Tasks /\ label[r] \in Labels
       /\ op[r] \in {"delete", "move"} => item[r] \in Items
       /\ op[r] = "move" => project[r] \in Projects
       /\ pc[r] = "find" => op[r] # "move"
       /\ pc[r] = "find label" => op[r] \in {"assign", "remove"}
       /\ pc[r] \in {"task lock", "label lock", "insert"} => op[r] = "assign"
       /\ pc[r] = "remove" => op[r] = "remove"
       /\ pc[r] \in {"select", "pairs", "cascade"} => op[r] = "delete"
       /\ pc[r] \in {"row", "check"} => op[r] = "move"
       /\ added[r] # {} => op[r] = "assign" /\ pc[r] = "commit" /\ added[r] = {Pair(r)}

\* A row that someone writes is neither written nor share-locked by another.
Exclusive ==
    \A r, q \in Requests : r # q =>
       \A x \in Owns(r) : home[x] # None => x \notin Owns(q) \cup Shares(q)

\* What the trigger on task_labels has compared stays so up to the commit.
Compared ==
    \A r \in Requests :
       /\ op[r] = "assign" /\ pc[r] \in {"insert", "commit"} =>
             home[item[r]] = home[label[r]] \/ None \in {home[item[r]], home[label[r]]}
       /\ added[r] # {} => None \notin {home[item[r]], home[label[r]]}

\* A row that is about to move has no pair, and one that is about to be deleted
\* has none that stays.
Detached ==
    \A r \in Requests : pc[r] = "commit" /\ item[r] \in Items /\ home[item[r]] # None =>
       /\ op[r] = "move" => home[item[r]] = project[r] \/ With(item[r]) = {}
       /\ op[r] = "delete" => With(item[r]) \subseteq erased[r]

IInv == TypeOK /\ Kinds /\ Exclusive /\ Compared /\ Detached /\ SameProject
=============================================================================
