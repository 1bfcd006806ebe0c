--------------------------- MODULE TaskAssignment ---------------------------
(***************************************************************************)
(* One task of a project and the requests that create, update and delete   *)
(* it, as transactions that overlap, while the owner of the workspace adds *)
(* and removes members.                                                    *)
(*                                                                         *)
(* A request works on the copy of the task that its ORM session loaded.    *)
(* An update writes the columns whose value in the payload differs from    *)
(* the copy, reads the row again, and registers a notice when the assignee *)
(* it reads differs from the one it had loaded.  Statements see what is    *)
(* committed when they run (READ COMMITTED), and writes take the row lock. *)
(*                                                                         *)
(* The project is active and the task has neither labels nor comments.     *)
(* What the commit does to the task list is in TaskListCache.              *)
(***************************************************************************)
CONSTANTS Requests,    \* requests being served
          Users,       \* accounts
          Owner,       \* the owner of the workspace
          Inactive,    \* accounts with is_active = false
          Titles,      \* titles, standing for every column but the assignee
          Nobody,      \* assignee_id = NULL
          Patches,     \* payloads: functions from some columns to values
          NoRequest    \* no one holds the row lock

Columns == {"assignee", "title"}
Value(c) == IF c = "assignee" THEN Users \cup {Nobody} ELSE Titles
Rows == {f \in [Columns -> Users \cup {Nobody} \cup Titles] :
            \A c \in Columns : f[c] \in Value(c)}

ASSUME Accounts ==
    /\ Owner \in Users /\ Owner \notin Inactive /\ Inactive \subseteq Users
    /\ Nobody \notin Users
    /\ NoRequest \notin Requests
    /\ Titles # {}

\* TaskUpdate.require_update_field: a payload names a column.
ASSUME Payloads ==
    \A p \in Patches : /\ DOMAIN p \subseteq Columns /\ DOMAIN p # {}
                       /\ \A c \in DOMAIN p : p[c] \in Value(c)

VARIABLES life,        \* has the row been committed, has it been deleted
          row,         \* the columns of the committed row
          lock,        \* the transaction with an uncommitted write of the row
          role,        \* the access of each user to the workspace
          pc, op,      \* where a request is, and what it does
          actor,       \* current_user of a request
          patch,       \* its payload
          loaded,      \* the columns as it loaded them
          notice,      \* the assignee it will notify after the commit
          lapsed       \* history: users removed since it checked their access

taskVars    == <<life, row>>
requestVars == <<pc, op, actor, patch, loaded, notice>>
vars == <<taskVars, requestVars, lock, role, lapsed>>

Writers == {"owner", "editor"}
NoPatch == [c \in {} |-> Nobody]
Blank   == [c \in Columns |-> IF c = "assignee" THEN Nobody
                                               ELSE CHOOSE t \in Titles : TRUE]

Init == /\ life = "unborn"
        /\ row = Blank
        /\ lock = NoRequest
        /\ role \in [Users -> {"none", "viewer", "editor", "owner"}]
        /\ role[Owner] = "owner"
        /\ \A u \in Users \ {Owner} : role[u] # "owner"
        /\ \A u \in Users \ (Inactive \cup {Owner}) : role[u] = "none"
        /\ pc = [r \in Requests |-> "idle"]
        /\ op = [r \in Requests |-> "none"]
        /\ actor = [r \in Requests |-> Nobody]
        /\ patch = [r \in Requests |-> NoPatch]
        /\ loaded = [r \in Requests |-> Blank]
        /\ notice = [r \in Requests |-> Nobody]
        /\ lapsed = [r \in Requests |-> {}]

Goto(r, from, to) == pc[r] = from /\ pc' = [pc EXCEPT ![r] = to]

Names(r, c) == c \in DOMAIN patch[r]

\* The columns of the UPDATE that the session flushes.
Dirty(r) == {c \in DOMAIN patch[r] : patch[r][c] # loaded[r][c]}

\* Mutant: every column of the copy is written.
WrittenWhole(r) == [c \in Columns |-> IF Names(r, c) THEN patch[r][c]
                                                     ELSE loaded[r][c]]

\* The row after that UPDATE, as the transaction sees and will commit it.
Written(r) == [c \in Columns |-> IF c \in Dirty(r) THEN patch[r][c] ELSE row[c]]

\* The row that a create inserts.
Inserted(r) == [c \in Columns |-> IF Names(r, c) THEN patch[r][c] ELSE Nobody]

End(r) ==
    /\ pc' = [pc EXCEPT ![r] = "idle"]
    /\ op' = [op EXCEPT ![r] = "none"]
    /\ actor' = [actor EXCEPT ![r] = Nobody]
    /\ patch' = [patch EXCEPT ![r] = NoPatch]
    /\ loaded' = [loaded EXCEPT ![r] = Blank]
    /\ notice' = [notice EXCEPT ![r] = Nobody]
    /\ lapsed' = [lapsed EXCEPT ![r] = {}]

\* get_db: the transaction is rolled back.
Fail(r) ==
    /\ End(r)
    /\ lock' = IF lock = r THEN NoRequest ELSE lock
    /\ UNCHANGED <<taskVars, role>>

-----------------------------------------------------------------------------
Start(r, kind, first, u, p) ==
    /\ u \in Users \ Inactive
    /\ Goto(r, "idle", first)
    /\ op' = [op EXCEPT ![r] = kind]
    /\ actor' = [actor EXCEPT ![r] = u]
    /\ patch' = [patch EXCEPT ![r] = p]
    /\ UNCHANGED <<taskVars, loaded, notice, lock, role, lapsed>>

\* Mutant: a create without a title is let through.
StartUntitled(r, u, p) ==
    /\ life = "unborn" /\ \A q \in Requests : op[q] # "create"
    /\ Start(r, "create", "access", u, p)

\* POST /projects/{id}/tasks, with a title.  Another create would make another task.
StartCreate(r, u, p) ==
    /\ life = "unborn" /\ \A q \in Requests : op[q] # "create"
    /\ "title" \in DOMAIN p
    /\ Start(r, "create", "access", u, p)

\* PATCH and DELETE /tasks/{id}.
StartUpdate(r, u, p) == Start(r, "update", "load", u, p)
StartDelete(r, u)    == Start(r, "delete", "load", u, NoPatch)

\* _get_task_access: the task is loaded into the session.
Load(r) ==
    /\ life = "live"
    /\ Goto(r, "load", "access")
    /\ loaded' = [loaded EXCEPT ![r] = row]
    /\ UNCHANGED <<taskVars, op, actor, patch, notice, lock, role, lapsed>>

NotFound(r) == pc[r] = "load" /\ life # "live" /\ Fail(r)

\* _get_project_access and the check of the role.
Admit(r) ==
    /\ Goto(r, "access", IF Names(r, "assignee") THEN "validate" ELSE "flush")
    /\ role[actor[r]] \in Writers
    /\ UNCHANGED <<taskVars, op, actor, patch, loaded, notice, lock, role, lapsed>>

Deny(r) == pc[r] = "access" /\ role[actor[r]] \notin Writers /\ Fail(r)

\* Mutant: any active account will do.
AnyActive(r) == {Nobody, actor[r]} \cup (Users \ Inactive)

\* _validate_assignee: whom the request may assign the task to.
Assignable(r) ==
    {Nobody, actor[r]} \cup {u \in Users \ Inactive : role[u] # "none"}

Validate(r) ==
    /\ Goto(r, "validate", "flush")
    /\ patch[r]["assignee"] \in Assignable(r)
    /\ UNCHANGED <<taskVars, op, actor, patch, loaded, notice, lock, role, lapsed>>

RefuseAssignee(r) ==
    pc[r] = "validate" /\ patch[r]["assignee"] \notin Assignable(r) /\ Fail(r)

\* _register_assignment_notification, given the assignee that was validated.
Notify(r) ==
    IF Names(r, "assignee") /\ patch[r]["assignee"] # actor[r]
    THEN patch[r]["assignee"] ELSE Nobody

\* create: the INSERT of a row that no one else can see.
Insert(r) ==
    /\ op[r] = "create"
    /\ Goto(r, "flush", "commit")
    /\ notice' = [notice EXCEPT ![r] = Notify(r)]
    /\ UNCHANGED <<taskVars, op, actor, patch, loaded, lock, role, lapsed>>

\* Mutant: the update is not flushed before the commit.
FlushLater(r) ==
    /\ op[r] = "update"
    /\ Goto(r, "flush", "refresh")
    /\ UNCHANGED <<taskVars, op, actor, patch, loaded, notice, lock, role, lapsed>>

\* update: the UPDATE waits for the row lock; without a column to write there
\* is no UPDATE.
Flush(r) ==
    /\ op[r] = "update"
    /\ Goto(r, "flush", "refresh")
    /\ IF Dirty(r) = {} THEN UNCHANGED lock
                        ELSE lock = NoRequest /\ life = "live" /\ lock' = r
    /\ UNCHANGED <<taskVars, op, actor, patch, loaded, notice, role, lapsed>>

\* update: the UPDATE matches no row (StaleDataError).
FlushFails(r) ==
    /\ op[r] = "update" /\ pc[r] = "flush"
    /\ Dirty(r) # {} /\ lock = NoRequest /\ life # "live"
    /\ Fail(r)

\* Mutant: the row is compared as it was before the UPDATE.
RefreshTooEarly(r) ==
    /\ life = "live"
    /\ Goto(r, "refresh", "commit")
    /\ notice' = [notice EXCEPT ![r] =
                    IF row["assignee"] # loaded[r]["assignee"]
                    THEN Notify(r) ELSE Nobody]
    /\ UNCHANGED <<taskVars, op, actor, patch, loaded, lock, role, lapsed>>

\* update: the row is read again, and its assignee compared with the loaded one.
Refresh(r) ==
    /\ life = "live"
    /\ Goto(r, "refresh", "commit")
    /\ notice' = [notice EXCEPT ![r] =
                    IF Written(r)["assignee"] # loaded[r]["assignee"]
                    THEN Notify(r) ELSE Nobody]
    /\ UNCHANGED <<taskVars, op, actor, patch, loaded, lock, role, lapsed>>

\* update: there is no row to read again.
RefreshFails(r) == pc[r] = "refresh" /\ life # "live" /\ Fail(r)

\* delete: repo.delete finds the task in its session, so it does not ask the
\* database for it; a DELETE that matches no row only warns.
Erase(r) ==
    /\ op[r] = "delete"
    /\ Goto(r, "flush", "commit")
    /\ lock = NoRequest
    /\ lock' = IF life = "live" THEN r ELSE lock
    /\ UNCHANGED <<taskVars, op, actor, patch, loaded, notice, role, lapsed>>

\* get_db: the writes become visible and the lock is released.
Committed(r) ==
    /\ lock' = IF lock = r THEN NoRequest ELSE lock
    /\ UNCHANGED role
    /\ IF notice[r] = Nobody
       THEN End(r)
       ELSE Goto(r, "commit", "notify")
            /\ UNCHANGED <<op, actor, patch, loaded, notice, lapsed>>

CommitCreate(r) ==
    /\ op[r] = "create" /\ pc[r] = "commit"
    /\ life' = "live"
    /\ row' = Inserted(r)
    /\ Committed(r)

CommitUpdate(r) ==
    /\ op[r] = "update" /\ pc[r] = "commit"
    /\ row' = Written(r)
    /\ UNCHANGED life
    /\ Committed(r)

CommitDelete(r) ==
    /\ op[r] = "delete" /\ pc[r] = "commit"
    /\ life' = IF lock = r THEN "gone" ELSE life
    /\ UNCHANGED row
    /\ Committed(r)

\* The post-commit action hands the notice to the dispatcher, or the process
\* dies before it does.
Dispatch(r) ==
    /\ pc[r] = "notify"
    /\ End(r)
    /\ UNCHANGED <<taskVars, lock, role>>

\* A statement or the commit fails, or the process dies: nothing is written.
Abort(r) == pc[r] \notin {"idle", "notify"} /\ Fail(r)

-----------------------------------------------------------------------------
\* add_member: an active account that is not a member becomes one.
AddMember(u, as) ==
    /\ u \notin Inactive /\ role[u] = "none"
    /\ role' = [role EXCEPT ![u] = as]
    /\ UNCHANGED <<taskVars, requestVars, lock, lapsed>>

\* History: the users whose access a request has checked.
Vetted(r) ==
    (IF pc[r] \in {"validate", "flush", "refresh", "commit"} THEN {actor[r]} ELSE {})
    \cup (IF pc[r] \in {"flush", "refresh", "commit"} /\ Names(r, "assignee")
          THEN {patch[r]["assignee"]} ELSE {})

\* remove_member: the tasks that are assigned to the user stay as they are.
RemoveMember(u) ==
    /\ role[u] \in {"viewer", "editor"}
    /\ role' = [role EXCEPT ![u] = "none"]
    /\ lapsed' = [r \in Requests |-> lapsed[r] \cup ({u} \cap Vetted(r))]
    /\ UNCHANGED <<taskVars, requestVars, lock>>

Step(r) == \/ Load(r) \/ NotFound(r) \/ Admit(r) \/ Deny(r)
           \/ Validate(r) \/ RefuseAssignee(r)
           \/ Insert(r) \/ Flush(r) \/ FlushFails(r) \/ Refresh(r) \/ RefreshFails(r)
           \/ Erase(r) \/ CommitCreate(r) \/ CommitUpdate(r) \/ CommitDelete(r)
           \/ Dispatch(r) \/ Abort(r)

Next == \/ \E r \in Requests : Step(r)
        \/ \E r \in Requests, u \in Users : StartDelete(r, u)
        \/ \E r \in Requests, u \in Users, p \in Patches :
              StartCreate(r, u, p) \/ StartUpdate(r, u, p)
        \/ \E u \in Users : RemoveMember(u) \/ \E as \in {"viewer", "editor"} : AddMember(u, as)

Spec == Init /\ [][Next]_vars

-----------------------------------------------------------------------------
TypeOK ==
    /\ life \in {"unborn", "live", "gone"}
    /\ row \in Rows
    /\ lock \in Requests \cup {NoRequest}
    /\ role \in [Users -> {"none", "viewer", "editor", "owner"}]
    /\ pc \in [Requests -> {"idle", "load", "access", "validate", "flush",
                            "refresh", "commit", "notify"}]
    /\ op \in [Requests -> {"none", "create", "update", "delete"}]
    /\ actor \in [Requests -> Users \cup {Nobody}]
    /\ patch \in [Requests -> Patches \cup {NoPatch}]
    /\ loaded \in [Requests -> Rows]
    /\ notice \in [Requests -> Users \cup {Nobody}]
    /\ lapsed \in [Requests -> SUBSET Users]

\* The checks of a request are statements of their own, and nothing locks a
\* membership: what they established still holds, but for users removed since.
Allowed(r) == role[actor[r]] \in Writers \/ actor[r] \in lapsed[r]
Belongs(r) == LET u == patch[r]["assignee"] IN
    u # Nobody => u \notin Inactive /\ (role[u] # "none" \/ u \in lapsed[r] \cup {actor[r]})

\* A request that writes was made by someone who may write in the workspace and names
\* an active assignee who belongs to it.  A removal that committed before the request
\* checked that user's access counts; the code lets through one that came after.
WritesWereAllowed ==
    \A r \in Requests : pc[r] = "commit" =>
       Allowed(r) /\ (Names(r, "assignee") => Belongs(r))

\* Whoever a commit assigns the task to is told, unless he did it himself,
\* whatever the request had loaded before others changed the task.
AssignmentsAnnounced ==
    [][\A r \in Requests :
          pc[r] = "commit" /\ pc'[r] # "commit" /\ row'["assignee"] # row["assignee"]
          => row'["assignee"] \in {Nobody, actor[r], notice[r]}]_vars

\* Updates of different columns that overlap are both kept: a committed column
\* changes only by the commit of a request that names it, and to what it says.
NamedOnly ==
    \A c \in Columns : life = "live" /\ row'[c] # row[c] =>
       \E r \in Requests : /\ pc[r] = "commit" /\ pc'[r] # "commit"
                           /\ Names(r, c) /\ row'[c] = patch[r][c]

UpdatesKeepTheRest == [][NamedOnly]_vars

\* A deleted task is not written any more, nor does it come back, even by
\* requests that loaded it before.
DeletionIsFinal == [][life = "gone" => UNCHANGED taskVars]_vars

\* "assigned a task to you" (gmail.py), and not "when the assignee is unchanged"
\* (test_task_service.py): who is notified is who the task is assigned to.
NoticeNamesAssignee ==
    [][\A r \in Requests :
          pc[r] = "commit" /\ pc'[r] = "notify" => row'["assignee"] = notice[r]]_vars

-----------------------------------------------------------------------------
\* What a request is doing fits where it is, and the id of a created task is
\* known to no other create.
Kinds ==
    \A r \in Requests :
       /\ op[r] = "none" <=> pc[r] = "idle"
       /\ pc[r] = "validate" => Names(r, "assignee")
       /\ pc[r] = "refresh" => op[r] = "update"
       /\ op[r] = "create" =>
             /\ Names(r, "title")
             /\ pc[r] # "notify" => life = "unborn"
             /\ \A q \in Requests : op[q] = "create" => q = r
       /\ op[r] \in {"none", "delete"} => notice[r] = Nobody

\* The row lock is held by whoever has written the row and by no one else, and
\* as long as it is held the row is there.
Writing(r) == \/ op[r] = "update" /\ pc[r] \in {"refresh", "commit"} /\ Dirty(r) # {}
              \/ op[r] = "delete" /\ pc[r] = "commit" /\ lock = r

RowLock ==
    /\ \A r \in Requests : Writing(r) <=> lock = r
    /\ lock # NoRequest => life = "live"

\* What a request checked holds up to its commit, but for removals.
Checked ==
    \A r \in Requests :
       /\ pc[r] # "idle" => actor[r] \in Users \ Inactive
       /\ pc[r] \in {"validate", "flush", "refresh", "commit"} => Allowed(r)
       /\ pc[r] \in {"flush", "refresh", "commit"} /\ Names(r, "assignee") => Belongs(r)

\* A request that changes the assignee has registered the notice.
Noticed ==
    \A r \in Requests : pc[r] = "commit" =>
       /\ op[r] = "create" => notice[r] = Notify(r)
       /\ op[r] = "update" /\ "assignee" \in Dirty(r) => notice[r] = Notify(r)

IInv == TypeOK /\ Kinds /\ RowLock /\ Checked /\ Noticed
=============================================================================
