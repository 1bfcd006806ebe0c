----------------------------- MODULE LabelNames -----------------------------
(***************************************************************************)
(* The names of the labels of one project, in PostgreSQL: requests that    *)
(* create, update and delete labels, as transactions that overlap.  The    *)
(* service looks for the name first; what decides is the unique constraint *)
(* on project and name, which the service turns into the same error.       *)
(*                                                                         *)
(* A statement sees what is committed when it runs.  An UPDATE or a DELETE *)
(* waits for the row, and then a new name waits for its key.  The color    *)
(* stands for itself only in whether it is written.  Who may do this is in *)
(* TaskAssignment, the tasks of a label are in TaskLabels.                 *)
(***************************************************************************)
CONSTANTS Requests,    \* transactions
          Labels, Names,
          None,        \* no name, no label: not created, not given
          Gone         \* deleted

ASSUME Values == None \notin Names /\ Gone \notin Names /\ None # Gone /\ None \notin Labels

VARIABLES name,        \* the committed name of each label
          pc, op,      \* where a request is, and what it does
          item,        \* its label
          want,        \* the name in its payload, None if it is not given
          known,       \* the name of the label as loaded
          dirty        \* the columns it writes

locals == <<op, item, want, known, dirty>>
vars   == <<name, pc, locals>>

Exists(l) == name[l] \in Names

\* The constraint uq_labels_project_name.
Unique == \A l, k \in Labels : l # k /\ name[l] = name[k] => ~Exists(l)

Init == /\ name \in [Labels -> Names \cup {None}] /\ Unique
        /\ pc = [r \in Requests |-> "idle"]
        /\ op = [r \in Requests |-> "none"]
        /\ item = [r \in Requests |-> None]
        /\ want = [r \in Requests |-> None]
        /\ known = [r \in Requests |-> None]
        /\ dirty = [r \in Requests |-> {}]

Goto(r, from, to) == pc[r] = from /\ pc' = [pc EXCEPT ![r] = to]

-----------------------------------------------------------------------------
(* Locks, which a transaction holds until it ends.                         *)

Others(r) == Requests \ {r}

\* The row that a transaction has updated or deleted.
Owns(r) == {l \in Labels : /\ l = item[r] /\ Exists(l)
                           /\ \/ op[r] = "update" /\ dirty[r] # {}
                                 /\ pc[r] \in {"key", "refresh", "commit", "conflict"}
                              \/ op[r] = "delete" /\ pc[r] = "commit"}

\* The key that it has put into the unique index.
Puts(r) == IF "name" \in dirty[r] /\ pc[r] \in {"refresh", "commit"} THEN {want[r]} ELSE {}

Owned(D) == UNION {Owns(q) : q \in D}
Put(D)   == UNION {Puts(q) : q \in D}

\* The other labels with the wanted name.
Holders(r) == {l \in Labels \ {item[r]} : name[l] = want[r]}

-----------------------------------------------------------------------------
End(r) ==
    /\ pc' = [pc EXCEPT ![r] = "idle"]
    /\ op' = [op EXCEPT ![r] = "none"]
    /\ item' = [item EXCEPT ![r] = None]
    /\ want' = [want EXCEPT ![r] = None]
    /\ known' = [known EXCEPT ![r] = None]
    /\ dirty' = [dirty EXCEPT ![r] = {}]

\* get_db: the transaction is rolled back.
Fail(r) == End(r) /\ UNCHANGED name

\* POST /projects/{id}/labels.
StartCreate(r, n) ==
    /\ Goto(r, "idle", "check")
    /\ op' = [op EXCEPT ![r] = "create"]
    /\ want' = [want EXCEPT ![r] = n]
    /\ UNCHANGED <<name, item, known, dirty>>

\* PATCH /labels/{id}, with or without a name, and DELETE /labels/{id}.
StartChange(r, kind, l, n) ==
    /\ Goto(r, "idle", "find")
    /\ name[l] # None
    /\ op' = [op EXCEPT ![r] = kind]
    /\ item' = [item EXCEPT ![r] = l]
    /\ want' = [want EXCEPT ![r] = n]
    /\ UNCHANGED <<name, known, dirty>>

\* Mutant: a label that is gone is found.
FindAny(r) ==
    /\ Goto(r, "find", IF op[r] = "delete" THEN "erase" ELSE "set")
    /\ known' = [known EXCEPT ![r] = name[item[r]]]
    /\ UNCHANGED <<name, op, item, want, dirty>>

\* _get_label_access; update_label looks for a name that differs.
Find(r) ==
    /\ Goto(r, "find", CASE op[r] = "delete"                                       -> "erase"
                         [] op[r] = "update" /\ want[r] \in {None, name[item[r]]} -> "set"
                         [] OTHER                                                 -> "check")
    /\ Exists(item[r])
    /\ known' = [known EXCEPT ![r] = name[item[r]]]
    /\ UNCHANGED <<name, op, item, want, dirty>>

NotFound(r) == pc[r] = "find" /\ ~Exists(item[r]) /\ Fail(r)

\* get_by_project_and_name: no other label has the name.
NameFree(r) ==
    /\ Goto(r, "check", IF op[r] = "create" THEN "insert" ELSE "set")
    /\ Holders(r) = {}
    /\ UNCHANGED <<name, locals>>

NameTaken(r) ==
    /\ Goto(r, "check", "conflict")
    /\ Holders(r) # {}
    /\ UNCHANGED <<name, locals>>

-----------------------------------------------------------------------------
(* The flush.                                                              *)

\* create: an INSERT of a row with a fresh id.
Insert(r) ==
    /\ Goto(r, "insert", "key")
    /\ \E l \in Labels : /\ name[l] = None /\ \A q \in Requests : item[q] # l
                         /\ item' = [item EXCEPT ![r] = l]
    /\ dirty' = [dirty EXCEPT ![r] = {"name"}]
    /\ UNCHANGED <<name, op, want, known>>

\* Mutant: the label is written whole, with the name it was loaded with.
Everything(r, color) == {"name"} \cup color

\* Mutant: the columns of the payload are written, whether they differ or not.
PayloadColumns(r, color) == color \cup IF want[r] = None THEN {} ELSE {"name"}

\* The columns that differ from what was loaded.
Dirty(r, color) == color \cup IF want[r] \in {None, known[r]} THEN {} ELSE {"name"}

\* update: the fields of the payload are set.  Without a difference there is no UPDATE.
SetColumns(r) ==
    \E color \in {{}, {"color"}} :
       /\ Goto(r, "set", IF Dirty(r, color) = {} THEN "refresh" ELSE "row")
       /\ dirty' = [dirty EXCEPT ![r] = Dirty(r, color)]
       /\ UNCHANGED <<name, op, item, want, known>>

\* The row is locked and written.
WriteRow(r) ==
    /\ Goto(r, "row", IF "name" \in dirty[r] THEN "key" ELSE "refresh")
    /\ Exists(item[r])
    /\ item[r] \notin Owned(Others(r))
    /\ UNCHANGED <<name, locals>>

\* StaleDataError: the UPDATE matched no row.
RowLost(r) == pc[r] = "row" /\ ~Exists(item[r]) /\ Fail(r)

\* Mutant: there is no unique constraint.
TakeAnyKey(r) ==
    /\ Goto(r, "key", "refresh")
    /\ UNCHANGED <<name, locals>>

\* The key is free; keys of transactions that have not ended are waited for.
TakeKey(r) ==
    /\ Goto(r, "key", "refresh")
    /\ Holders(r) = {}
    /\ want[r] \notin Put(Others(r))
    /\ UNCHANGED <<name, locals>>

\* The unique violation, which the service catches.
DuplicateKey(r) ==
    /\ Goto(r, "key", "conflict")
    /\ \E l \in Holders(r) : l \notin Owned(Others(r))
    /\ UNCHANGED <<name, locals>>

\* _duplicate_name_error; update_label asserts that a name was given.
Conflict(r) == pc[r] = "conflict" /\ Fail(r)

Refresh(r) ==
    /\ Goto(r, "refresh", "commit")
    /\ Exists(item[r]) \/ op[r] = "create"
    /\ UNCHANGED <<name, locals>>

\* InvalidRequestError: the row is gone, and was not written.
RefreshFails(r) ==
    /\ pc[r] = "refresh" /\ op[r] = "update" /\ ~Exists(item[r])
    /\ Fail(r)

\* Mutant: the row is deleted without its lock.
EraseAtOnce(r) ==
    /\ Goto(r, "erase", "commit")
    /\ UNCHANGED <<name, locals>>

\* repo.delete: the ORM only warns of a row that is gone.
Erase(r) ==
    /\ Goto(r, "erase", "commit")
    /\ item[r] \notin Owned(Others(r))
    /\ UNCHANGED <<name, locals>>

-----------------------------------------------------------------------------
Written(r) == CASE op[r] = "delete"   -> IF Exists(item[r]) THEN Gone ELSE name[item[r]]
                [] "name" \in dirty[r] -> want[r]
                [] OTHER               -> name[item[r]]

\* get_db.
Commit(r) ==
    /\ pc[r] = "commit"
    /\ name' = [name EXCEPT ![item[r]] = Written(r)]
    /\ End(r)

\* A statement or the commit fails, the caller is refused, or the process dies.
Abort(r) == pc[r] # "idle" /\ Fail(r)

Start(r) == \/ \E n \in Names : StartCreate(r, n)
            \/ \E l \in Labels, n \in Names \cup {None} : StartChange(r, "update", l, n)
            \/ \E l \in Labels : StartChange(r, "delete", l, None)

Step(r) == \/ Find(r) \/ NotFound(r) \/ NameFree(r) \/ NameTaken(r)
           \/ Insert(r) \/ SetColumns(r) \/ WriteRow(r) \/ RowLost(r)
           \/ TakeKey(r) \/ DuplicateKey(r) \/ Conflict(r)
           \/ Refresh(r) \/ RefreshFails(r) \/ Erase(r) \/ Commit(r)

-----------------------------------------------------------------------------
(* Waiting.                                                                *)

\* The next statement of r cannot return before one of D has ended.
Waits(r, D) ==
    \/ pc[r] \in {"row", "erase"} /\ item[r] \in Owned(D)
    \/ /\ pc[r] = "key"
       /\ want[r] \in Put(D) \/ (Holders(r) # {} /\ Holders(r) \subseteq Owned(D))

Deadlocked(D) == \A r \in D : Waits(r, D \ {r})

\* PostgreSQL: after deadlock_timeout, one of them is aborted.
Detect(r) == (\E D \in SUBSET Requests : r \in D /\ Deadlocked(D)) /\ Fail(r)

Next == \E r \in Requests : Start(r) \/ Step(r) \/ Detect(r) \/ Abort(r)

Spec == Init /\ [][Next]_vars

-----------------------------------------------------------------------------
Steps == {"idle", "find", "check", "insert", "set", "row", "key", "conflict",
          "refresh", "erase", "commit"}

TypeOK ==
    /\ name \in [Labels -> Names \cup {None, Gone}]
    /\ pc \in [Requests -> Steps]
    /\ op \in [Requests -> {"none", "create", "update", "delete"}]
    /\ item \in [Requests -> Labels \cup {None}]
    /\ want \in [Requests -> Names \cup {None}]
    /\ known \in [Requests -> Names \cup {None}]
    /\ dirty \in [Requests -> SUBSET {"name", "color"}]

\* No two labels of a project have one name, however creations, updates and
\* deletions overlap.
UniqueNames == Unique

\* The commit of r means to give label l the name that it gets.  An update means to
\* only with another name than the one it loaded, which may have changed since.
Means(r, l) ==
    /\ pc[r] = "commit" /\ item[r] = l
    /\ \/ op[r] = "create" /\ name[l] = None /\ name'[l] = want[r]
       \/ op[r] = "update" /\ Exists(l) /\ name'[l] = want[r] /\ want[r] # known[r]
       \/ op[r] = "delete" /\ Exists(l) /\ name'[l] = Gone

\* A label changes only as one request means it to: an update from a stale copy that
\* sends the old name back, or no name, does not undo a rename committed meanwhile.
RenamesAreMeant ==
    [][\A l \in Labels : name'[l] # name[l] => \E r \in Requests : Means(r, l)]_vars

\* The assertion in update_label: a unique violation comes with a name.
ConflictHasName == \A r \in Requests : pc[r] = "conflict" => want[r] # None

Table == INSTANCE NameTable

\* Each commit creates, renames or deletes one label, under a free name.
ImplementsTable == Table!Spec
-----------------------------------------------------------------------------
(* Why the invariants hold: their inductive form.                          *)

\* What a request carries at each of its statements.
Stages ==
    \A r \in Requests :
       /\ pc[r] = "idle" <=> op[r] = "none"
       /\ op[r] = "none" => item[r] = None /\ dirty[r] = {}
       /\ op[r] = "create" =>
             /\ pc[r] \in {"check", "insert", "key", "conflict", "refresh", "commit"}
             /\ want[r] \in Names
             /\ dirty[r] = IF item[r] \in Labels THEN {"name"} ELSE {}
             /\ pc[r] \in {"check", "insert"} => item[r] = None
             /\ pc[r] \in {"key", "refresh", "commit"} => item[r] \in Labels
       /\ op[r] = "update" =>
             /\ pc[r] \in {"find", "check", "set", "row", "key", "conflict", "refresh", "commit"}
             /\ item[r] \in Labels
             /\ pc[r] \in {"find", "check", "set"} => dirty[r] = {}
             /\ pc[r] = "row" => dirty[r] # {}
             /\ pc[r] = "key" => "name" \in dirty[r]
             /\ "name" \in dirty[r] \/ pc[r] \in {"check", "conflict"} => want[r] \in Names
             /\ "name" \in dirty[r] => want[r] # known[r]
       /\ op[r] = "delete" =>
             /\ pc[r] \in {"find", "erase", "commit"}
             /\ item[r] \in Labels
             /\ dirty[r] = {}

\* A row that is inserted has a fresh id, which nobody else has seen.
FreshItems ==
    \A r \in Requests : op[r] = "create" /\ item[r] \in Labels =>
       /\ name[item[r]] = None
       /\ \A q \in Requests : item[q] = item[r] => q = r

\* An update that has written its row keeps it; a row has one writer.
RowsLocked ==
    /\ \A r \in Requests :
          op[r] = "update" /\ dirty[r] # {} /\ pc[r] \in {"key", "refresh", "commit", "conflict"}
             => Exists(item[r])
    /\ \A r, q \in Requests : r # q => Owns(r) \cap Owns(q) = {}

\* A key in the unique index is one that no other row has and no other transaction puts there.
KeysHeld ==
    \A r \in Requests : Puts(r) # {} =>
       /\ Holders(r) = {}
       /\ \A q \in Requests : want[r] \in Puts(q) => q = r

IInv == /\ TypeOK /\ UniqueNames /\ Stages /\ FreshItems /\ RowsLocked /\ KeysHeld
=============================================================================
