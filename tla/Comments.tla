------------------------------ MODULE Comments ------------------------------
(***************************************************************************)
(* Comments on tasks, in a workspace whose members come and go: requests   *)
(* that add and delete a comment, and requests that delete a task with its *)
(* comments, as transactions that overlap.                                 *)
(*                                                                         *)
(* PostgreSQL locks the task of an inserted comment FOR KEY SHARE, to      *)
(* check the foreign key: the insert waits for whoever deletes the task,   *)
(* and a deletion of the task for whoever has inserted.  Users here are    *)
(* members; the owner may always comment and is left out.                  *)
(***************************************************************************)
EXTENDS WorkspaceMembers

CONSTANTS Writers,     \* requests about comments and tasks
          Tasks,
          Comments     \* ids of comments

ASSUME CommentStates == {Unused, Gone} \cap (Tasks \cup Comments) = {}

VARIABLES there,       \* tasks that exist
          comment,     \* comments: the task and the author of each
          wpc, wop,    \* where a request is, and what it does
          user,        \* who sends it
          task,        \* the task it has loaded
          note,        \* the comment it inserts or deletes
          doomed,      \* the comments that the ORM deletes with the task
          ousted       \* history: requests whose user was removed after his
                       \* access was checked

writerVars == <<wpc, wop, user, task, note, doomed>>
vars       == <<memberVars, there, comment, writerVars, ousted>>

Init ==
    /\ MembersInit
    /\ there = Tasks
    /\ comment = [c \in Comments |-> Unused]
    /\ wpc = [w \in Writers |-> "idle"]
    /\ wop = [w \in Writers |-> "none"]
    /\ user = [w \in Writers |-> Unused]
    /\ task = [w \in Writers |-> Unused]
    /\ note = [w \in Writers |-> Unused]
    /\ doomed = [w \in Writers |-> {}]
    /\ ousted = {}

Written == {c \in Comments : comment[c] \notin {Unused, Gone}}
On(t)   == {c \in Written : comment[c].task = t}

\* Transactions that are past the statement that locks a row.
Past(op, at) == {w \in Writers : wop[w] = op /\ wpc[w] \in at}
Inserting(t) == {w \in Past("add", {"commit"}) : task[w] = t}
Deleting(t)  == {w \in Past("delete", {"commit"}) : task[w] = t /\ t \in there}
Erasing(c)   == {w \in Past("erase", {"commit"}) : note[w] = c}
                \cup {w \in Past("delete", {"task", "commit"}) : c \in doomed[w]}
                \cup {w \in Past("delete", {"commit"}) : c \in On(task[w])}

Goto(w, from, to) == wpc[w] = from /\ wpc' = [wpc EXCEPT ![w] = to]

\* Mutant: the session of the next request still knows the objects of this one.
EndWithObjects(w) ==
    /\ wpc' = [wpc EXCEPT ![w] = "idle"]
    /\ wop' = [wop EXCEPT ![w] = "none"]
    /\ user' = [user EXCEPT ![w] = Unused]
    /\ ousted' = ousted \ {w}
    /\ UNCHANGED <<task, note, doomed>>

\* The request is over, and its session closed.
End(w) == /\ wpc' = [wpc EXCEPT ![w] = "idle"]
          /\ wop' = [wop EXCEPT ![w] = "none"]
          /\ user' = [user EXCEPT ![w] = Unused]
          /\ task' = [task EXCEPT ![w] = Unused]
          /\ note' = [note EXCEPT ![w] = Unused]
          /\ doomed' = [doomed EXCEPT ![w] = {}]
          /\ ousted' = ousted \ {w}

-----------------------------------------------------------------------------
\* POST /tasks/{task_id}/comments and DELETE /tasks/{task_id}: the task is found.
StartOnTask(w, u, t) ==
    /\ t \in there
    /\ Goto(w, "idle", "access")
    /\ wop' \in {[wop EXCEPT ![w] = "add"], [wop EXCEPT ![w] = "delete"]}
    /\ user' = [user EXCEPT ![w] = u]
    /\ task' = [task EXCEPT ![w] = t]
    /\ UNCHANGED <<memberVars, there, comment, note, doomed, ousted>>

\* DELETE /comments/{comment_id}: the comment and its task are found.
StartErase(w, u, c) ==
    /\ c \in Written
    /\ Goto(w, "idle", "access")
    /\ wop' = [wop EXCEPT ![w] = "erase"]
    /\ user' = [user EXCEPT ![w] = u]
    /\ task' = [task EXCEPT ![w] = comment[c].task]
    /\ note' = [note EXCEPT ![w] = c]
    /\ UNCHANGED <<memberVars, there, comment, doomed, ousted>>

\* Mutant: any member deletes any comment.
AdmitMember(w) ==
    /\ user[w] \in Members
    /\ Goto(w, "access", IF wop[w] = "delete" THEN "load" ELSE "write")
    /\ UNCHANGED <<memberVars, there, comment, wop, user, task, note, doomed, ousted>>

\* The user is a member, and the author of a comment that he deletes: author_id
\* never changes, and is the one that was loaded with the comment.
Admit(w) ==
    /\ user[w] \in Members
    /\ wop[w] = "erase" /\ note[w] \in Written => comment[note[w]].author = user[w]
    /\ Goto(w, "access", IF wop[w] = "delete" THEN "load" ELSE "write")
    /\ UNCHANGED <<memberVars, there, comment, wop, user, task, note, doomed, ousted>>

\* He is not: 404 or 403.
Deny(w) ==
    /\ wpc[w] = "access"
    /\ \/ user[w] \notin Members
       \/ wop[w] = "erase" /\ note[w] \in Written /\ comment[note[w]].author # user[w]
    /\ End(w)
    /\ UNCHANGED <<memberVars, there, comment>>

Add(w, c) ==
    /\ comment[c] = Unused /\ \A v \in Writers : note[v] # c
    /\ note' = [note EXCEPT ![w] = c]

\* Mutant: comments.task_id is no foreign key.
InsertAnywhere(w) ==
    /\ wop[w] = "add"
    /\ Goto(w, "write", "commit")
    /\ \E c \in Comments : Add(w, c)
    /\ UNCHANGED <<memberVars, there, comment, wop, user, task, doomed, ousted>>

\* add_comment: the comment is inserted.
InsertComment(w) ==
    /\ wop[w] = "add"
    /\ Goto(w, "write", "commit")
    /\ Deleting(task[w]) = {} /\ task[w] \in there
    /\ \E c \in Comments : Add(w, c)
    /\ UNCHANGED <<memberVars, there, comment, wop, user, task, doomed, ousted>>

\* add_comment: the task is gone, and nobody catches the IntegrityError.
ForeignKeyFails(w) ==
    /\ wop[w] = "add" /\ wpc[w] = "write"
    /\ task[w] \notin there
    /\ End(w)
    /\ UNCHANGED <<memberVars, there, comment>>

\* delete_comment: waits for whoever deletes the comment; one that is gone is
\* not missed.
EraseComment(w) ==
    /\ wop[w] = "erase"
    /\ Goto(w, "write", "commit")
    /\ note[w] \in Written => Erasing(note[w]) = {}
    /\ UNCHANGED <<memberVars, there, comment, wop, user, task, note, doomed, ousted>>

\* session.delete(task): the cascade of Task.comments loads them.
LoadComments(w) ==
    /\ Goto(w, "load", "comments")
    /\ doomed' = [doomed EXCEPT ![w] = On(task[w])]
    /\ UNCHANGED <<memberVars, there, comment, wop, user, task, note, ousted>>

\* The flush deletes those comments first, waiting for whoever deletes them.
EraseComments(w) ==
    /\ Goto(w, "comments", "task")
    /\ \A c \in doomed[w] \cap Written : Erasing(c) = {}
    /\ UNCHANGED <<memberVars, there, comment, wop, user, task, note, doomed, ousted>>

\* Then the task, waiting for whoever deletes it or has inserted a comment on it.
\* ON DELETE CASCADE takes the comments that came in between.
EraseTask(w) ==
    /\ Goto(w, "task", "commit")
    /\ task[w] \in there => /\ Inserting(task[w]) = {} /\ Deleting(task[w]) = {}
                            /\ \A c \in On(task[w]) : Erasing(c) \subseteq {w}
    /\ UNCHANGED <<memberVars, there, comment, wop, user, task, note, doomed, ousted>>

\* get_db commits.
CommitComment(w) ==
    /\ wop[w] = "add" /\ wpc[w] = "commit"
    /\ comment' = [comment EXCEPT ![note[w]] = [task |-> task[w], author |-> user[w]]]
    /\ End(w)
    /\ UNCHANGED <<memberVars, there>>

CommitErase(w) ==
    /\ wop[w] = "erase" /\ wpc[w] = "commit"
    /\ comment' = [comment EXCEPT ![note[w]] = Gone]
    /\ End(w)
    /\ UNCHANGED <<memberVars, there>>

CommitDelete(w) ==
    /\ wop[w] = "delete" /\ wpc[w] = "commit"
    /\ there' = there \ {task[w]}
    /\ comment' = [c \in Comments |->
                     IF c \in On(task[w]) \cup doomed[w] THEN Gone ELSE comment[c]]
    /\ End(w)
    /\ UNCHANGED memberVars

\* A statement or the commit fails, or the process dies: nothing is written.
AbortWriter(w) ==
    /\ wpc[w] # "idle"
    /\ End(w)
    /\ UNCHANGED <<memberVars, there, comment>>

\* Meanwhile the owner adds and removes members.
MembersChange ==
    /\ MembersNext
    /\ ousted' = ousted \cup {w \in Writers : /\ wpc[w] \notin {"idle", "access"}
                                              /\ user[w] \in Members \ Members'}
    /\ UNCHANGED <<there, comment, writerVars>>

-----------------------------------------------------------------------------
Step(w) == \/ Admit(w) \/ Deny(w)
           \/ InsertComment(w) \/ ForeignKeyFails(w) \/ EraseComment(w)
           \/ LoadComments(w) \/ EraseComments(w) \/ EraseTask(w)
           \/ CommitComment(w) \/ CommitErase(w) \/ CommitDelete(w) \/ AbortWriter(w)

Next == \/ MembersChange
        \/ \E w \in Writers : Step(w)
        \/ \E w \in Writers, u \in Users :
              \/ \E t \in Tasks : StartOnTask(w, u, t)
              \/ \E c \in Comments : StartErase(w, u, c)

Spec == Init /\ [][Next]_vars

-----------------------------------------------------------------------------
TypeOK ==
    /\ MembersTypeOK
    /\ there \subseteq Tasks
    /\ comment \in [Comments -> [task : Tasks, author : Users] \cup {Unused, Gone}]
    /\ wpc \in [Writers -> {"idle", "access", "load", "comments", "task", "write", "commit"}]
    /\ wop \in [Writers -> {"none", "add", "erase", "delete"}]
    /\ user \in [Writers -> Users \cup {Unused}]
    /\ task \in [Writers -> Tasks \cup {Unused}]
    /\ note \in [Writers -> Comments \cup {Unused}]
    /\ doomed \in [Writers -> SUBSET Comments]
    /\ \A w \in Writers : /\ wpc[w] = "idle" => task[w] = Unused /\ note[w] = Unused
                          /\ wpc[w] \in {"load", "comments", "task"} => wop[w] = "delete"
    /\ ousted \subseteq {w \in Writers : wpc[w] \notin {"idle", "access"}}

\* A comment is written by its author and removed by him or with its task, and he
\* is a member when that commits, or has been removed since he was let in.
CommentsWereAllowed ==
    [][\A c \in Comments :
          comment'[c] # comment[c] =>
             LET author == IF c \in Written THEN comment[c].author ELSE comment'[c].author
             IN \/ c \in Written /\ comment[c].task \notin there'
                \/ \E w \in Writers :
                      /\ note[w] = c /\ user[w] = author
                      /\ author \in Members \/ w \in ousted]_comment

\* A comment is on a task that exists, however its insertion, its deletion and
\* the deletion of the task overlap: none outlives its task.
NoOrphans == \A c \in Written : comment[c].task \in there

-----------------------------------------------------------------------------
\* Whoever is past his access check is a member, or has been removed since.
Entitled ==
    \A w \in Writers :
       /\ wpc[w] # "idle" => user[w] \in Users /\ task[w] \in Tasks
       /\ wpc[w] \notin {"idle", "access"} => user[w] \in Members \/ w \in ousted

\* A comment that is being inserted is on a task that nobody deletes, and its id
\* is no one else's.
InsertsHold ==
    \A w \in Writers :
       wop[w] = "add" /\ wpc[w] = "commit" =>
          /\ task[w] \in there
          /\ \A v \in Past("delete", {"commit"}) : task[v] # task[w]
          /\ note[w] \in Comments /\ comment[note[w]] = Unused
          /\ \A v \in Writers \ {w} : note[v] # note[w]

\* What a request deletes was loaded, and it is its author's, or on the task.
ErasesLoaded ==
    \A w \in Writers :
       /\ wop[w] = "erase" =>
             /\ note[w] \in Comments /\ comment[note[w]] # Unused
             /\ wpc[w] # "access" /\ note[w] \in Written => comment[note[w]].author = user[w]
       /\ \A c \in doomed[w] :
             comment[c] = Gone \/ (c \in Written /\ comment[c].task = task[w])

IInv == MembersIInv /\ TypeOK /\ Entitled /\ InsertsHold /\ ErasesLoaded /\ NoOrphans
=============================================================================
