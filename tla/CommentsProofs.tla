--------------------------- MODULE CommentsProofs ---------------------------
(***************************************************************************)
(* Proofs about Comments and the WorkspaceMembers under it, for any        *)
(* requests, users, memberships, tasks and comments.                       *)
(*                                                                         *)
(* The argument: two requests that add one user wait for each other at the *)
(* key, so that at most one of them gets past it while he has no row; a    *)
(* removal keeps the row it loaded, which is never one that was committed  *)
(* later.  A comment is inserted while nobody deletes its task, and a task *)
(* deleted while nobody inserts: the cascade finds all there are.          *)
(***************************************************************************)
EXTENDS Comments, TLAPS

USE RowStates, CommentStates

-----------------------------------------------------------------------------
\* Being a member is having a row.
LEMMA MembersHaveRows ==
    ASSUME NEW u
    PROVE  u \in Members <=> u \in Users /\ \E m \in Rows : member[m] = u
BY DEF Members, RowsOf

\* Nothing is committed yet.
LEMMA InitMembers == MembersInit => MembersIInv
<1>1. MembersInit => MembersTypeOK /\ AddsExclusive /\ RemovalsLoaded /\ UsersNamed
  BY DEF MembersInit, MembersTypeOK, AddsExclusive, RemovalsLoaded, UsersNamed
<1>2. MembersInit => OneMembership
  BY DEF MembersInit, OneMembership
<1>3. QED
  BY <1>1, <1>2 DEF MembersIInv

\* A request begins, or is over: no row changes.
LEMMA AdminStarts ==
    ASSUME MembersIInv, NEW a \in Admins, NEW u \in Users, StartAdd(a, u) \/ StartRemove(a, u)
    PROVE  MembersIInv' /\ UNCHANGED member
<1>1. UNCHANGED <<member, fresh>> /\ Members' = Members
  BY DEF StartAdd, StartRemove, Members, RowsOf
<1>2. MembersTypeOK'
  BY DEF MembersIInv, MembersTypeOK, StartAdd, StartRemove, Advance, RowsOf
<1>3. OneMembership'
  BY <1>1 DEF MembersIInv, OneMembership
<1>4. AddsExclusive'
  <2>1. \A b \in Admins : apc'[b] = "commit" =>
           /\ apc[b] = "commit" /\ aop'[b] = aop[b]
           /\ mrow'[b] = mrow[b] /\ who'[b] = who[b]
    BY DEF MembersIInv, MembersTypeOK, StartAdd, StartRemove, Advance
  <2>2. QED
    BY <1>1, <2>1 DEF MembersIInv, AddsExclusive
<1>5. RemovalsLoaded'
  <2>1. CASE StartAdd(a, u)
    BY <2>1 DEF MembersIInv, MembersTypeOK, RemovalsLoaded, UsersNamed, StartAdd, Advance
  <2>2. CASE StartRemove(a, u)
    BY <2>2 DEF MembersIInv, MembersTypeOK, RemovalsLoaded, UsersNamed, StartRemove, Advance, RowsOf
  <2>3. QED
    BY <2>1, <2>2
<1>6. UsersNamed'
  BY DEF MembersIInv, MembersTypeOK, UsersNamed, StartAdd, StartRemove, Advance
<1>7. QED
  BY <1>1, <1>2, <1>3, <1>4, <1>5, <1>6 DEF MembersIInv

\* A statement is executed: an insert has the key to itself.
LEMMA AdminWrites ==
    ASSUME MembersIInv, NEW a \in Admins, Insert(a) \/ Erase(a)
    PROVE  MembersIInv' /\ UNCHANGED member
<1>1. UNCHANGED <<member, aop, who, fresh>> /\ Members' = Members
  BY DEF Insert, Erase, Members, RowsOf
<1>2. MembersTypeOK' /\ OneMembership'
  BY <1>1 DEF MembersIInv, MembersTypeOK, OneMembership, Insert, Erase, Advance
<1>3. CASE Insert(a)
  <2>1. PICK m \in Rows : member[m] = Unused /\ m \notin Unsettled("add")
                          /\ mrow' = [mrow EXCEPT ![a] = m]
    BY <1>3 DEF Insert
  <2>2. who[a] \in Users \ Members
    BY <1>3 DEF MembersIInv, MembersTypeOK, Insert, Advance, UsersNamed
  <2>3. QED
    BY <1>1, <1>2, <1>3, <2>1, <2>2
    DEF MembersIInv, MembersTypeOK, AddsExclusive, RemovalsLoaded, UsersNamed, Insert, Advance, KeyFree,
        Unsettled
<1>4. CASE Erase(a)
  BY <1>1, <1>2, <1>4
  DEF MembersIInv, MembersTypeOK, AddsExclusive, RemovalsLoaded, UsersNamed, Erase, Advance
<1>5. QED
  BY <1>1, <1>3, <1>4

\* A request is over without a commit, or refused.
LEMMA AdminLeaves ==
    ASSUME MembersIInv, NEW a \in Admins, Duplicate(a) \/ Abort(a)
    PROVE  MembersIInv' /\ UNCHANGED member
<1>1. UNCHANGED member /\ Members' = Members
  BY DEF Duplicate, Abort, Members, RowsOf
<1>2. /\ apc' = [apc EXCEPT ![a] = "idle"] /\ aop' = [aop EXCEPT ![a] = "none"]
      /\ who' = [who EXCEPT ![a] = Unused] /\ mrow' = [mrow EXCEPT ![a] = Unused]
  BY DEF Duplicate, Abort, Leave
<1>3. fresh' = [fresh EXCEPT ![a] = {}]
  <2>1. CASE Duplicate(a)
    BY <2>1 DEF MembersIInv, MembersTypeOK, RemovalsLoaded, Duplicate
  <2>2. CASE Abort(a)
    BY <2>2 DEF Abort
  <2>3. QED
    BY <2>1, <2>2
<1>4. QED
  BY <1>1, <1>2, <1>3 DEF MembersIInv, MembersTypeOK, OneMembership, AddsExclusive, RemovalsLoaded,
                          UsersNamed

\* A membership is committed: nobody else has the row or the user by now.
LEMMA AdminAdds ==
    ASSUME MembersIInv, NEW a \in Admins, CommitAdd(a)
    PROVE  /\ MembersIInv'
           /\ \A m \in Rows : member'[m] # member[m] => member[m] = Unused
<1>. DEFINE m0 == mrow[a]
            u0 == who[a]
<1>1. /\ m0 \in Rows /\ member[m0] = Unused /\ u0 \in Users /\ u0 \notin Members
      /\ \A b \in Admins \ {a} : apc[b] = "commit" /\ aop[b] = "add" =>
                                    who[b] # u0 /\ mrow[b] # m0
  BY DEF MembersIInv, AddsExclusive, CommitAdd
<1>2. /\ member' = [member EXCEPT ![m0] = u0]
      /\ apc' = [apc EXCEPT ![a] = "idle"] /\ aop' = [aop EXCEPT ![a] = "none"]
      /\ who' = [who EXCEPT ![a] = Unused] /\ mrow' = [mrow EXCEPT ![a] = Unused]
      /\ fresh' = [b \in Admins |-> IF aop[b] = "remove" THEN fresh[b] \cup {m0} ELSE fresh[b]]
      /\ apc[a] = "commit" /\ aop[a] = "add"
  BY DEF CommitAdd, Leave
<1>3. MembersTypeOK' /\ UsersNamed'
  BY <1>1, <1>2 DEF MembersIInv, MembersTypeOK, UsersNamed
<1>4. OneMembership'
  BY <1>1, <1>2, MembersHaveRows DEF MembersIInv, MembersTypeOK, OneMembership
<1>5. \A u : u \in Members' => u \in Members \/ u = u0
  BY <1>1, <1>2 DEF Members, RowsOf, MembersIInv, MembersTypeOK
<1>6. AddsExclusive'
  BY <1>1, <1>2, <1>5 DEF MembersIInv, MembersTypeOK, AddsExclusive
<1>7. RemovalsLoaded'
  BY <1>1, <1>2 DEF MembersIInv, MembersTypeOK, RemovalsLoaded
<1>8. QED
  BY <1>1, <1>2, <1>3, <1>4, <1>6, <1>7 DEF MembersIInv, MembersTypeOK

\* A membership is deleted: the one that was loaded.
LEMMA AdminRemoves ==
    ASSUME MembersIInv, NEW a \in Admins, CommitRemove(a)
    PROVE  /\ MembersIInv'
           /\ mrow[a] \notin fresh[a]
           /\ \A m \in Rows : member'[m] # member[m] => m = mrow[a]
<1>1. mrow[a] \in Rows /\ member[mrow[a]] # Unused /\ mrow[a] \notin fresh[a]
  BY DEF MembersIInv, RemovalsLoaded, CommitRemove
<1>2. /\ member' = [member EXCEPT ![mrow[a]] = Gone]
      /\ apc' = [apc EXCEPT ![a] = "idle"] /\ aop' = [aop EXCEPT ![a] = "none"]
      /\ who' = [who EXCEPT ![a] = Unused] /\ mrow' = [mrow EXCEPT ![a] = Unused]
      /\ fresh' = [fresh EXCEPT ![a] = {}]
  BY DEF CommitRemove, Leave
<1>3. MembersTypeOK' /\ UsersNamed'
  BY <1>1, <1>2 DEF MembersIInv, MembersTypeOK, UsersNamed
<1>4. OneMembership'
  BY <1>1, <1>2 DEF MembersIInv, MembersTypeOK, OneMembership
<1>5. \A u : u \in Members' => u \in Members
  BY <1>1, <1>2 DEF Members, RowsOf, MembersIInv, MembersTypeOK
<1>6. AddsExclusive'
  BY <1>1, <1>2, <1>5 DEF MembersIInv, MembersTypeOK, AddsExclusive
<1>7. RemovalsLoaded'
  BY <1>1, <1>2 DEF MembersIInv, MembersTypeOK, RemovalsLoaded
<1>8. QED
  BY <1>1, <1>2, <1>3, <1>4, <1>6, <1>7 DEF MembersIInv, MembersTypeOK

\* Every step of the owner's requests keeps the invariant, and takes a membership
\* away only from the removal that has loaded it.
LEMMA MembersKeep ==
    ASSUME MembersIInv, MembersNext
    PROVE  /\ MembersIInv'
           /\ \A m \in Rows : member[m] \in Users /\ member'[m] # member[m] =>
                 \E a \in Admins : mrow[a] = m /\ m \notin fresh[a]
BY AdminStarts, AdminWrites, AdminLeaves, AdminAdds, AdminRemoves DEF MembersNext

-----------------------------------------------------------------------------
\* The part of IInv that is about comments and tasks.
WritersIInv == TypeOK /\ Entitled /\ InsertsHold /\ ErasesLoaded /\ NoOrphans

\* Requests about comments leave the memberships alone.
LEMMA MembersStay ==
    ASSUME MembersIInv, UNCHANGED memberVars
    PROVE  MembersIInv' /\ Members' = Members
BY DEF memberVars, adminVars, MembersIInv, MembersTypeOK, OneMembership, AddsExclusive,
       RemovalsLoaded, UsersNamed, Members, RowsOf

\* No request has begun.
LEMMA InitWriters == Init => WritersIInv
<1>1. Init => MembersTypeOK
  BY InitMembers DEF Init, MembersIInv
<1>2. Init => TypeOK /\ Entitled /\ InsertsHold
  BY <1>1 DEF Init, TypeOK, Entitled, InsertsHold, Past
<1>3. Init => ErasesLoaded /\ NoOrphans
  BY DEF Init, ErasesLoaded, NoOrphans, Written
<1>4. QED
  BY <1>2, <1>3 DEF WritersIInv

\* A request finds its task or its comment.
LEMMA WriterStarts ==
    ASSUME WritersIInv, MembersIInv, NEW w \in Writers, NEW u \in Users,
           (\E t \in Tasks : StartOnTask(w, u, t)) \/ (\E c \in Comments : StartErase(w, u, c))
    PROVE  WritersIInv' /\ MembersIInv' /\ UNCHANGED comment
<1>. USE DEF WritersIInv, Goto
<1>1. UNCHANGED <<memberVars, there, comment, doomed, ousted>>
  BY DEF StartOnTask, StartErase
<1>2. MembersIInv' /\ Members' = Members
  BY <1>1, MembersStay
<1>3. /\ wpc[w] = "idle" /\ wpc' = [wpc EXCEPT ![w] = "access"]
      /\ user' = [user EXCEPT ![w] = u]
  BY DEF StartOnTask, StartErase
<1>4. CASE \E t \in Tasks : StartOnTask(w, u, t)
  <2>1. PICK t \in Tasks : StartOnTask(w, u, t)
    BY <1>4
  <2>2. /\ t \in there /\ task' = [task EXCEPT ![w] = t] /\ UNCHANGED note
        /\ wop' \in {[wop EXCEPT ![w] = "add"], [wop EXCEPT ![w] = "delete"]}
    BY <2>1 DEF StartOnTask
  <2>3. TypeOK' /\ Entitled'
    BY <1>1, <1>2, <1>3, <2>2 DEF TypeOK, Entitled, MembersIInv
  <2>4. InsertsHold'
    BY <1>1, <1>3, <2>2 DEF TypeOK, InsertsHold, Past
  <2>5. ErasesLoaded' /\ NoOrphans'
    BY <1>1, <1>3, <2>2 DEF TypeOK, ErasesLoaded, NoOrphans, Written
  <2>6. QED
    BY <1>1, <1>2, <2>3, <2>4, <2>5
<1>5. CASE \E c \in Comments : StartErase(w, u, c)
  <2>1. PICK c \in Comments : StartErase(w, u, c)
    BY <1>5
  <2>2. /\ c \in Written /\ task' = [task EXCEPT ![w] = comment[c].task]
        /\ note' = [note EXCEPT ![w] = c] /\ wop' = [wop EXCEPT ![w] = "erase"]
    BY <2>1 DEF StartErase
  <2>3. comment[c].task \in Tasks /\ comment[c] # Unused
    BY <2>2 DEF Written, TypeOK
  <2>4. TypeOK' /\ Entitled'
    BY <1>1, <1>2, <1>3, <2>2, <2>3 DEF TypeOK, Entitled, MembersIInv
  <2>5. InsertsHold'
    BY <1>1, <1>3, <2>2, <2>3 DEF TypeOK, InsertsHold, Past
  <2>6. ErasesLoaded' /\ NoOrphans'
    BY <1>1, <1>3, <2>2, <2>3 DEF TypeOK, ErasesLoaded, NoOrphans, Written
  <2>7. QED
    BY <1>1, <1>2, <2>4, <2>5, <2>6
<1>6. QED
  BY <1>4, <1>5

\* A request is over and has written nothing.
LEMMA WriterEnds ==
    ASSUME WritersIInv, MembersIInv, NEW w \in Writers,
           Deny(w) \/ ForeignKeyFails(w) \/ AbortWriter(w)
    PROVE  WritersIInv' /\ MembersIInv' /\ UNCHANGED comment
<1>. USE DEF WritersIInv
<1>1. UNCHANGED <<memberVars, there, comment>> /\ End(w)
  BY DEF Deny, ForeignKeyFails, AbortWriter
<1>2. MembersIInv' /\ Members' = Members
  BY <1>1, MembersStay
<1>3. TypeOK' /\ Entitled'
  BY <1>1, <1>2 DEF TypeOK, Entitled, MembersIInv, End
<1>4. InsertsHold'
  BY <1>1 DEF TypeOK, InsertsHold, Past, End
<1>5. ErasesLoaded' /\ NoOrphans'
  BY <1>1 DEF TypeOK, ErasesLoaded, NoOrphans, Written, End
<1>6. QED
  BY <1>1, <1>2, <1>3, <1>4, <1>5

\* The access check lets the request in.
LEMMA WriterAdmitted ==
    ASSUME WritersIInv, MembersIInv, NEW w \in Writers, Admit(w)
    PROVE  WritersIInv' /\ MembersIInv' /\ UNCHANGED comment
<1>. USE DEF WritersIInv, Goto
<1>1. UNCHANGED <<memberVars, there, comment, wop, user, task, note, doomed, ousted>>
  BY DEF Admit
<1>2. MembersIInv' /\ Members' = Members
  BY <1>1, MembersStay
<1>3. TypeOK'
  BY <1>1, <1>2 DEF TypeOK, MembersIInv, Admit
<1>4. Entitled'
  BY <1>1, <1>2 DEF TypeOK, Entitled, Admit
<1>5. InsertsHold'
  BY <1>1 DEF TypeOK, InsertsHold, Past, Admit
<1>6. ErasesLoaded' /\ NoOrphans'
  BY <1>1 DEF TypeOK, ErasesLoaded, NoOrphans, Written, Admit
<1>7. QED
  BY <1>1, <1>2, <1>3, <1>4, <1>5, <1>6

\* A comment is inserted: nobody deletes its task, and its id is a fresh one.
LEMMA WriterInserts ==
    ASSUME WritersIInv, MembersIInv, NEW w \in Writers, InsertComment(w)
    PROVE  WritersIInv' /\ MembersIInv' /\ UNCHANGED comment
<1>. USE DEF WritersIInv, Goto
<1>1. /\ UNCHANGED <<memberVars, there, comment, wop, user, task, doomed, ousted>>
      /\ wop[w] = "add" /\ wpc[w] = "write" /\ wpc' = [wpc EXCEPT ![w] = "commit"]
      /\ Deleting(task[w]) = {} /\ task[w] \in there
  BY DEF InsertComment
<1>2. PICK c \in Comments : /\ comment[c] = Unused /\ \A v \in Writers : note[v] # c
                            /\ note' = [note EXCEPT ![w] = c]
  BY DEF InsertComment, Add
<1>3. MembersIInv' /\ Members' = Members
  BY <1>1, MembersStay
<1>4. TypeOK' /\ Entitled'
  BY <1>1, <1>2, <1>3 DEF TypeOK, Entitled, MembersIInv
<1>5. \A v \in Past("delete", {"commit"}) : task[v] # task[w]
  BY <1>1 DEF Deleting
<1>6. InsertsHold'
  BY <1>1, <1>2, <1>5 DEF TypeOK, InsertsHold, Past
<1>7. ErasesLoaded' /\ NoOrphans'
  BY <1>1, <1>2 DEF TypeOK, ErasesLoaded, NoOrphans, Written
<1>8. QED
  BY <1>1, <1>3, <1>4, <1>6, <1>7

\* A deletion goes on: the task goes only when no insert on it is under way.
LEMMA WriterErases ==
    ASSUME WritersIInv, MembersIInv, NEW w \in Writers,
           EraseComment(w) \/ LoadComments(w) \/ EraseComments(w) \/ EraseTask(w)
    PROVE  WritersIInv' /\ MembersIInv' /\ UNCHANGED comment
<1>. USE DEF WritersIInv, Goto
<1>1. UNCHANGED <<memberVars, there, comment, wop, user, task, note, ousted>>
  BY DEF EraseComment, LoadComments, EraseComments, EraseTask
<1>2. MembersIInv' /\ Members' = Members
  BY <1>1, MembersStay
<1>3. \A v \in Writers \ {w} : wpc'[v] = wpc[v]
  BY DEF TypeOK, EraseComment, LoadComments, EraseComments, EraseTask
<1>4. doomed' \in {doomed, [doomed EXCEPT ![w] = On(task[w])]}
  BY DEF EraseComment, LoadComments, EraseComments, EraseTask
<1>5. wpc[w] \notin {"idle", "access"} /\ wpc'[w] \notin {"idle", "access"}
  BY DEF TypeOK, EraseComment, LoadComments, EraseComments, EraseTask
<1>6. TypeOK'
  <2>1. On(task[w]) \subseteq Comments
    BY DEF On, Written
  <2>2. wpc' \in [Writers -> {"idle", "access", "load", "comments", "task", "write", "commit"}]
    BY DEF TypeOK, EraseComment, LoadComments, EraseComments, EraseTask
  <2>3. doomed' \in [Writers -> SUBSET Comments]
    BY <1>4, <2>1 DEF TypeOK
  <2>4. wpc'[w] \in {"load", "comments", "task"} => wop[w] = "delete"
    BY DEF TypeOK, EraseComment, LoadComments, EraseComments, EraseTask
  <2>5. \A v \in Writers :
           /\ wpc'[v] = "idle" => task'[v] = Unused /\ note'[v] = Unused
           /\ wpc'[v] \in {"load", "comments", "task"} => wop'[v] = "delete"
    BY <1>1, <1>3, <1>5, <2>4 DEF TypeOK
  <2>6. ousted' \subseteq {v \in Writers : wpc'[v] \notin {"idle", "access"}}
    BY <1>1, <1>3, <1>5 DEF TypeOK
  <2>7. QED
    BY <1>1, <1>2, <2>2, <2>3, <2>5, <2>6 DEF TypeOK, MembersIInv
<1>7. Entitled'
  BY <1>1, <1>2, <1>3, <1>5 DEF TypeOK, Entitled
<1>8. InsertsHold'
  <2>1. CASE EraseTask(w)
    <3>1. wpc' = [wpc EXCEPT ![w] = "commit"] /\ wpc[w] = "task"
          /\ (task[w] \in there => Inserting(task[w]) = {})
      BY <2>1 DEF EraseTask
    <3>2. \A v \in Writers : wop[v] = "add" /\ wpc[v] = "commit" => task[v] # task[w]
      BY <3>1 DEF Inserting, InsertsHold, Past
    <3>3. wop[w] # "add"
      BY <3>1 DEF TypeOK
    <3>4. QED
      BY <1>1, <3>1, <3>2, <3>3 DEF TypeOK, InsertsHold, Past
  <2>2. CASE ~EraseTask(w)
    <3>1. wop[w] # "add" /\ ~(wop[w] = "delete" /\ wpc'[w] = "commit")
      BY <2>2 DEF TypeOK, EraseComment, LoadComments, EraseComments
    <3>2. QED
      BY <1>1, <1>3, <3>1 DEF TypeOK, InsertsHold, Past
  <2>3. QED
    BY <2>1, <2>2
<1>9. ErasesLoaded'
  <2>1. \A v \in Writers : wpc'[v] = "access" <=> wpc[v] = "access"
    BY <1>3, <1>5
  <2>2. QED
    BY <1>1, <1>4, <2>1 DEF TypeOK, ErasesLoaded, Written, On
<1>10. NoOrphans'
  BY <1>1 DEF NoOrphans, Written
<1>11. QED
  BY <1>1, <1>2, <1>6, <1>7, <1>8, <1>9, <1>10

\* The comment is there: its task still is, and its id was nobody else's.
LEMMA CommentCommits ==
    ASSUME WritersIInv, MembersIInv, NEW w \in Writers, CommitComment(w)
    PROVE  /\ WritersIInv' /\ MembersIInv'
           /\ user[w] \in Members \/ w \in ousted
           /\ comment[note[w]] = Unused
           /\ comment' = [comment EXCEPT ![note[w]] = [task |-> task[w], author |-> user[w]]]
<1>. USE DEF WritersIInv
<1>1. /\ UNCHANGED <<memberVars, there>> /\ End(w)
      /\ comment' = [comment EXCEPT ![note[w]] = [task |-> task[w], author |-> user[w]]]
      /\ wop[w] = "add" /\ wpc[w] = "commit"
  BY DEF CommitComment
<1>2. /\ task[w] \in there /\ note[w] \in Comments /\ comment[note[w]] = Unused
      /\ user[w] \in Users /\ (user[w] \in Members \/ w \in ousted)
      /\ \A v \in Writers \ {w} : note[v] # note[w]
  BY <1>1 DEF InsertsHold, Entitled
<1>3. MembersIInv' /\ Members' = Members
  BY <1>1, MembersStay
<1>4. TypeOK' /\ Entitled'
  <2>1. [task |-> task[w], author |-> user[w]] \in [task : Tasks, author : Users]
    BY <1>2 DEF TypeOK
  <2>2. comment' \in [Comments -> [task : Tasks, author : Users] \cup {Unused, Gone}]
    BY <1>1, <2>1 DEF TypeOK
  <2>3. TypeOK'
    BY <1>1, <1>3, <2>2 DEF TypeOK, End, MembersIInv
  <2>4. Entitled'
    BY <1>1, <1>3 DEF TypeOK, End, Entitled
  <2>5. QED
    BY <2>3, <2>4
<1>5. \A c \in Comments : c # note[w] => comment'[c] = comment[c]
  BY <1>1 DEF TypeOK
<1>6. InsertsHold'
  BY <1>1, <1>2, <1>5 DEF TypeOK, InsertsHold, Past, End
<1>7. ErasesLoaded'
  BY <1>1, <1>2, <1>5 DEF TypeOK, ErasesLoaded, Written, End
<1>8. NoOrphans'
  <2>1. comment'[note[w]].task = task[w]
    BY <1>1, <1>2 DEF TypeOK
  <2>2. QED
    BY <1>1, <1>2, <1>5, <2>1 DEF NoOrphans, Written
<1>9. QED
  BY <1>1, <1>2, <1>3, <1>4, <1>6, <1>7, <1>8

\* The author's own comment is gone.
LEMMA EraseCommits ==
    ASSUME WritersIInv, MembersIInv, NEW w \in Writers, CommitErase(w)
    PROVE  /\ WritersIInv' /\ MembersIInv'
           /\ user[w] \in Members \/ w \in ousted
           /\ note[w] \in Written => comment[note[w]].author = user[w]
           /\ comment[note[w]] # Unused
           /\ comment' = [comment EXCEPT ![note[w]] = Gone]
<1>. USE DEF WritersIInv
<1>1. /\ UNCHANGED <<memberVars, there>> /\ End(w)
      /\ comment' = [comment EXCEPT ![note[w]] = Gone]
      /\ wop[w] = "erase" /\ wpc[w] = "commit"
  BY DEF CommitErase
<1>2. /\ note[w] \in Comments /\ comment[note[w]] # Unused
      /\ user[w] \in Members \/ w \in ousted
      /\ note[w] \in Written => comment[note[w]].author = user[w]
  BY <1>1 DEF ErasesLoaded, Entitled
<1>3. MembersIInv' /\ Members' = Members
  BY <1>1, MembersStay
<1>4. TypeOK' /\ Entitled'
  BY <1>1, <1>2, <1>3 DEF TypeOK, End, Entitled, MembersIInv
<1>5. InsertsHold'
  BY <1>1, <1>2 DEF TypeOK, InsertsHold, Past, End
<1>6. ErasesLoaded' /\ NoOrphans'
  BY <1>1, <1>2 DEF TypeOK, ErasesLoaded, NoOrphans, Written, End
<1>7. QED
  BY <1>1, <1>2, <1>3, <1>4, <1>5, <1>6

\* The task is gone, and so are all its comments.
LEMMA DeleteCommits ==
    ASSUME WritersIInv, MembersIInv, NEW w \in Writers, CommitDelete(w)
    PROVE  /\ WritersIInv' /\ MembersIInv'
           /\ \A c \in Comments : comment'[c] # comment[c] =>
                 c \in Written /\ comment[c].task \notin there'
<1>. USE DEF WritersIInv
<1>1. /\ UNCHANGED memberVars /\ End(w) /\ there' = there \ {task[w]}
      /\ comment' = [c \in Comments |->
                        IF c \in On(task[w]) \cup doomed[w] THEN Gone ELSE comment[c]]
      /\ wop[w] = "delete" /\ wpc[w] = "commit"
  BY DEF CommitDelete
<1>2. \A c \in doomed[w] : comment[c] = Gone \/ c \in On(task[w])
  BY DEF ErasesLoaded, On
<1>3. \A c \in Comments : /\ comment'[c] # comment[c] => c \in On(task[w])
                          /\ comment'[c] = comment[c] \/ comment'[c] = Gone
  BY <1>1, <1>2
<1>4. MembersIInv' /\ Members' = Members
  BY <1>1, MembersStay
<1>5. TypeOK' /\ Entitled'
  <2>1. comment' \in [Comments -> [task : Tasks, author : Users] \cup {Unused, Gone}]
    BY <1>1 DEF TypeOK
  <2>2. TypeOK'
    BY <1>1, <1>4, <2>1 DEF TypeOK, End, MembersIInv
  <2>3. Entitled'
    BY <1>1, <1>4 DEF TypeOK, End, Entitled
  <2>4. QED
    BY <2>2, <2>3
<1>6. InsertsHold'
  <2>1. w \in Past("delete", {"commit"})
    BY <1>1 DEF Past
  <2>2. \A v \in Writers : wop[v] = "add" /\ wpc[v] = "commit" =>
           task[v] \in there' /\ comment'[note[v]] = Unused
    BY <1>1, <1>3, <2>1 DEF InsertsHold, On, Written
  <2>3. \A v \in Writers : wop'[v] = "add" /\ wpc'[v] = "commit" =>
           /\ v # w /\ wop[v] = "add" /\ wpc[v] = "commit"
           /\ task'[v] = task[v] /\ note'[v] = note[v]
    BY <1>1 DEF TypeOK, End
  <2>4. \A v \in Past("delete", {"commit"})' :
           v \in Past("delete", {"commit"}) /\ task'[v] = task[v]
    BY <1>1 DEF TypeOK, End, Past
  <2>5. \A v \in Writers : note'[v] \in {note[v], Unused}
    BY <1>1 DEF TypeOK, End
  <2>6. QED
    BY <2>2, <2>3, <2>4, <2>5 DEF InsertsHold
<1>7. ErasesLoaded'
  BY <1>1, <1>3 DEF TypeOK, ErasesLoaded, On, Written, End
<1>8. NoOrphans'
  BY <1>1, <1>3 DEF NoOrphans, On, Written
<1>9. QED
  BY <1>1, <1>3, <1>4, <1>5, <1>6, <1>7, <1>8 DEF On

\* Members come and go: a request whose user goes is noted.
LEMMA MembersMove ==
    ASSUME WritersIInv, MembersIInv, MembersChange
    PROVE  WritersIInv' /\ MembersIInv' /\ UNCHANGED comment
<1>. USE DEF WritersIInv
<1>1. UNCHANGED <<there, comment, wpc, wop, user, task, note, doomed>>
  BY DEF MembersChange, writerVars
<1>2. MembersIInv'
  BY MembersKeep DEF MembersChange
<1>3. ousted' = ousted \cup {w \in Writers : /\ wpc[w] \notin {"idle", "access"}
                                             /\ user[w] \in Members \ Members'}
  BY DEF MembersChange
<1>4. TypeOK'
  BY <1>1, <1>2, <1>3 DEF TypeOK, MembersIInv
<1>5. Entitled'
  BY <1>1, <1>3 DEF Entitled
<1>6. InsertsHold' /\ ErasesLoaded' /\ NoOrphans'
  BY <1>1 DEF InsertsHold, ErasesLoaded, NoOrphans, Written, Past
<1>7. QED
  BY <1>1, <1>2, <1>4, <1>5, <1>6

\* A step that changes nothing.
LEMMA CommentsStutter ==
    ASSUME WritersIInv, MembersIInv, UNCHANGED vars
    PROVE  WritersIInv' /\ MembersIInv' /\ UNCHANGED comment
<1>1. UNCHANGED <<memberVars, there, comment, wpc, wop, user, task, note, doomed, ousted>>
  BY DEF vars, writerVars
<1>2. MembersIInv' /\ Members' = Members
  BY <1>1, MembersStay
<1>3. WritersIInv'
  BY <1>1, <1>2 DEF WritersIInv, TypeOK, Entitled, InsertsHold, ErasesLoaded, NoOrphans, Written,
                    Past, MembersIInv
<1>4. QED
  BY <1>1, <1>2, <1>3

-----------------------------------------------------------------------------
\* What each step of Comments keeps, and whose each change of a comment is.
LEMMA StepKeeps ==
    ASSUME WritersIInv, MembersIInv, [Next]_vars
    PROVE  WritersIInv' /\ MembersIInv'
BY CommentsStutter, MembersMove, WriterStarts, WriterEnds, WriterAdmitted, WriterInserts,
   WriterErases, CommentCommits, EraseCommits, DeleteCommits DEF Next, Step

\* The inductive invariant of comments and memberships (comment_service.py,
\* workspace_membership_service.py).
THEOREM Invariance == Spec => []IInv
<1>1. Init => WritersIInv /\ MembersIInv
  BY InitWriters, InitMembers DEF Init
<1>2. WritersIInv /\ MembersIInv /\ [Next]_vars => (WritersIInv /\ MembersIInv)'
  BY StepKeeps
<1>3. WritersIInv /\ MembersIInv <=> IInv
  BY DEF IInv, WritersIInv
<1>4. QED
  BY <1>1, <1>2, <1>3, PTL DEF Spec

\* Every variable keeps its type.
THEOREM TypeCorrectness == Spec => []TypeOK
<1>1. IInv => TypeOK
  BY DEF IInv
<1>2. QED
  BY Invariance, <1>1, PTL

\* A user is a member once, however his additions overlap (add_member).
THEOREM MembersOnce == Spec => []OneMembership
<1>1. IInv => OneMembership
  BY DEF IInv, MembersIInv
<1>2. QED
  BY Invariance, <1>1, PTL

\* No comment outlives its task (add_comment, delete_task).
THEOREM CommentsHaveTasks == Spec => []NoOrphans
<1>1. IInv => NoOrphans
  BY DEF IInv
<1>2. QED
  BY Invariance, <1>1, PTL

\* A comment changes only by its author, who was let in, or with its task
\* (delete_comment).
THEOREM CommentsAreTheirAuthors == Spec => CommentsWereAllowed
<1>1. ASSUME WritersIInv, MembersIInv, [Next]_vars,
             NEW c \in Comments, comment'[c] # comment[c]
      PROVE  LET author == IF c \in Written THEN comment[c].author ELSE comment'[c].author
             IN \/ c \in Written /\ comment[c].task \notin there'
                \/ \E w \in Writers : /\ note[w] = c /\ user[w] = author
                                      /\ author \in Members \/ w \in ousted
  <2>1. ASSUME NEW w \in Writers, CommitComment(w)
        PROVE  /\ note[w] = c /\ c \notin Written /\ comment'[c].author = user[w]
               /\ user[w] \in Members \/ w \in ousted
    BY <1>1, <2>1, CommentCommits DEF WritersIInv, TypeOK, Written
  <2>2. ASSUME NEW w \in Writers, CommitErase(w)
        PROVE  /\ note[w] = c /\ c \in Written /\ comment[c].author = user[w]
               /\ user[w] \in Members \/ w \in ousted
    BY <1>1, <2>2, EraseCommits DEF WritersIInv, TypeOK, Written
  <2>3. ASSUME NEW w \in Writers, CommitDelete(w)
        PROVE  c \in Written /\ comment[c].task \notin there'
    BY <1>1, <2>3, DeleteCommits
  <2>4. \E w \in Writers : CommitComment(w) \/ CommitErase(w) \/ CommitDelete(w)
    BY <1>1, CommentsStutter, MembersMove, WriterStarts, WriterEnds, WriterAdmitted,
       WriterInserts, WriterErases DEF Next, Step
  <2>5. QED
    BY <2>1, <2>2, <2>3, <2>4
<1>2. IInv => WritersIInv /\ MembersIInv
  BY DEF IInv, WritersIInv
<1>3. IInv /\ [Next]_vars =>
        [\A c \in Comments :
            comment'[c] # comment[c] =>
               LET author == IF c \in Written THEN comment[c].author ELSE comment'[c].author
               IN \/ c \in Written /\ comment[c].task \notin there'
                  \/ \E w \in Writers : /\ note[w] = c /\ user[w] = author
                                        /\ author \in Members \/ w \in ousted]_comment
  BY <1>1, <1>2
<1>4. QED
  BY Invariance, <1>3, PTL DEF Spec, CommentsWereAllowed

\* A removal takes the membership it has loaded, never a later one
\* (remove_member).
THEOREM RemovalsAreExact == Spec => RemovalIsExact
<1>1. ASSUME IInv, [Next]_vars, NEW m \in Rows, member[m] \in Users, member'[m] # member[m]
      PROVE  \E a \in Admins : mrow[a] = m /\ m \notin fresh[a]
  <2>1. CASE MembersChange
    BY <1>1, <2>1, MembersKeep DEF MembersChange, IInv
  <2>2. CASE ~MembersChange
    <3>1. UNCHANGED member
      BY <1>1, <2>2
      DEF Next, Step, vars, memberVars, StartOnTask, StartErase, Admit, Deny, InsertComment,
          ForeignKeyFails, EraseComment, LoadComments, EraseComments, EraseTask,
          CommitComment, CommitErase, CommitDelete, AbortWriter
    <3>2. QED
      BY <1>1, <3>1
  <2>3. QED
    BY <2>1, <2>2
<1>2. IInv /\ [Next]_vars =>
        [\A m \in Rows : member[m] \in Users /\ member'[m] # member[m] =>
            \E a \in Admins : mrow[a] = m /\ m \notin fresh[a]]_member
  BY <1>1
<1>3. QED
  BY Invariance, <1>2, PTL DEF Spec, RemovalIsExact

=============================================================================
