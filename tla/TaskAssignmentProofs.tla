------------------------ MODULE TaskAssignmentProofs ------------------------
(***************************************************************************)
(* Proofs about TaskAssignment, for any requests, accounts and payloads.   *)
(*                                                                         *)
(* The inductive invariant IInv adds to the types: what each kind of       *)
(* request may be doing (Kinds), who holds the row lock (RowLock), that    *)
(* what was checked holds up to the commit but for removals (Checked), and *)
(* that a request about to change the assignee has its notice (Noticed).   *)
(* RowLock carries the rest: as long as a request has an UPDATE that is    *)
(* not committed, no one else changes the row or deletes it, so the row    *)
(* that Refresh compares is the one that is committed.                     *)
(***************************************************************************)
EXTENDS TaskAssignment, TLAPS

-----------------------------------------------------------------------------
(* Rows and payloads.                                                      *)

\* The copy of a request that has loaded nothing is a row.
LEMMA BlankIsRow == Blank \in Rows
<1>1. (CHOOSE t \in Titles : TRUE) \in Titles
  BY Accounts
<1>2. \A c \in Columns : Blank[c] \in Value(c)
  BY <1>1 DEF Blank, Value, Columns
<1> QED
  BY <1>2 DEF Rows, Blank, Value, Columns

\* A payload (TaskCreate, TaskUpdate) gives values to columns.
LEMMA PayloadColumns ==
  ASSUME TypeOK, NEW r \in Requests
  PROVE  /\ DOMAIN patch[r] \subseteq Columns
         /\ \A c \in DOMAIN patch[r] : patch[r][c] \in Value(c)
<1>1. CASE patch[r] \in Patches
  BY <1>1, Payloads
<1>2. CASE patch[r] = NoPatch
  BY <1>2 DEF NoPatch
<1> QED
  BY <1>1, <1>2 DEF TypeOK

\* The row after the UPDATE of a request is a row.
LEMMA WrittenIsRow ==
  ASSUME TypeOK, NEW r \in Requests
  PROVE  Written(r) \in Rows
<1>1. \A c \in Columns : Written(r)[c] \in Value(c)
  BY PayloadColumns DEF Written, Dirty, TypeOK, Rows
<1> QED
  BY <1>1 DEF Rows, Written, Value, Columns

\* A request whose payload equals its copy writes nothing.
LEMMA CleanWrite ==
  ASSUME TypeOK, NEW r \in Requests, Dirty(r) = {}
  PROVE  Written(r) = row
<1>1. row \in [Columns -> Users \cup {Nobody} \cup Titles]
  BY DEF TypeOK, Rows
<1> QED
  BY <1>1 DEF Written

\* The row that a create inserts has a title.
LEMMA InsertedIsRow ==
  ASSUME TypeOK, NEW r \in Requests, Names(r, "title")
  PROVE  Inserted(r) \in Rows
<1>1. \A c \in Columns : Inserted(r)[c] \in Value(c)
  BY PayloadColumns DEF Inserted, Names, Columns, Value
<1> QED
  BY <1>1 DEF Rows, Inserted, Value, Columns

\* _register_assignment_notification names a user or nobody.
LEMMA NotifiesUser ==
  ASSUME TypeOK, NEW r \in Requests
  PROVE  Notify(r) \in Users \cup {Nobody}
BY PayloadColumns DEF Notify, Names, Value, Columns

-----------------------------------------------------------------------------
(* What a step leaves alone.                                               *)

\* Nothing changes for a request.
Stays(q) == /\ pc'[q] = pc[q] /\ op'[q] = op[q] /\ actor'[q] = actor[q]
            /\ patch'[q] = patch[q] /\ loaded'[q] = loaded[q]
            /\ notice'[q] = notice[q] /\ lapsed'[q] = lapsed[q]

\* The request is over.
Ended(r) == /\ pc'[r] = "idle" /\ op'[r] = "none" /\ patch'[r] = NoPatch
            /\ notice'[r] = Nobody /\ lapsed'[r] = {}

Starts(r) == \/ \E u \in Users : StartDelete(r, u)
             \/ \E u \in Users, p \in Patches :
                   StartCreate(r, u, p) \/ StartUpdate(r, u, p)

\* The end of a request changes no other request.
LEMMA EndStays ==
  ASSUME TypeOK, NEW r \in Requests, End(r)
  PROVE  Ended(r) /\ \A q \in Requests \ {r} : Stays(q)
BY DEF TypeOK, End, Ended, Stays

\* A step of a request changes no other request.
LEMMA StepStays ==
  ASSUME TypeOK, NEW r \in Requests, Step(r) \/ Starts(r)
  PROVE  \A q \in Requests \ {r} : Stays(q)
<1>1. CASE End(r)
  BY <1>1, EndStays
<1>2. CASE Load(r) \/ Admit(r) \/ Validate(r) \/ Insert(r) \/ Flush(r) \/ Refresh(r) \/ Erase(r)
  BY <1>2 DEF TypeOK, Stays, Goto, Load, Admit, Validate, Insert, Flush, Refresh, Erase
<1>3. CASE Committed(r)
  BY <1>3, EndStays DEF TypeOK, Stays, Goto, Committed
<1>4. CASE Starts(r)
  BY <1>4 DEF TypeOK, Stays, Goto, Starts, Start, StartCreate, StartUpdate, StartDelete
<1> QED
  BY <1>1, <1>2, <1>3, <1>4
  DEF Step, NotFound, Deny, RefuseAssignee, FlushFails, RefreshFails, Fail, Abort,
      Dispatch, CommitCreate, CommitUpdate, CommitDelete

-----------------------------------------------------------------------------
(* Types.                                                                  *)

\* Types and kinds before the first request.
LEMMA InitTypes == Init => TypeOK /\ Kinds
<1> SUFFICES ASSUME Init PROVE TypeOK /\ Kinds
  OBVIOUS
<1>1. TypeOK
  BY BlankIsRow DEF Init, TypeOK
<1>2. Kinds
  BY DEF Init, Kinds
<1> QED
  BY <1>1, <1>2

\* Types after the end of a request.
LEMMA EndTypes ==
  ASSUME TypeOK, NEW r \in Requests, End(r),
         life' \in {"unborn", "live", "gone"}, row' \in Rows,
         lock' \in Requests \cup {NoRequest}, UNCHANGED role
  PROVE  TypeOK'
BY BlankIsRow DEF TypeOK, End

\* Types after a rollback.
LEMMA FailTypes ==
  ASSUME TypeOK, NEW r \in Requests, Fail(r)
  PROVE  TypeOK'
<1>1. /\ End(r) /\ UNCHANGED <<life, row, role>>
      /\ lock' \in Requests \cup {NoRequest}
  BY DEF Fail, TypeOK, taskVars
<1> QED
  BY <1>1, EndTypes DEF TypeOK

\* Types after a commit, given those of the row.
LEMMA CommittedTypes ==
  ASSUME TypeOK, NEW r \in Requests, Committed(r),
         life' \in {"unborn", "live", "gone"}, row' \in Rows
  PROVE  TypeOK'
<1>1. lock' \in Requests \cup {NoRequest} /\ UNCHANGED role
  BY DEF Committed, TypeOK
<1>2. CASE End(r)
  BY <1>1, <1>2, EndTypes
<1>3. CASE Goto(r, "commit", "notify") /\ UNCHANGED <<op, actor, patch, loaded, notice, lapsed>>
  BY <1>1, <1>3 DEF TypeOK, Goto
<1> QED
  BY <1>2, <1>3 DEF Committed

\* Every step keeps the types.
LEMMA NextTypes == TypeOK /\ Kinds /\ [Next]_vars => TypeOK'
<1> SUFFICES ASSUME TypeOK, Kinds, [Next]_vars PROVE TypeOK'
  OBVIOUS
<1>1. ASSUME NEW r \in Requests, Step(r) PROVE TypeOK'
  <2>1. CASE Fail(r)
    BY <2>1, FailTypes
  <2>2. CASE Load(r)
    BY <2>2 DEF TypeOK, Load, Goto, taskVars
  <2>3. CASE Admit(r) \/ Validate(r)
    BY <2>3 DEF TypeOK, Admit, Validate, Goto, taskVars
  <2>4. CASE Insert(r) \/ Refresh(r)
    BY <2>4, NotifiesUser DEF TypeOK, Insert, Refresh, Goto, taskVars
  <2>5. CASE Flush(r) \/ Erase(r)
    BY <2>5 DEF TypeOK, Flush, Erase, Goto, taskVars
  <2>6. CASE CommitCreate(r)
    <3>1. Names(r, "title")
      BY <2>6 DEF Kinds, CommitCreate
    <3>2. life' = "live" /\ row' \in Rows /\ Committed(r)
      BY <2>6, <3>1, InsertedIsRow DEF CommitCreate
    <3> QED
      BY <3>2, CommittedTypes
  <2>7. CASE CommitUpdate(r)
    <3>1. life' = life /\ row' \in Rows /\ Committed(r)
      BY <2>7, WrittenIsRow DEF CommitUpdate
    <3> QED
      BY <3>1, CommittedTypes DEF TypeOK
  <2>8. CASE CommitDelete(r)
    <3>1. life' \in {life, "gone"} /\ row' = row /\ Committed(r)
      BY <2>8 DEF CommitDelete
    <3> QED
      BY <3>1, CommittedTypes DEF TypeOK
  <2>9. CASE Dispatch(r)
    <3>1. End(r) /\ UNCHANGED <<life, row, lock, role>>
      BY <2>9 DEF Dispatch, taskVars
    <3> QED
      BY <3>1, EndTypes DEF TypeOK
  <2> QED
    BY <1>1, <2>1, <2>2, <2>3, <2>4, <2>5, <2>6, <2>7, <2>8, <2>9
    DEF Step, NotFound, Deny, RefuseAssignee, FlushFails, RefreshFails, Abort
<1>2. ASSUME NEW r \in Requests, NEW kind \in {"create", "update", "delete"},
             NEW first \in {"load", "access"},
             NEW u \in Users, NEW p \in Patches \cup {NoPatch},
             Start(r, kind, first, u, p)
      PROVE  TypeOK'
  BY <1>2 DEF TypeOK, Start, Goto, taskVars
<1>3. ASSUME NEW r \in Requests, Starts(r) PROVE TypeOK'
  BY <1>2, <1>3 DEF Starts, StartCreate, StartUpdate, StartDelete
<1>4. ASSUME NEW u \in Users, RemoveMember(u) PROVE TypeOK'
  BY <1>4 DEF TypeOK, RemoveMember, taskVars, requestVars
<1>5. ASSUME NEW u \in Users, NEW as \in {"viewer", "editor"}, AddMember(u, as)
      PROVE  TypeOK'
  BY <1>5 DEF TypeOK, AddMember, taskVars, requestVars
<1>6. CASE UNCHANGED vars
  BY <1>6 DEF TypeOK, vars, taskVars, requestVars
<1> QED
  BY <1>1, <1>3, <1>4, <1>5, <1>6 DEF Next, Starts

-----------------------------------------------------------------------------
(* What a step does to the request that takes it, to the row and its lock. *)

\* A rollback (get_db) ends the request and gives up its row lock.
LEMMA FailEnds ==
  ASSUME TypeOK, NEW r \in Requests, Fail(r)
  PROVE  /\ Ended(r) /\ lock' # r /\ UNCHANGED <<life, row, role>>
         /\ \A q \in Requests \ {r} : lock' = q <=> lock = q
         /\ lock' \in {lock, NoRequest}
BY EndStays, Accounts DEF Fail, taskVars, TypeOK

\* A commit (get_db) gives up the row lock; a notice may be left to dispatch.
LEMMA CommittedEnds ==
  ASSUME TypeOK, NEW r \in Requests, pc[r] = "commit", Committed(r)
  PROVE  /\ lock' # r /\ lock' \in {lock, NoRequest} /\ UNCHANGED role
         /\ \A q \in Requests \ {r} : lock' = q <=> lock = q
         /\ \/ Ended(r)
            \/ /\ pc'[r] = "notify" /\ notice[r] # Nobody
               /\ UNCHANGED <<op, actor, patch, loaded, notice, lapsed>>
BY EndStays, Accounts DEF Committed, Goto, TypeOK

\* The steps of a request that end it or commit it.
Closes(r) == \/ Fail(r) \/ Dispatch(r)
             \/ CommitCreate(r) \/ CommitUpdate(r) \/ CommitDelete(r)

\* The other ones.
Works(r) == \/ Load(r) \/ Admit(r) \/ Validate(r) \/ Insert(r)
            \/ Flush(r) \/ Refresh(r) \/ Erase(r)

\* A step of a request closes it or works on it.
LEMMA Steps ==
  ASSUME NEW r \in Requests
  PROVE  Step(r) => Works(r) \/ Closes(r)
BY DEF Step, Works, Closes, NotFound, Deny, RefuseAssignee, FlushFails,
       RefreshFails, Abort

\* A closing step gives up the row lock of its request and no other.
LEMMA CloseEnds ==
  ASSUME TypeOK, NEW r \in Requests, Closes(r), Kinds, RowLock
  PROVE  /\ lock' # r /\ lock' \in {lock, NoRequest} /\ UNCHANGED role
         /\ \A q \in Requests \ {r} : lock' = q <=> lock = q
         /\ \/ Ended(r)
            \/ /\ pc'[r] = "notify" /\ notice[r] # Nobody /\ pc[r] = "commit"
               /\ UNCHANGED <<op, actor, patch, loaded, notice, lapsed>>
<1>1. CASE Fail(r)
  BY <1>1, FailEnds
<1>2. CASE Dispatch(r)
  <2>1. lock # r
    BY <1>2 DEF Dispatch, RowLock, Writing
  <2> QED
    BY <1>2, <2>1, EndStays DEF Dispatch, taskVars
<1>3. CASE CommitCreate(r) \/ CommitUpdate(r) \/ CommitDelete(r)
  BY <1>3, CommittedEnds DEF CommitCreate, CommitUpdate, CommitDelete
<1> QED
  BY <1>1, <1>2, <1>3 DEF Closes

\* A working step writes nothing that others see but the row lock.
LEMMA WorkKeeps ==
  ASSUME TypeOK, NEW r \in Requests, Works(r)
  PROVE  /\ UNCHANGED <<life, row, role>>
         /\ op'[r] = op[r] /\ actor'[r] = actor[r] /\ patch'[r] = patch[r]
         /\ lapsed'[r] = lapsed[r]
         /\ pc[r] \notin {"idle", "notify"} /\ pc'[r] \notin {"idle", "notify"}
         /\ lock' \in {lock, r}
         /\ \A q \in Requests \ {r} : lock' = q <=> lock = q
BY Accounts DEF TypeOK, Works, Load, Admit, Validate, Insert, Flush, Refresh, Erase,
                Goto, taskVars

-----------------------------------------------------------------------------
(* Kinds.                                                                  *)

\* The row appears by the commit of its create and goes only while it is there.
LEMMA LifeChanges ==
  ASSUME TypeOK, NEW r \in Requests, Step(r), RowLock
  PROVE  \/ life' = life
         \/ op[r] = "create" /\ pc[r] = "commit" /\ life' = "live"
         \/ life = "live"
<1>1. CASE Works(r)
  BY <1>1, WorkKeeps
<1>2. CASE Fail(r) \/ Dispatch(r) \/ CommitUpdate(r)
  BY <1>2 DEF Fail, Dispatch, CommitUpdate, taskVars
<1>3. CASE CommitCreate(r)
  BY <1>3 DEF CommitCreate
<1>4. CASE CommitDelete(r)
  BY <1>4, Accounts DEF CommitDelete, RowLock
<1> QED
  BY <1>1, <1>2, <1>3, <1>4, Steps DEF Closes

\* Every step keeps what a request does in line with where it is.
LEMMA NextKinds == TypeOK /\ Kinds /\ RowLock /\ [Next]_vars => Kinds'
<1> SUFFICES ASSUME TypeOK, Kinds, RowLock, [Next]_vars PROVE Kinds'
  OBVIOUS
<1>1. ASSUME NEW r \in Requests, Step(r) PROVE Kinds'
  <2>1. \A q \in Requests \ {r} : Stays(q)
    BY <1>1, StepStays
  <2>2. op'[r] \in {op[r], "none"}
    BY <1>1, Steps, WorkKeeps, CloseEnds DEF Ended
  <2>3. \A q \in Requests \ {r} : op[q] = "create" =>
           life = "unborn" \/ pc[q] = "notify"
    BY DEF Kinds
  <2>4. \A q \in Requests \ {r} : op[q] = "create" /\ pc[q] # "notify" => life' = "unborn"
    BY <1>1, <2>3, LifeChanges DEF Kinds
  <2>5. CASE Works(r)
    <3>1. op'[r] = "none" <=> pc'[r] = "idle"
      BY <2>5, WorkKeeps DEF Kinds
    <3>2. pc'[r] = "validate" => Names(r, "assignee")'
      BY <2>5 DEF TypeOK, Works, Load, Admit, Validate, Insert, Flush, Refresh, Erase,
                  Goto, Names
    <3>3. pc'[r] = "refresh" => op'[r] = "update"
      BY <2>5 DEF TypeOK, Works, Load, Admit, Validate, Insert, Flush, Refresh, Erase,
                  Goto
    <3>4. op'[r] = "create" => Names(r, "title")' /\ life' = "unborn"
      BY <2>5, WorkKeeps DEF Kinds, Names
    <3>5. op'[r] \in {"none", "delete"} => notice'[r] = Nobody
      BY <2>5 DEF Kinds, TypeOK, Works, Load, Admit, Validate, Insert, Flush, Refresh,
                  Erase, Goto
    <3> QED
      BY <2>1, <2>2, <2>4, <3>1, <3>2, <3>3, <3>4, <3>5 DEF Kinds, Stays, Names
  <2>6. CASE Closes(r)
    BY <2>1, <2>2, <2>4, <2>6, CloseEnds DEF Kinds, Stays, Names, Ended
  <2> QED
    BY <1>1, <2>5, <2>6, Steps
<1>2. ASSUME NEW r \in Requests, Starts(r) PROVE Kinds'
  <2>1. \A q \in Requests \ {r} : Stays(q)
    BY <1>2, StepStays
  <2>2. life' = life /\ op[r] = "none" /\ notice'[r] = notice[r]
    BY <1>2 DEF Starts, StartCreate, StartUpdate, StartDelete, Start, Goto, Kinds, taskVars
  <2>3. CASE \E u \in Users, p \in Patches : StartCreate(r, u, p)
    BY <2>1, <2>2, <2>3 DEF Kinds, StartCreate, Start, Goto, Stays, Names, TypeOK
  <2>4. CASE \E u \in Users, p \in Patches : StartUpdate(r, u, p)
    BY <2>1, <2>2, <2>4 DEF Kinds, StartUpdate, Start, Goto, Stays, Names, TypeOK
  <2>5. CASE \E u \in Users : StartDelete(r, u)
    BY <2>1, <2>2, <2>5 DEF Kinds, StartDelete, Start, Goto, Stays, Names, TypeOK
  <2> QED
    BY <1>2, <2>3, <2>4, <2>5 DEF Starts
<1>3. ASSUME UNCHANGED <<taskVars, requestVars>> PROVE Kinds'
  BY <1>3 DEF Kinds, Names, taskVars, requestVars
<1> QED
  BY <1>1, <1>2, <1>3 DEF Next, Starts, AddMember, RemoveMember, vars

-----------------------------------------------------------------------------
(* The row lock.                                                           *)

\* Every step keeps the row lock with the one request that has written the row.
LEMMA NextRowLock == TypeOK /\ TypeOK' /\ Kinds /\ RowLock /\ [Next]_vars => RowLock'
<1> SUFFICES ASSUME TypeOK, TypeOK', Kinds, RowLock, [Next]_vars PROVE RowLock'
  OBVIOUS
<1>1. ASSUME NEW r \in Requests, Step(r) PROVE RowLock'
  <2>1. \A q \in Requests \ {r} : Stays(q) /\ (lock' = q <=> lock = q)
    BY <1>1, StepStays, Steps, WorkKeeps, CloseEnds
  <2>2. \A q \in Requests \ {r} : Writing(q)' <=> Writing(q)
    BY <2>1 DEF Writing, Dirty, Stays
  <2>3. Writing(r)' <=> lock' = r
    <3>1. CASE Closes(r)
      BY <3>1, CloseEnds DEF Writing, Ended
    <3>2. CASE Load(r) \/ Admit(r) \/ Validate(r) \/ Insert(r)
      <4>1. pc[r] \in {"load", "access", "validate", "flush"}
        BY <3>2 DEF Load, Admit, Validate, Insert, Goto
      <4>2. lock # r
        BY <4>1 DEF RowLock, Writing
      <4>3. lock' # r /\ (pc'[r] = "commit" => op'[r] = "create") /\ pc'[r] # "refresh"
        BY <3>2, <4>2 DEF TypeOK, Load, Admit, Validate, Insert, Goto
      <4> QED
        BY <4>3 DEF Writing
    <3>3. CASE Flush(r)
      <4>1. lock # r
        BY <3>3 DEF Flush, Goto, RowLock, Writing
      <4>2. Dirty(r)' = Dirty(r)
        BY <3>3 DEF Flush, Dirty
      <4>3. op'[r] = "update" /\ pc'[r] = "refresh" /\ (lock' = r <=> Dirty(r) # {})
        BY <3>3, <4>1 DEF Flush, Goto, TypeOK
      <4> QED
        BY <4>2, <4>3 DEF Writing
    <3>4. CASE Refresh(r)
      <4>1. Dirty(r)' = Dirty(r)
        BY <3>4 DEF Refresh, Dirty
      <4>2. op[r] = "update" /\ op'[r] = op[r] /\ lock' = lock
            /\ pc[r] = "refresh" /\ pc'[r] = "commit"
        BY <3>4 DEF Refresh, Goto, TypeOK, Kinds
      <4> QED
        BY <4>1, <4>2 DEF Writing, RowLock
    <3>5. CASE Erase(r)
      BY <3>5 DEF Erase, Goto, Writing, TypeOK
    <3> QED
      BY <1>1, <3>1, <3>2, <3>3, <3>4, <3>5, Steps DEF Works
  <2>4. lock' # NoRequest => life' = "live"
    <3>1. CASE Works(r)
      BY <3>1, WorkKeeps DEF RowLock, Works, Flush, Erase, Load, Admit, Validate,
                             Insert, Refresh
    <3>2. CASE Fail(r) \/ Dispatch(r) \/ CommitUpdate(r)
      <4>1. life' = life /\ lock' \in {lock, NoRequest}
        BY <3>2, FailEnds DEF Dispatch, CommitUpdate, Committed, taskVars
      <4> QED
        BY <4>1 DEF RowLock
    <3>3. CASE CommitCreate(r)
      BY <3>3 DEF CommitCreate
    <3>4. CASE CommitDelete(r)
      <4>1. CASE lock = r
        BY <3>4, <4>1 DEF CommitDelete, Committed
      <4>2. CASE lock # r
        BY <3>4, <4>2 DEF CommitDelete, Committed, RowLock
      <4> QED
        BY <4>1, <4>2
    <3> QED
      BY <1>1, <3>1, <3>2, <3>3, <3>4, Steps DEF Closes
  <2> QED
    BY <2>1, <2>2, <2>3, <2>4 DEF RowLock
<1>2. ASSUME NEW r \in Requests, Starts(r) PROVE RowLock'
  <2>1. \A q \in Requests \ {r} : Stays(q)
    BY <1>2, StepStays
  <2>2. UNCHANGED <<life, lock>> /\ pc[r] = "idle" /\ pc'[r] \in {"load", "access"}
    BY <1>2 DEF Starts, StartCreate, StartUpdate, StartDelete, Start, Goto, TypeOK, taskVars
  <2>3. \A q \in Requests : Writing(q)' <=> Writing(q)
    BY <2>1, <2>2 DEF Writing, Dirty, Stays
  <2> QED
    BY <2>2, <2>3 DEF RowLock
<1>3. ASSUME UNCHANGED <<taskVars, requestVars, lock>> PROVE RowLock'
  BY <1>3 DEF RowLock, Writing, Dirty, taskVars, requestVars
<1> QED
  BY <1>1, <1>2, <1>3 DEF Next, Starts, AddMember, RemoveMember, vars

-----------------------------------------------------------------------------
(* What was checked before a write.                                        *)

\* What a request checked keeps holding, but for removals of members.
LEMMA NextChecked == TypeOK /\ Kinds /\ RowLock /\ Checked /\ [Next]_vars => Checked'
<1> SUFFICES ASSUME TypeOK, Kinds, RowLock, Checked, [Next]_vars PROVE Checked'
  OBVIOUS
<1>1. ASSUME NEW r \in Requests, Step(r) PROVE Checked'
  <2>1. \A q \in Requests \ {r} : Stays(q) /\ role' = role
    BY <1>1, StepStays, Steps, WorkKeeps, CloseEnds
  <2>2. \A q \in Requests \ {r} : /\ Allowed(q)' <=> Allowed(q)
                                  /\ Belongs(q)' <=> Belongs(q)
    BY <2>1 DEF Stays, Allowed, Belongs
  <2>3. CASE Closes(r)
    BY <2>1, <2>2, <2>3, CloseEnds DEF Checked, Stays, Names, Ended
  <2>4. CASE Works(r)
    <3>1. UNCHANGED role /\ actor'[r] = actor[r] /\ patch'[r] = patch[r]
          /\ lapsed'[r] = lapsed[r]
      BY <2>4, WorkKeeps
    <3>2. (Allowed(r)' <=> Allowed(r)) /\ (Belongs(r)' <=> Belongs(r))
      BY <3>1 DEF Allowed, Belongs
    <3>3. actor[r] \in Users \ Inactive
      BY <2>4, WorkKeeps DEF Checked
    <3>4. pc'[r] \in {"validate", "flush", "refresh", "commit"} => Allowed(r)
      <4>1. CASE Admit(r)
        BY <4>1 DEF Admit, Allowed
      <4>2. CASE ~Admit(r)
        BY <2>4, <4>2 DEF Checked, TypeOK, Works, Load, Validate, Insert, Flush, Refresh,
                          Erase, Goto
      <4> QED
        BY <4>1, <4>2
    <3>5. pc'[r] \in {"flush", "refresh", "commit"} /\ Names(r, "assignee") => Belongs(r)
      <4>1. CASE Validate(r)
        BY <4>1 DEF Validate, Assignable, Belongs, Checked, Goto
      <4>2. CASE ~Validate(r)
        BY <2>4, <4>2 DEF Checked, TypeOK, Works, Load, Admit, Insert, Flush, Refresh,
                          Erase, Goto
      <4> QED
        BY <4>1, <4>2
    <3> QED
      BY <2>1, <2>2, <3>1, <3>2, <3>3, <3>4, <3>5 DEF Checked, Stays, Names
  <2> QED
    BY <1>1, <2>3, <2>4, Steps
<1>2. ASSUME NEW r \in Requests, Starts(r) PROVE Checked'
  <2>1. \A q \in Requests \ {r} : Stays(q)
    BY <1>2, StepStays
  <2>2. role' = role /\ pc'[r] \in {"load", "access"} /\ actor'[r] \in Users \ Inactive
    BY <1>2 DEF Starts, StartCreate, StartUpdate, StartDelete, Start, Goto, TypeOK
  <2> QED
    BY <2>1, <2>2 DEF Checked, Allowed, Belongs, Stays, Names
<1>3. ASSUME NEW u \in Users, RemoveMember(u), NEW q \in Requests, pc[q] # "idle"
      PROVE  /\ pc[q] \in {"validate", "flush", "refresh", "commit"} /\ Allowed(q) => Allowed(q)'
             /\ pc[q] \in {"flush", "refresh", "commit"} /\ Names(q, "assignee") /\ Belongs(q)
                   => Belongs(q)'
  <2>1. UNCHANGED requestVars
    BY <1>3 DEF RemoveMember
  <2>2. \A v \in Users \ {u} : role'[v] = role[v]
    BY <1>3 DEF RemoveMember, TypeOK
  <2>3. lapsed'[q] = lapsed[q] \cup ({u} \cap Vetted(q))
    BY <1>3 DEF RemoveMember
  <2>4. actor[q] \in Users
    BY <1>3 DEF Checked
  <2>5. Names(q, "assignee") => patch[q]["assignee"] \in Users \cup {Nobody}
    BY PayloadColumns DEF Names, Value, Columns
  <2> QED
    BY <2>1, <2>2, <2>3, <2>4, <2>5 DEF Allowed, Belongs, Vetted, requestVars
<1>4. ASSUME NEW u \in Users, NEW as \in {"viewer", "editor"}, AddMember(u, as),
             NEW q \in Requests, pc[q] # "idle"
      PROVE  /\ Allowed(q) => Allowed(q)'
             /\ Names(q, "assignee") /\ Belongs(q) => Belongs(q)'
  <2>1. UNCHANGED <<requestVars, lapsed>>
    BY <1>4 DEF AddMember
  <2>2. \A v \in Users : role'[v] = role[v] \/ (role[v] = "none" /\ role'[v] # "none")
    BY <1>4 DEF AddMember, TypeOK
  <2>3. actor[q] \in Users
    BY <1>4 DEF Checked
  <2>4. Names(q, "assignee") => patch[q]["assignee"] \in Users \cup {Nobody}
    BY PayloadColumns DEF Names, Value, Columns
  <2> QED
    BY <2>1, <2>2, <2>3, <2>4 DEF Allowed, Belongs, requestVars, Writers
<1>5. ASSUME NEW u \in Users,
             RemoveMember(u) \/ \E as \in {"viewer", "editor"} : AddMember(u, as)
      PROVE  Checked'
  <2>1. UNCHANGED requestVars
    BY <1>5 DEF RemoveMember, AddMember
  <2>2. \A q \in Requests :
           /\ pc[q] \in {"validate", "flush", "refresh", "commit"} /\ Allowed(q) => Allowed(q)'
           /\ pc[q] \in {"flush", "refresh", "commit"} /\ Names(q, "assignee") /\ Belongs(q)
                 => Belongs(q)'
    BY <1>3, <1>4, <1>5
  <2> QED
    BY <2>1, <2>2 DEF Checked, Names, requestVars
<1>6. ASSUME UNCHANGED vars PROVE Checked'
  BY <1>6 DEF Checked, Allowed, Belongs, Names, vars, requestVars
<1> QED
  BY <1>1, <1>2, <1>5, <1>6 DEF Next, Starts

-----------------------------------------------------------------------------
(* Notices.                                                                *)

\* A request that will change the assignee has registered its notice.
LEMMA NextNoticed == TypeOK /\ Kinds /\ RowLock /\ Noticed /\ [Next]_vars => Noticed'
<1> SUFFICES ASSUME TypeOK, Kinds, RowLock, Noticed, [Next]_vars PROVE Noticed'
  OBVIOUS
<1>1. ASSUME NEW r \in Requests, Step(r) PROVE Noticed'
  <2>1. \A q \in Requests \ {r} : Stays(q)
    BY <1>1, StepStays
  <2>2. CASE Closes(r)
    BY <2>1, <2>2, CloseEnds DEF Noticed, Stays, Notify, Names, Dirty, Ended
  <2>3. CASE Load(r) \/ Admit(r) \/ Validate(r) \/ Flush(r) \/ Erase(r)
    <3>1. pc'[r] = "commit" => op'[r] = "delete"
      BY <2>3 DEF Load, Admit, Validate, Flush, Erase, Goto, TypeOK
    <3> QED
      BY <2>1, <3>1 DEF Noticed, Stays, Notify, Names, Dirty
  <2>4. CASE Insert(r)
    <3>1. op'[r] = "create" /\ Notify(r)' = Notify(r) /\ notice'[r] = Notify(r)
      BY <2>4 DEF Insert, Notify, Names, TypeOK
    <3> QED
      BY <2>1, <3>1 DEF Noticed, Stays, Notify, Names, Dirty
  <2>5. CASE Refresh(r)
    <3>1. op'[r] = "update" /\ Notify(r)' = Notify(r) /\ Dirty(r)' = Dirty(r)
      BY <2>5 DEF Refresh, Goto, Notify, Names, Dirty, Kinds
    <3>2. ASSUME "assignee" \in Dirty(r) PROVE notice'[r] = Notify(r)
      <4>1. Written(r)["assignee"] # loaded[r]["assignee"]
        BY <3>2 DEF Written, Dirty, Columns
      <4> QED
        BY <2>5, <4>1 DEF Refresh, TypeOK
    <3> QED
      BY <2>1, <3>1, <3>2 DEF Noticed, Stays, Notify, Names, Dirty
  <2> QED
    BY <1>1, <2>2, <2>3, <2>4, <2>5, Steps DEF Works
<1>2. ASSUME NEW r \in Requests, Starts(r) PROVE Noticed'
  <2>1. \A q \in Requests \ {r} : Stays(q)
    BY <1>2, StepStays
  <2>2. pc'[r] \in {"load", "access"}
    BY <1>2 DEF Starts, StartCreate, StartUpdate, StartDelete, Start, Goto, TypeOK
  <2> QED
    BY <2>1, <2>2 DEF Noticed, Stays, Notify, Names, Dirty
<1>3. ASSUME UNCHANGED requestVars PROVE Noticed'
  BY <1>3 DEF Noticed, Notify, Names, Dirty, requestVars
<1> QED
  BY <1>1, <1>2, <1>3 DEF Next, Starts, AddMember, RemoveMember, vars

-----------------------------------------------------------------------------
(* The theorems.                                                           *)

\* The invariant holds before the first request.
LEMMA InitInv == Init => IInv
<1> SUFFICES ASSUME Init PROVE RowLock /\ Checked /\ Noticed
  BY InitTypes DEF IInv
<1>1. RowLock
  BY Accounts DEF Init, RowLock, Writing
<1>2. Checked
  BY DEF Init, Checked
<1>3. Noticed
  BY DEF Init, Noticed
<1> QED
  BY <1>1, <1>2, <1>3

\* Every step keeps the invariant.
LEMMA NextInv == IInv /\ [Next]_vars => IInv'
BY NextTypes, NextKinds, NextRowLock, NextChecked, NextNoticed DEF IInv

\* The conjuncts of IInv hold in every reachable state.
THEOREM Invariance == Spec => []IInv
BY InitInv, NextInv, PTL DEF Spec

\* Rows, copies and payloads keep their types: no request stores a task
\* without a title.
THEOREM TypeCorrectness == Spec => []TypeOK
<1>1. IInv => TypeOK
  BY DEF IInv
<1> QED
  BY <1>1, Invariance, PTL

\* Whatever is written was allowed when the request checked it, and is still unless a member was
\* removed after that check.
THEOREM AllowedWrites == Spec => []WritesWereAllowed
<1>1. IInv => WritesWereAllowed
  BY DEF IInv, Checked, WritesWereAllowed
<1> QED
  BY <1>1, Invariance, PTL

\* The row changes only by the commit of a create or of an update.
LEMMA RowChanges ==
  ASSUME IInv, [Next]_vars, row' # row
  PROVE  \E r \in Requests : /\ pc[r] = "commit" /\ pc'[r] # "commit"
                             /\ CommitCreate(r) \/ CommitUpdate(r)
<1>1. PICK r \in Requests : Step(r)
  BY DEF Next, vars, taskVars, StartCreate, StartUpdate, StartDelete, Start,
         AddMember, RemoveMember
<1>2. ~Works(r) /\ ~Fail(r) /\ ~Dispatch(r) /\ ~CommitDelete(r)
  BY WorkKeeps DEF IInv, Fail, Dispatch, CommitDelete, taskVars
<1>3. CommitCreate(r) \/ CommitUpdate(r)
  BY <1>1, <1>2, Steps DEF Closes
<1>4. pc[r] = "commit" /\ pc'[r] # "commit"
  BY <1>3, CloseEnds DEF IInv, Closes, CommitCreate, CommitUpdate, Ended
<1> QED
  BY <1>3, <1>4

\* The commit of an update changes only columns that it names and that it has locked.
LEMMA UpdateChanges ==
  ASSUME IInv, NEW r \in Requests, CommitUpdate(r), NEW c \in Columns, row'[c] # row[c]
  PROVE  c \in Dirty(r) /\ Names(r, c) /\ row'[c] = patch[r][c] /\ lock = r
<1>1. row' = Written(r)
  BY DEF CommitUpdate
<1>2. c \in Dirty(r) /\ row'[c] = patch[r][c]
  BY <1>1 DEF Written
<1>3. lock = r
  BY <1>2 DEF IInv, RowLock, Writing, CommitUpdate
<1> QED
  BY <1>2, <1>3 DEF Names, Dirty

\* Overlapping updates keep each other's columns.
THEOREM NoLostUpdate == Spec => UpdatesKeepTheRest
<1>1. IInv /\ [Next]_vars => NamedOnly
  <2> SUFFICES ASSUME IInv, [Next]_vars, life = "live",
                      NEW c \in Columns, row'[c] # row[c]
               PROVE  \E r \in Requests : /\ pc[r] = "commit" /\ pc'[r] # "commit"
                                          /\ Names(r, c) /\ row'[c] = patch[r][c]
    BY DEF NamedOnly
  <2>1. PICK r \in Requests : /\ pc[r] = "commit" /\ pc'[r] # "commit"
                              /\ CommitCreate(r) \/ CommitUpdate(r)
    BY RowChanges
  <2>2. CommitUpdate(r)
    BY <2>1 DEF CommitCreate, IInv, Kinds
  <2> QED
    BY <2>1, <2>2, UpdateChanges
<1> QED
  BY <1>1, Invariance, PTL DEF Spec, UpdatesKeepTheRest

\* Every change of assignee carries the notice of the one it is assigned to.
THEOREM NoSilentAssignment == Spec => AssignmentsAnnounced
<1> DEFINE Told == \A r \in Requests :
          pc[r] = "commit" /\ pc'[r] # "commit" /\ row'["assignee"] # row["assignee"]
          => row'["assignee"] \in {Nobody, actor[r], notice[r]}
<1>1. IInv /\ [Next]_vars => Told
  <2> SUFFICES ASSUME IInv, [Next]_vars, NEW r \in Requests,
                      pc[r] = "commit", pc'[r] # "commit",
                      row'["assignee"] # row["assignee"]
               PROVE  row'["assignee"] \in {Nobody, actor[r], notice[r]}
    OBVIOUS
  <2>1. PICK q \in Requests : /\ pc[q] = "commit" /\ pc'[q] # "commit"
                              /\ CommitCreate(q) \/ CommitUpdate(q)
    BY RowChanges
  <2>2. q = r
    BY <2>1, StepStays DEF IInv, Step, Stays
  <2>3. CASE CommitCreate(r)
    <3>1. notice[r] = Notify(r) /\ row' = Inserted(r)
      BY <2>3 DEF CommitCreate, IInv, Noticed
    <3>2. row'["assignee"] = IF Names(r, "assignee") THEN patch[r]["assignee"] ELSE Nobody
      BY <3>1 DEF Inserted, Columns
    <3> QED
      BY <3>1, <3>2 DEF Notify
  <2>4. CASE CommitUpdate(r)
    <3>1. "assignee" \in Dirty(r) /\ Names(r, "assignee")
          /\ row'["assignee"] = patch[r]["assignee"]
      BY <2>4, UpdateChanges DEF Columns
    <3>2. notice[r] = Notify(r)
      BY <2>4, <3>1 DEF CommitUpdate, IInv, Noticed
    <3> QED
      BY <3>1, <3>2 DEF Notify
  <2> QED
    BY <2>1, <2>2, <2>3, <2>4
<1>2. [][Told]_vars => AssignmentsAnnounced
  BY PTL DEF AssignmentsAnnounced
<1> QED
  BY <1>1, <1>2, Invariance, PTL DEF Spec

\* Nothing is written to a task after it was deleted.
THEOREM DeletedForGood == Spec => DeletionIsFinal
<1> DEFINE Final == life = "gone" => UNCHANGED taskVars
<1>1. IInv /\ [Next]_vars => Final
  <2> SUFFICES ASSUME IInv, [Next]_vars, life = "gone" PROVE UNCHANGED <<life, row>>
    BY DEF taskVars
  <2>1. ASSUME NEW r \in Requests, Step(r) PROVE life' = life /\ row' = row
    <3>1. CASE Works(r)
      BY <3>1, WorkKeeps DEF IInv
    <3>2. CASE Fail(r) \/ Dispatch(r)
      BY <3>2 DEF Fail, Dispatch, taskVars
    <3>3. CASE CommitCreate(r)
      BY <3>3 DEF CommitCreate, IInv, Kinds
    <3>4. CASE CommitUpdate(r)
      <4>1. lock # r
        BY Accounts DEF IInv, RowLock
      <4>2. Dirty(r) = {}
        BY <3>4, <4>1 DEF IInv, RowLock, Writing, CommitUpdate
      <4> QED
        BY <3>4, <4>2, CleanWrite DEF CommitUpdate, IInv
    <3>5. CASE CommitDelete(r)
      BY <3>5 DEF CommitDelete
    <3> QED
      BY <2>1, <3>1, <3>2, <3>3, <3>4, <3>5, Steps DEF Closes
  <2>2. ASSUME UNCHANGED taskVars PROVE life' = life /\ row' = row
    BY <2>2 DEF taskVars
  <2> QED
    BY <2>1, <2>2 DEF Next, vars, StartCreate, StartUpdate, StartDelete, Start,
                      AddMember, RemoveMember
<1>2. [][Final]_vars => DeletionIsFinal
  BY PTL DEF DeletionIsFinal
<1> QED
  BY <1>1, <1>2, Invariance, PTL DEF Spec
=============================================================================
