-------------------------- MODULE TaskLabelsProofs --------------------------
(***************************************************************************)
(* Proofs about TaskLabels, for any transactions, tasks, labels and        *)
(* projects.                                                               *)
(*                                                                         *)
(* SameProject is not inductive.  An assignment compares the two rows and  *)
(* inserts later: it needs the rows to stay (Compared), which they do      *)
(* because it holds them in share mode and a transaction that moves or     *)
(* deletes one owns it (Exclusive).  A move and a deletion look at the     *)
(* pairs of the row and commit later: they need no pair to be added in     *)
(* between (Detached), which again the locks exclude.                      *)
(***************************************************************************)
EXTENDS TaskLabels, TLAPS

-----------------------------------------------------------------------------
(* What a step leaves alone.                                               *)

\* Nothing changes for a transaction.
Stays(q) == /\ pc'[q] = pc[q] /\ op'[q] = op[q] /\ item'[q] = item[q]
            /\ label'[q] = label[q] /\ project'[q] = project[q] /\ seen'[q] = seen[q]
            /\ added'[q] = added[q] /\ erased'[q] = erased[q]

\* The transaction is over.
Ended(r) == /\ pc'[r] = "idle" /\ op'[r] = "none" /\ item'[r] = None
            /\ added'[r] = {} /\ erased'[r] = {}

\* The steps within a transaction.
Locks(r)  == LockTask(r) \/ LockLabel(r) \/ EraseRow(r) \/ LockRow(r)
Reads(r)  == Find(r) \/ FindLabel(r) \/ Select(r) \/ Cascaded(r) \/ MoveAllowed(r)
Writes(r) == Insert(r) \/ Remove(r) \/ ErasePair(r) \/ Cascade(r)
Works(r)  == Start(r) \/ Locks(r) \/ Reads(r) \/ Writes(r)

Acts(r) == Start(r) \/ Step(r) \/ Detect(r) \/ Abort(r)

\* A step works within the transaction, rolls it back or commits it.
LEMMA StepKinds ==
  ASSUME NEW r \in Requests, Acts(r)
  PROVE  Works(r) \/ Fail(r) \/ Commit(r)
BY DEF Acts, Step, Works, Locks, Reads, Writes, NotFound, RefuseLabel, Mismatch,
       Dangling, MoveRefused, Detect, Abort

\* The end of a transaction changes no other.
LEMMA EndStays ==
  ASSUME TypeOK, NEW r \in Requests, End(r)
  PROVE  Ended(r) /\ \A q \in Requests \ {r} : Stays(q)
BY DEF TypeOK, End, Ended, Stays

\* Before its commit a transaction changes nothing that others see.
LEMMA WorkStays ==
  ASSUME TypeOK, NEW r \in Requests, Works(r)
  PROVE  UNCHANGED <<home, pairs>> /\ \A q \in Requests \ {r} : Stays(q)
<1>1. CASE Start(r)
  BY <1>1 DEF TypeOK, Stays, Start, StartPair, StartDelete, StartMove, Goto, tables,
              writes
<1>2. CASE Locks(r)
  BY <1>2 DEF TypeOK, Stays, Locks, LockTask, LockLabel, EraseRow, LockRow, Goto,
              tables, locals, writes
<1>3. CASE Reads(r)
  BY <1>3 DEF TypeOK, Stays, Reads, Find, FindLabel, Select, Cascaded, MoveAllowed,
              Goto, tables, locals, writes
<1>4. CASE Writes(r)
  BY <1>4 DEF TypeOK, Stays, Writes, Insert, Remove, ErasePair, Cascade, Erase, Goto,
              tables, locals
<1> QED
  BY <1>1, <1>2, <1>3, <1>4 DEF Works

\* No step changes another transaction.
LEMMA ActStays ==
  ASSUME TypeOK, NEW r \in Requests, Acts(r)
  PROVE  \A q \in Requests \ {r} : Stays(q)
BY StepKinds, WorkStays, EndStays DEF Fail, Commit

\* The locks of a transaction that stays are what they were.
LEMMA LocksStay ==
  ASSUME NEW q \in Requests, Stays(q)
  PROVE  Owns(q)' = Owns(q) /\ Shares(q)' = Shares(q)
BY DEF Stays, Owns, Shares

\* A transaction that has ended holds no lock.
LEMMA EndedFree ==
  ASSUME NEW q \in Requests, Ended(q)
  PROVE  Owns(q)' = {} /\ Shares(q)' = {}
BY DEF Ended, Owns, Shares

-----------------------------------------------------------------------------
(* Types and kinds.                                                        *)

\* Types and kinds before the first transaction.
LEMMA InitTypes == Init => TypeOK /\ Kinds
BY DEF Init, TypeOK, Kinds, Steps

\* Types after the end of a transaction.
LEMMA EndTypes ==
  ASSUME TypeOK, NEW r \in Requests, End(r),
         home' \in [Items -> Projects \cup {None}], pairs' \subseteq Pairs
  PROVE  TypeOK'
BY DEF TypeOK, End, Steps

\* Types after a commit.
LEMMA CommitTypes ==
  ASSUME TypeOK, Kinds, NEW r \in Requests, Commit(r)
  PROVE  TypeOK'
<1>1. pairs' \subseteq Pairs
  BY DEF Commit, TypeOK
<1>2. home' \in [Items -> Projects \cup {None}]
  BY DEF Commit, TypeOK, Kinds
<1> QED
  BY <1>1, <1>2, EndTypes DEF Commit

\* A transaction under way is about a row.
LEMMA ItemKnown ==
  ASSUME TypeOK, Kinds, NEW r \in Requests, pc[r] # "idle"
  PROVE  item[r] \in Items
<1>1. op[r] \in {"assign", "remove", "delete", "move"}
  BY DEF TypeOK, Kinds
<1> QED
  BY <1>1 DEF Kinds, Items

\* A deletion of a pair keeps the type of what is deleted.
LEMMA EraseTypes ==
  ASSUME TypeOK, NEW r \in Requests, NEW p, Erase(r, p)
  PROVE  erased' \in [Requests -> SUBSET Pairs]
BY DEF TypeOK, Erase

\* Types after a step within a transaction.
LEMMA WorkTypes ==
  ASSUME TypeOK, Kinds, NEW r \in Requests, Works(r)
  PROVE  TypeOK'
<1>1. CASE Start(r)
  <2>1. ASSUME NEW t \in Tasks, NEW l \in Labels, NEW kind \in {"assign", "remove"},
               StartPair(r, kind, t, l)
        PROVE  TypeOK'
    BY <2>1 DEF TypeOK, Steps, StartPair, Goto, Items, tables, writes
  <2>2. ASSUME NEW x \in Items, StartDelete(r, x) PROVE TypeOK'
    BY <2>2 DEF TypeOK, Steps, StartDelete, Goto, tables, writes
  <2>3. ASSUME NEW x \in Items, NEW p \in Projects, StartMove(r, x, p) PROVE TypeOK'
    BY <2>3 DEF TypeOK, Steps, StartMove, Goto, tables, writes
  <2> QED
    BY <1>1, <2>1, <2>2, <2>3 DEF Start
<1>2. CASE Locks(r)
  BY <1>2 DEF TypeOK, Steps, Locks, LockTask, LockLabel, EraseRow, LockRow, Goto,
              tables, locals, writes
<1>3. CASE Find(r)
  <2>1. item[r] \in Items
    BY <1>3, ItemKnown DEF Find, Goto
  <2>2. home[item[r]] \in Projects
    BY <1>3, <2>1 DEF TypeOK, Find
  <2> QED
    BY <1>3, <2>2 DEF TypeOK, Steps, Find, Goto, tables, writes
<1>4. CASE FindLabel(r) \/ Cascaded(r) \/ MoveAllowed(r)
  BY <1>4 DEF TypeOK, Steps, FindLabel, Cascaded, MoveAllowed, Goto, tables, locals,
              writes
<1>5. CASE Select(r)
  BY <1>5 DEF TypeOK, Steps, Select, With, Goto, tables, writes
<1>6. CASE Insert(r)
  <2>1. Pair(r) \in Pairs
    BY <1>6 DEF Insert, Goto, Kinds, Pair, Pairs
  <2> QED
    BY <1>6, <2>1 DEF TypeOK, Steps, Insert, Goto, tables, locals
<1>7. CASE Remove(r)
  <2>1. erased' \in [Requests -> SUBSET Pairs]
    BY <1>7, EraseTypes DEF Remove
  <2> QED
    BY <1>7, <2>1 DEF TypeOK, Steps, Remove, Goto, tables, locals
<1>8. CASE ErasePair(r)
  <2>1. erased' \in [Requests -> SUBSET Pairs]
    BY <1>8, EraseTypes DEF ErasePair
  <2> QED
    BY <1>8, <2>1 DEF TypeOK, ErasePair, tables
<1>9. CASE Cascade(r)
  <2>1. erased' \in [Requests -> SUBSET Pairs]
    BY <1>9, EraseTypes DEF Cascade
  <2> QED
    BY <1>9, <2>1 DEF TypeOK, Cascade, tables, locals
<1> QED
  BY <1>1, <1>2, <1>3, <1>4, <1>5, <1>6, <1>7, <1>8, <1>9 DEF Works, Reads, Writes

\* A step keeps what every transaction does in line with where it is.
LEMMA ActKinds ==
  ASSUME TypeOK, Kinds, NEW r \in Requests, Acts(r)
  PROVE  Kinds'
<1> DEFINE Fits(q) ==
       /\ op[q] = "none" <=> pc[q] = "idle"
       /\ op[q] \in {"assign", "remove"} => item[q] \in Tasks /\ label[q] \in Labels
       /\ op[q] \in {"delete", "move"} => item[q] \in Items
       /\ op[q] = "move" => project[q] \in Projects
       /\ pc[q] = "find" => op[q] # "move"
       /\ pc[q] = "find label" => op[q] \in {"assign", "remove"}
       /\ pc[q] \in {"task lock", "label lock", "insert"} => op[q] = "assign"
       /\ pc[q] = "remove" => op[q] = "remove"
       /\ pc[q] \in {"select", "pairs", "cascade"} => op[q] = "delete"
       /\ pc[q] \in {"row", "check"} => op[q] = "move"
       /\ added[q] # {} => op[q] = "assign" /\ pc[q] = "commit" /\ added[q] = {Pair(q)}
<1>1. \A q \in Requests : Fits(q)
  BY DEF Kinds
<1>2. Fits(r)'
  <2>1. CASE Fail(r) \/ Commit(r)
    BY <2>1, EndStays DEF Fail, Commit, Ended
  <2>2. CASE Start(r)
    BY <2>2, <1>1 DEF TypeOK, Start, StartPair, StartDelete, StartMove, Goto, Items,
                      tables, writes
  <2>3. CASE Locks(r)
    BY <2>3, <1>1 DEF TypeOK, Locks, LockTask, LockLabel, EraseRow, LockRow, Goto,
                      tables, locals, writes
  <2>4. CASE Find(r) \/ Select(r)
    BY <2>4, <1>1 DEF TypeOK, Find, Select, Goto, tables, writes
  <2>5. CASE FindLabel(r) \/ Cascaded(r) \/ MoveAllowed(r)
    BY <2>5, <1>1 DEF TypeOK, FindLabel, Cascaded, MoveAllowed, Goto, tables, locals,
                      writes
  <2>6. CASE Insert(r)
    BY <2>6, <1>1 DEF TypeOK, Insert, Pair, Goto, tables, locals
  <2>7. CASE Remove(r)
    BY <2>7, <1>1 DEF TypeOK, Remove, Pair, Goto, tables, locals
  <2>8. CASE ErasePair(r)
    BY <2>8, <1>1 DEF TypeOK, ErasePair, Pair, tables
  <2>9. CASE Cascade(r)
    BY <2>9, <1>1 DEF TypeOK, Cascade, Pair, tables, locals
  <2> QED
    BY <2>1, <2>2, <2>3, <2>4, <2>5, <2>6, <2>7, <2>8, <2>9, StepKinds
       DEF Works, Reads, Writes
<1>3. ASSUME NEW q \in Requests \ {r} PROVE Fits(q)'
  BY <1>1, ActStays DEF Stays, Pair
<1>4. \A q \in Requests : Fits(q)'
  BY <1>2, <1>3
<1> HIDE DEF Fits
<1> QED
  BY <1>4 DEF Kinds, Fits

-----------------------------------------------------------------------------
(* Rows and their locks.                                                   *)

\* What a commit writes: the row of a move or a deletion, if it is there.
LEMMA CommitHome ==
  ASSUME TypeOK, Kinds, NEW r \in Requests, Commit(r)
  PROVE  /\ \A x \in Items : /\ x # item[r] => home'[x] = home[x]
                             /\ home[x] = None => home'[x] = None
         /\ op[r] \notin {"delete", "move"} => home' = home
         /\ op[r] = "move" /\ home[item[r]] \in {None, project[r]} => home' = home
         /\ op[r] \in {"delete", "move"} => Owns(r) = {item[r]}
<1>1. item[r] \in Items /\ pc[r] = "commit"
  BY ItemKnown DEF Commit
<1> QED
  BY <1>1 DEF TypeOK, Commit, Owns

\* A row that is gone does not come back.
LEMMA RowsGo ==
  ASSUME TypeOK, Kinds, NEW r \in Requests, Acts(r), NEW x \in Items, home'[x] # None
  PROVE  home[x] # None
BY StepKinds, WorkStays, CommitHome DEF Fail, tables

\* A transaction owns and shares rows that exist or existed.
LEMMA LocksKnown ==
  ASSUME TypeOK, Kinds, NEW r \in Requests
  PROVE  Owns(r) \subseteq Items /\ Shares(r) \subseteq Items
BY DEF Kinds, Owns, Shares, Items

\* A transaction that takes a lock finds the row free.
LEMMA Acquires ==
  ASSUME TypeOK, Kinds, NEW r \in Requests, Works(r), NEW x
  PROVE  /\ x \in Owns(r)' \ Owns(r) /\ home[x] # None => Writable(r, x)
         /\ x \in Shares(r)' \ Shares(r) => Readable(r, x)
<1>1. CASE Start(r)
  <2>1. pc'[r] \in {"find", "row"}
    BY <1>1 DEF TypeOK, Start, StartPair, StartDelete, StartMove, Goto
  <2> QED
    BY <2>1 DEF Owns, Shares
<1>2. CASE LockTask(r)
  BY <1>2 DEF TypeOK, Kinds, LockTask, Goto, Owns, Shares, locals
<1>3. CASE LockLabel(r)
  BY <1>3 DEF TypeOK, Kinds, LockLabel, Goto, Owns, Shares, locals
<1>4. CASE EraseRow(r)
  BY <1>4 DEF TypeOK, Kinds, EraseRow, Goto, Owns, Shares, locals
<1>5. CASE LockRow(r)
  BY <1>5 DEF TypeOK, Kinds, LockRow, Goto, Owns, Shares, locals
<1>6. CASE Find(r) \/ Select(r)
  BY <1>6 DEF TypeOK, Find, Select, Goto, Owns, Shares
<1>7. CASE FindLabel(r)
  BY <1>7 DEF TypeOK, Kinds, FindLabel, Goto, Owns, Shares, locals
<1>8. CASE Cascaded(r) \/ MoveAllowed(r)
  BY <1>8 DEF TypeOK, Kinds, Cascaded, MoveAllowed, Goto, Owns, Shares, locals
<1>9. CASE Insert(r) \/ Remove(r)
  BY <1>9 DEF TypeOK, Kinds, Insert, Remove, Goto, Owns, Shares, locals
<1>10. CASE ErasePair(r) \/ Cascade(r)
  BY <1>10 DEF ErasePair, Cascade, Owns, Shares, locals
<1> QED
  BY <1>1, <1>2, <1>3, <1>4, <1>5, <1>6, <1>7, <1>8, <1>9, <1>10
     DEF Works, Locks, Reads, Writes

\* No step makes two transactions write one row, or write what another shares.
LEMMA NextExclusive ==
  ASSUME TypeOK, Kinds, Kinds', Exclusive, NEW a \in Requests, Acts(a)
  PROVE  Exclusive'
<1> SUFFICES ASSUME NEW r \in Requests, NEW q \in Requests, r # q,
                    NEW x \in Owns(r)', home'[x] # None
             PROVE  x \notin Owns(q)' \cup Shares(q)'
  BY DEF Exclusive
<1>2. x \in Items
  BY DEF Owns, Kinds
<1>3. home[x] # None
  BY <1>2, RowsGo
<1>4. \A s \in Requests \ {a} : Owns(s)' = Owns(s) /\ Shares(s)' = Shares(s)
  BY ActStays, LocksStay
<1>5. CASE Works(a)
  <2>1. CASE r = a
    BY <1>3, <1>4, <1>5, <2>1, Acquires DEF Exclusive, Writable, Others
  <2>2. CASE q = a
    BY <1>3, <1>4, <1>5, <2>2, Acquires DEF Exclusive, Writable, Readable, Others
  <2>3. CASE r # a /\ q # a
    BY <1>3, <1>4, <2>3 DEF Exclusive
  <2> QED
    BY <2>1, <2>2, <2>3
<1>6. CASE Fail(a) \/ Commit(a)
  <2>1. Owns(a)' = {} /\ Shares(a)' = {}
    BY <1>6, EndStays, EndedFree DEF Fail, Commit
  <2> QED
    BY <1>3, <1>4, <2>1 DEF Exclusive
<1> QED
  BY <1>5, <1>6, StepKinds

\* Another transaction leaves a row alone that is locked.
LEMMA LockedStays ==
  ASSUME TypeOK, Kinds, Exclusive, NEW a \in Requests, Acts(a),
         NEW r \in Requests \ {a}, NEW x \in Items, x \in Owns(r) \cup Shares(r)
  PROVE  home'[x] = home[x]
<1>1. CASE Works(a) \/ Fail(a)
  BY <1>1, WorkStays DEF Fail, tables
<1>2. CASE Commit(a)
  <2>1. CASE home[x] = None
    BY <1>2, <2>1, CommitHome
  <2>2. CASE home[x] # None /\ op[a] \in {"delete", "move"}
    BY <1>2, <2>2, CommitHome DEF Exclusive
  <2>3. CASE op[a] \notin {"delete", "move"}
    BY <1>2, <2>3, CommitHome
  <2> QED
    BY <2>1, <2>2, <2>3
<1> QED
  BY <1>1, <1>2, StepKinds

-----------------------------------------------------------------------------
(* Tasks and their labels.                                                 *)

\* What the trigger has compared stays so.
LEMMA NextCompared ==
  ASSUME TypeOK, Kinds, Exclusive, Compared, NEW a \in Requests, Acts(a)
  PROVE  Compared'
<1> DEFINE Alike(r) == \/ home[item[r]] = home[label[r]]
                       \/ None \in {home[item[r]], home[label[r]]}
           There(r) == None \notin {home[item[r]], home[label[r]]}
           Same(r)  == /\ op[r] = "assign" /\ pc[r] \in {"insert", "commit"} => Alike(r)
                       /\ added[r] # {} => There(r)
<1>1. \A r \in Requests : Same(r)
  BY DEF Compared
<1>2. ASSUME NEW r \in Requests \ {a} PROVE Same(r)'
  <2>1. Stays(r)
    BY ActStays
  <2>2. SUFFICES ASSUME op[r] = "assign", pc[r] \in {"insert", "commit"}
                 PROVE  Same(r)'
    BY <2>1 DEF Stays, Kinds
  <2>3. item[r] \in Items /\ label[r] \in Items /\ {item[r], label[r]} = Shares(r)
    BY <2>2 DEF Kinds, Items, Shares
  <2>4. home'[item[r]] = home[item[r]] /\ home'[label[r]] = home[label[r]]
    BY <2>3, LockedStays
  <2> QED
    BY <1>1, <2>1, <2>4 DEF Stays
<1>3. Same(a)'
  <2>1. CASE Fail(a) \/ Commit(a)
    BY <2>1, EndStays DEF Fail, Commit, Ended
  <2>2. CASE Start(a)
    BY <2>2, <1>1 DEF TypeOK, Kinds, Start, StartPair, StartDelete, StartMove, Goto,
                      tables, writes
  <2>3. CASE LockLabel(a)
    BY <2>3, <1>1 DEF TypeOK, Kinds, LockLabel, Goto, tables, locals, writes
  <2>4. CASE LockTask(a) \/ EraseRow(a) \/ LockRow(a)
    BY <2>4, <1>1 DEF TypeOK, Kinds, LockTask, EraseRow, LockRow, Goto, tables, locals,
                      writes
  <2>5. CASE Find(a) \/ Select(a)
    BY <2>5, <1>1 DEF TypeOK, Kinds, Find, Select, Goto, tables, writes
  <2>6. CASE FindLabel(a) \/ Cascaded(a) \/ MoveAllowed(a)
    BY <2>6, <1>1 DEF TypeOK, Kinds, FindLabel, Cascaded, MoveAllowed, Goto, tables,
                      locals, writes
  <2>7. CASE Insert(a)
    BY <2>7, <1>1 DEF TypeOK, Kinds, Insert, Goto, tables, locals
  <2>8. CASE Remove(a)
    BY <2>8, <1>1 DEF TypeOK, Kinds, Remove, Goto, tables, locals
  <2>9. CASE ErasePair(a) \/ Cascade(a)
    BY <2>9, <1>1 DEF TypeOK, Kinds, ErasePair, Cascade, tables, locals
  <2> QED
    BY <2>1, <2>2, <2>3, <2>4, <2>5, <2>6, <2>7, <2>8, <2>9, StepKinds
       DEF Works, Locks, Reads, Writes
<1>4. \A r \in Requests : Same(r)'
  BY <1>2, <1>3
<1> QED
  BY <1>4 DEF Compared

\* No one adds a pair to a row that another is about to move or delete.
LEMMA PairsKept ==
  ASSUME TypeOK, Kinds, Exclusive, NEW a \in Requests, Acts(a),
         NEW r \in Requests \ {a}, NEW x \in Owns(r), home[x] # None
  PROVE  With(x)' \subseteq With(x)
<1>1. CASE Works(a) \/ Fail(a)
  BY <1>1, WorkStays DEF Fail, tables, With
<1>2. CASE Commit(a)
  <2>1. ASSUME NEW p \in added[a] PROVE x \notin {p[1], p[2]}
    <3>1. op[a] = "assign" /\ pc[a] = "commit" /\ p = Pair(a)
      BY <2>1 DEF Kinds
    <3>2. Shares(a) = {p[1], p[2]}
      BY <3>1 DEF Shares, Pair
    <3> QED
      BY <3>2 DEF Exclusive
  <2> QED
    BY <1>2, <2>1 DEF Commit, With
<1> QED
  BY <1>1, <1>2, StepKinds

\* A row whose pairs all stay where the move goes is there already, or has none.
LEMMA LeftNothing ==
  ASSUME TypeOK, SameProject, NEW r \in Requests, item[r] \in Items, Left(r) = {}
  PROVE  home[item[r]] = project[r] \/ With(item[r]) = {}
<1>1. ASSUME NEW p \in With(item[r]) PROVE home[item[r]] = project[r]
  <2>1. /\ p \in Tasks \X Labels /\ item[r] \in {p[1], p[2]}
        /\ home[p[1]] = home[p[2]]
    BY DEF With, TypeOK, Pairs, SameProject
  <2>2. p[1] \in Items /\ p[2] \in Items /\ p[1] # p[2]
    BY <2>1, Tables DEF Items
  <2>3. PICK y \in {p[1], p[2]} : y # item[r]
    BY <2>1, <2>2
  <2>4. home[y] = project[r]
    BY <2>2, <2>3 DEF Left
  <2> QED
    BY <2>1, <2>3, <2>4
<1> QED
  BY <1>1

\* A row that is about to move or be deleted stays free of pairs that stay.
LEMMA NextDetached ==
  ASSUME TypeOK, Kinds, Exclusive, SameProject, Detached, NEW a \in Requests, Acts(a)
  PROVE  Detached'
<1> DEFINE Free(r) ==
       pc[r] = "commit" /\ item[r] \in Items /\ home[item[r]] # None =>
          /\ op[r] = "move" => home[item[r]] = project[r] \/ With(item[r]) = {}
          /\ op[r] = "delete" => With(item[r]) \subseteq erased[r]
<1>1. \A r \in Requests : Free(r)
  BY DEF Detached
<1>2. ASSUME NEW r \in Requests \ {a} PROVE Free(r)'
  <2>1. Stays(r)
    BY ActStays
  <2>2. SUFFICES ASSUME pc[r] = "commit", item[r] \in Items, home'[item[r]] # None,
                        op[r] \in {"move", "delete"}
                 PROVE  Free(r)'
    BY <2>1 DEF Stays
  <2>3. item[r] \in Owns(r)
    BY <2>2 DEF Owns
  <2>4. home[item[r]] # None /\ home'[item[r]] = home[item[r]]
    BY <2>2, <2>3, LockedStays
  <2>5. ASSUME NEW x, x = item[r] PROVE With(x)' \subseteq With(x)
    BY <2>3, <2>4, <2>5, PairsKept
  <2>6. With(item[r])' \subseteq With(item[r])
    BY <2>1, <2>5 DEF Stays, With
  <2> QED
    BY <1>1, <2>1, <2>2, <2>4, <2>6 DEF Stays
<1>3. Free(a)'
  <2>1. CASE Fail(a) \/ Commit(a)
    BY <2>1, EndStays DEF Fail, Commit, Ended
  <2>2. CASE MoveAllowed(a)
    <3>1. item[a] \in Items /\ op[a] = "move"
      BY <2>2, ItemKnown DEF MoveAllowed, Goto, Kinds
    <3>2. home[item[a]] \in {None, project[a]} \/ With(item[a]) = {}
      BY <2>2, <3>1, LeftNothing DEF MoveAllowed
    <3> QED
      BY <2>2, <3>1, <3>2 DEF MoveAllowed, With, tables, locals
  <2>3. CASE Cascaded(a)
    <3>1. op[a] = "delete"
      BY <2>3 DEF Cascaded, Goto, Kinds
    <3> QED
      BY <2>3, <3>1 DEF Cascaded, With, tables, locals, writes
  <2>4. CASE Insert(a) \/ Remove(a)
    BY <2>4 DEF Insert, Remove, Goto, Kinds
  <2>5. CASE Start(a)
    <3>1. pc'[a] \in {"find", "row"}
      BY <2>5 DEF TypeOK, Start, StartPair, StartDelete, StartMove, Goto
    <3> QED
      BY <3>1
  <2>6. CASE ErasePair(a) \/ Cascade(a)
    BY <2>6 DEF ErasePair, Cascade
  <2>7. CASE Locks(a) \/ Find(a) \/ FindLabel(a) \/ Select(a)
    <3>1. pc'[a] # "commit"
      BY <2>7 DEF TypeOK, Locks, LockTask, LockLabel, EraseRow, LockRow, Find, FindLabel,
                  Select, Goto
    <3> QED
      BY <3>1
  <2> QED
    BY <2>1, <2>2, <2>3, <2>4, <2>5, <2>6, <2>7, StepKinds DEF Works, Reads, Writes
<1>4. \A r \in Requests : Free(r)'
  BY <1>2, <1>3
<1> QED
  BY <1>4 DEF Detached

\* A commit leaves tasks and their labels in one project.
LEMMA NextSameProject ==
  ASSUME TypeOK, Kinds, Compared, SameProject, Detached, NEW a \in Requests, Acts(a)
  PROVE  SameProject'
<1>1. CASE Works(a) \/ Fail(a)
  BY <1>1, WorkStays DEF Fail, tables, SameProject
<1>2. CASE Commit(a)
  <2>1. /\ item[a] \in Items /\ pc[a] = "commit"
        /\ pairs' = (pairs \cup added[a]) \ erased[a]
    BY <1>2, ItemKnown DEF Commit
  <2>2. ASSUME NEW p \in pairs'
        PROVE  home'[p[1]] = home'[p[2]] /\ home'[p[1]] # None
    <3>1. CASE p \in added[a]
      <4>1. op[a] = "assign" /\ p = <<item[a], label[a]>>
        BY <3>1 DEF Kinds, Pair
      <4>2. home' = home
        BY <1>2, <4>1, CommitHome
      <4>3. home[item[a]] = home[label[a]] /\ home[item[a]] # None
        BY <2>1, <3>1, <4>1 DEF Compared
      <4> QED
        BY <4>1, <4>2, <4>3
    <3>2. CASE p \in pairs /\ p \notin erased[a]
      <4>1. /\ p[1] \in Items /\ p[2] \in Items
            /\ home[p[1]] = home[p[2]] /\ home[p[1]] # None
        BY <3>2 DEF TypeOK, Pairs, Items, SameProject
      <4>2. CASE home' = home
        BY <4>1, <4>2
      <4>3. CASE home' # home
        <5>1. op[a] \in {"delete", "move"}
          BY <1>2, <4>3, CommitHome
        <5>2. home[item[a]] # None
          BY <1>2, <4>3 DEF Commit
        <5>3. op[a] = "move" => home[item[a]] # project[a]
          BY <1>2, <4>3, CommitHome
        <5>4. p \notin With(item[a])
          BY <2>1, <3>2, <5>1, <5>2, <5>3 DEF Detached
        <5>5. p[1] # item[a] /\ p[2] # item[a]
          BY <3>2, <5>4 DEF With
        <5> QED
          BY <1>2, <4>1, <5>5, CommitHome
      <4> QED
        BY <4>2, <4>3
    <3> QED
      BY <2>1, <3>1, <3>2
  <2> QED
    BY <2>2 DEF SameProject
<1> QED
  BY <1>1, <1>2, StepKinds

-----------------------------------------------------------------------------
\* The invariant holds before the first transaction.
LEMMA InitInv == Init => IInv
<1> SUFFICES ASSUME Init PROVE IInv
  OBVIOUS
<1>1. Exclusive /\ Compared /\ Detached
  BY DEF Init, Exclusive, Compared, Detached, Owns, Shares
<1>2. SameProject
  BY DEF Init, SameProject
<1> QED
  BY <1>1, <1>2, InitTypes DEF IInv

\* Every step preserves it.
LEMMA NextInv == IInv /\ [Next]_vars => IInv'
<1> SUFFICES ASSUME IInv, [Next]_vars PROVE IInv'
  OBVIOUS
<1>1. CASE Next
  <2>1. PICK a \in Requests : Acts(a)
    BY <1>1 DEF Next, Acts
  <2>2. TypeOK'
    <3>1. CASE Fail(a)
      BY <3>1, EndTypes DEF IInv, Fail, tables, TypeOK
    <3> QED
      BY <2>1, <3>1, StepKinds, WorkTypes, CommitTypes DEF IInv
  <2>3. Kinds'
    BY <2>1, ActKinds DEF IInv
  <2> QED
    BY <2>1, <2>2, <2>3, NextExclusive, NextCompared, NextDetached, NextSameProject
       DEF IInv
<1>2. CASE UNCHANGED vars
  <2> USE <1>2 DEF IInv, vars, tables, locals, writes
  <2>1. TypeOK' /\ Kinds'
    BY DEF TypeOK, Kinds, Pair
  <2>2. Exclusive'
    <3>1. \A r \in Requests : Owns(r)' = Owns(r) /\ Shares(r)' = Shares(r)
      BY DEF Owns, Shares
    <3> QED
      BY <3>1 DEF Exclusive
  <2>3. Compared' /\ Detached' /\ SameProject'
    BY DEF Compared, Detached, SameProject, With
  <2> QED
    BY <2>1, <2>2, <2>3
<1> QED
  BY <1>1, <1>2

\* The invariant holds in every state: locks exclude each other, and what the
\* triggers have looked at stays as it was until the transaction commits.
THEOREM Invariance == Spec => []IInv
BY InitInv, NextInv, PTL DEF Spec

\* Type correctness of rows, pairs and transactions.
THEOREM TypeCorrectness == Spec => []TypeOK
<1>1. IInv => TypeOK
  BY DEF IInv
<1> QED
  BY <1>1, Invariance, PTL

\* A task and its labels exist and belong to one project, whatever requests are
\* assigning, removing, deleting and moving at the same time: the service's check
\* alone would not do, the row locks of the triggers are what the proof rests on.
THEOREM OneProject == Spec => []SameProject
<1>1. IInv => SameProject
  BY DEF IInv
<1> QED
  BY <1>1, Invariance, PTL
=============================================================================
