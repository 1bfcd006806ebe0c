-------------------------- MODULE LabelNamesProofs --------------------------
(***************************************************************************)
(* Proofs about LabelNames, for any requests, labels and names.            *)
(*                                                                         *)
(* The argument: a transaction puts a name into the unique index only when *)
(* no other row has it and no other transaction has put it there, and what *)
(* the others commit meanwhile is what they have put.  A row that it has   *)
(* updated is locked, so that it is still there when the name is written.  *)
(***************************************************************************)
EXTENDS LabelNames, TLAPS

USE Values

-----------------------------------------------------------------------------
\* Some labels are there, no request is running.
LEMMA InitInvariant == Init => IInv
<1> SUFFICES ASSUME Init PROVE IInv
  OBVIOUS
<1>1. TypeOK
  BY DEF Init, TypeOK, Steps
<1>2. UniqueNames /\ Stages
  BY DEF Init, UniqueNames, Stages
<1>3. FreshItems
  BY DEF Init, FreshItems
<1>4. RowsLocked
  BY DEF Init, RowsLocked, Owns
<1>5. KeysHeld
  BY DEF Init, KeysHeld, Puts
<1> QED
  BY <1>1, <1>2, <1>3, <1>4, <1>5 DEF IInv

\* What belongs to r, seen by the others.
Same(v) == /\ pc'[v] = pc[v] /\ op'[v] = op[v] /\ item'[v] = item[v]
           /\ want'[v] = want[v] /\ known'[v] = known[v] /\ dirty'[v] = dirty[v]

\* A request that commits nothing respects the rows and the keys of the others.
LEMMA StepKeeps ==
    ASSUME IInv, NEW r \in Requests, UNCHANGED name,
           \A v \in Requests : v # r => Same(v),
           TypeOK', Stages', FreshItems',
           \A q \in Requests : q # r => Owns(r)' \cap Owns(q) = {},
           op'[r] = "update" /\ dirty'[r] # {} /\ pc'[r] \in {"key", "refresh", "commit", "conflict"}
              => Exists(item'[r]),
           Puts(r)' # {} => /\ Holders(r)' = {}
                            /\ \A q \in Requests : q # r => want'[r] \notin Puts(q)
    PROVE  IInv'
<1>1. UniqueNames'
  BY DEF IInv, UniqueNames, Unique, Exists
<1>2. ASSUME NEW v \in Requests, v # r
      PROVE  Owns(v)' = Owns(v) /\ Puts(v)' = Puts(v) /\ Holders(v)' = Holders(v)
  <2>1. Same(v)
    BY <1>2
  <2>2. Owns(v)' = Owns(v)
    BY <2>1 DEF Same, Owns, Exists
  <2>3. Puts(v)' = Puts(v) /\ Holders(v)' = Holders(v)
    BY <2>1 DEF Same, Puts, Holders
  <2> QED
    BY <2>2, <2>3
<1>3. RowsLocked'
  <2>1. ASSUME NEW v \in Requests, op'[v] = "update", dirty'[v] # {},
               pc'[v] \in {"key", "refresh", "commit", "conflict"}
        PROVE  Exists(item[v])'
    <3>1. CASE v = r
      BY <2>1, <3>1 DEF Exists
    <3>2. CASE v # r
      BY <2>1, <3>2 DEF IInv, RowsLocked, Same, Exists
    <3> QED
      BY <3>1, <3>2
  <2>2. ASSUME NEW v \in Requests, NEW q \in Requests, v # q
        PROVE  Owns(v)' \cap Owns(q)' = {}
    <3>1. CASE v = r
      BY <1>2, <2>2, <3>1
    <3>2. CASE q = r
      BY <1>2, <2>2, <3>2
    <3>3. CASE v # r /\ q # r
      BY <1>2, <2>2, <3>3 DEF IInv, RowsLocked
    <3> QED
      BY <3>1, <3>2, <3>3
  <2> QED
    BY <2>1, <2>2 DEF RowsLocked
<1>4. KeysHeld'
  <2>1. ASSUME NEW v \in Requests, Puts(v)' # {}
        PROVE  Holders(v)' = {} /\ \A q \in Requests : want'[v] \in Puts(q)' => q = v
    <3>1. CASE v = r
      BY <1>2, <2>1, <3>1
    <3>2. CASE v # r
      <4>1. Holders(v)' = {} /\ \A q \in Requests : want[v] \in Puts(q) => q = v
        BY <1>2, <2>1, <3>2 DEF IInv, KeysHeld
      <4>2. want'[v] = want[v] /\ want[v] \in Puts(v)
        BY <1>2, <2>1, <3>2 DEF Same, Puts
      <4>3. want[v] \notin Puts(r)'
        <5>1. CASE Puts(r)' = {}
          BY <5>1
        <5>2. CASE Puts(r)' # {}
          <6>1. Puts(r)' = {want'[r]} /\ want'[r] \notin Puts(v)
            BY <3>2, <5>2 DEF Puts
          <6> QED
            BY <4>2, <6>1
        <5> QED
          BY <5>1, <5>2
      <4> QED
        BY <1>2, <3>2, <4>1, <4>2, <4>3
    <3> QED
      BY <3>1, <3>2
  <2> QED
    BY <2>1 DEF KeysHeld
<1> QED
  BY <1>1, <1>3, <1>4 DEF IInv

\* A request that has put nothing yet, or does so no more.
LEMMA BareKeeps ==
    ASSUME IInv, NEW r \in Requests, UNCHANGED name,
           \A v \in Requests : v # r => Same(v),
           TypeOK', Stages', FreshItems',
           op'[r] = "update" /\ dirty'[r] # {} => pc'[r] \notin {"key", "refresh", "commit", "conflict"},
           op'[r] # "delete" \/ pc'[r] # "commit",
           "name" \in dirty'[r] => pc'[r] \notin {"refresh", "commit"}
    PROVE  IInv'
<1>1. Owns(r)' = {} /\ Puts(r)' = {}
  BY DEF Owns, Puts
<1> QED
  BY <1>1, StepKeeps

-----------------------------------------------------------------------------
\* A request arrives.
LEMMA StartKeeps ==
    ASSUME IInv, NEW r \in Requests, Start(r)
    PROVE  IInv'
<1>1. CASE \E n \in Names : StartCreate(r, n)
  <2>1. PICK n \in Names : StartCreate(r, n)
    BY <1>1
  <2>2. /\ UNCHANGED <<name, item, known, dirty>>
        /\ pc[r] = "idle" /\ pc' = [pc EXCEPT ![r] = "check"]
        /\ op' = [op EXCEPT ![r] = "create"]
        /\ want' = [want EXCEPT ![r] = n]
    BY <2>1 DEF StartCreate, Goto
  <2>3. /\ pc'[r] = "check" /\ op'[r] = "create" /\ want'[r] = n
        /\ item[r] = None /\ dirty[r] = {}
        /\ \A v \in Requests : v # r => Same(v)
    BY <2>2 DEF IInv, TypeOK, Stages, Same
  <2>4. TypeOK'
    BY <2>2 DEF IInv, TypeOK, Steps
  <2>5. Stages'
    BY <2>2, <2>3 DEF IInv, Stages, Same
  <2>6. FreshItems'
    BY <2>2, <2>3 DEF IInv, FreshItems, Same
  <2> QED
    BY <2>2, <2>3, <2>4, <2>5, <2>6, BareKeeps
<1>2. CASE \E l \in Labels, n \in Names \cup {None}, kind \in {"update", "delete"} :
              StartChange(r, kind, l, n)
  <2>1. PICK l \in Labels, n \in Names \cup {None}, kind \in {"update", "delete"} :
              StartChange(r, kind, l, n)
    BY <1>2
  <2>2. /\ UNCHANGED <<name, known, dirty>>
        /\ pc[r] = "idle" /\ pc' = [pc EXCEPT ![r] = "find"]
        /\ name[l] # None
        /\ op' = [op EXCEPT ![r] = kind]
        /\ item' = [item EXCEPT ![r] = l]
        /\ want' = [want EXCEPT ![r] = n]
    BY <2>1 DEF StartChange, Goto
  <2>3. /\ pc'[r] = "find" /\ op'[r] = kind /\ item'[r] = l /\ dirty[r] = {}
        /\ \A v \in Requests : v # r => Same(v)
    BY <2>2 DEF IInv, TypeOK, Stages, Same
  <2>4. TypeOK'
    BY <2>2 DEF IInv, TypeOK, Steps
  <2>5. Stages'
    BY <2>2, <2>3 DEF IInv, Stages, Same
  <2>6. FreshItems'
    BY <2>2, <2>3 DEF IInv, FreshItems, Same
  <2> QED
    BY <2>2, <2>3, <2>4, <2>5, <2>6, BareKeeps
<1> QED
  BY <1>1, <1>2 DEF Start

\* The label is read, and its columns are set in memory.
LEMMA ReadKeeps ==
    ASSUME IInv, NEW r \in Requests, Find(r) \/ SetColumns(r)
    PROVE  IInv'
<1>1. CASE Find(r)
  <2> DEFINE To == CASE op[r] = "delete"                      -> "erase"
                     [] op[r] = "update" /\ want[r] \in {None, name[item[r]]} -> "set"
                     [] OTHER                                 -> "check"
  <2>1. /\ UNCHANGED <<name, op, item, want, dirty>>
        /\ pc[r] = "find" /\ pc' = [pc EXCEPT ![r] = To]
        /\ name[item[r]] \in Names
        /\ known' = [known EXCEPT ![r] = name[item[r]]]
    BY <1>1 DEF Find, Goto, Exists
  <2>2. /\ pc'[r] = To /\ To \in {"erase", "set", "check"} /\ (To = "erase" <=> op[r] = "delete")
        /\ To = "check" => want[r] \in Names
        /\ op[r] \in {"update", "delete"} /\ dirty[r] = {}
        /\ \A v \in Requests : v # r => Same(v)
    <3>1. op[r] \in {"update", "delete"} /\ dirty[r] = {} /\ want[r] \in Names \cup {None}
      BY <2>1 DEF IInv, TypeOK, Stages
    <3>2. /\ To \in {"erase", "set", "check"} /\ (To = "erase" <=> op[r] = "delete")
          /\ To = "check" => want[r] \in Names
      <4>1. CASE op[r] = "delete"
        BY <4>1
      <4>2. CASE op[r] = "update" /\ want[r] \in {None, name[item[r]]}
        BY <4>2
      <4>3. CASE op[r] = "update" /\ want[r] \notin {None, name[item[r]]}
        BY <3>1, <4>3
      <4> QED
        BY <3>1, <4>1, <4>2, <4>3
    <3>3. pc'[r] = To /\ \A v \in Requests : v # r => Same(v)
      BY <2>1 DEF IInv, TypeOK, Same
    <3> QED
      BY <3>1, <3>2, <3>3
  <2>3. TypeOK'
    BY <2>1, <2>2 DEF IInv, TypeOK, Steps
  <2>4. Stages'
    BY <2>1, <2>2 DEF IInv, Stages, Same
  <2>5. FreshItems'
    BY <2>1 DEF IInv, FreshItems
  <2> QED
    BY <2>1, <2>2, <2>3, <2>4, <2>5, BareKeeps
<1>2. CASE SetColumns(r)
  <2>1. PICK D \in SUBSET {"name", "color"} :
           /\ pc[r] = "set" /\ pc' = [pc EXCEPT ![r] = IF D = {} THEN "refresh" ELSE "row"]
           /\ dirty' = [dirty EXCEPT ![r] = D]
           /\ "name" \in D => want[r] \notin {None, known[r]}
           /\ UNCHANGED <<name, op, item, want, known>>
    <3>1. PICK color \in {{}, {"color"}} :
             /\ Goto(r, "set", IF Dirty(r, color) = {} THEN "refresh" ELSE "row")
             /\ dirty' = [dirty EXCEPT ![r] = Dirty(r, color)]
             /\ UNCHANGED <<name, op, item, want, known>>
      BY <1>2 DEF SetColumns
    <3>2. /\ Dirty(r, color) \in SUBSET {"name", "color"}
          /\ "name" \in Dirty(r, color) => want[r] \notin {None, known[r]}
      BY <3>1 DEF Dirty
    <3> QED
      BY <3>1, <3>2 DEF Goto
  <2>2. /\ pc'[r] = (IF D = {} THEN "refresh" ELSE "row") /\ dirty'[r] = D /\ op[r] = "update"
        /\ \A v \in Requests : v # r => Same(v)
    BY <2>1 DEF IInv, TypeOK, Stages, Same
  <2>3. TypeOK'
    BY <2>1 DEF IInv, TypeOK, Steps
  <2>4. "name" \in D => want[r] \in Names
    BY <2>1 DEF IInv, TypeOK
  <2>5. Stages'
    BY <2>1, <2>2, <2>4 DEF IInv, Stages, Same
  <2>6. FreshItems'
    BY <2>1 DEF IInv, FreshItems
  <2>7. /\ dirty'[r] # {} => pc'[r] = "row"
        /\ pc'[r] \in {"refresh", "row"} /\ (pc'[r] = "refresh" => dirty'[r] = {})
    BY <2>2
  <2> QED
    BY <2>1, <2>2, <2>3, <2>5, <2>6, <2>7, BareKeeps
<1> QED
  BY <1>1, <1>2

\* A fresh id is chosen for the row to insert.
LEMMA InsertKeeps ==
    ASSUME IInv, NEW r \in Requests, Insert(r)
    PROVE  IInv'
<1>1. PICK l \in Labels : /\ name[l] = None /\ \A q \in Requests : item[q] # l
                          /\ item' = [item EXCEPT ![r] = l]
  BY DEF Insert
<1>2. /\ UNCHANGED <<name, op, want, known>>
      /\ pc[r] = "insert" /\ pc' = [pc EXCEPT ![r] = "key"]
      /\ dirty' = [dirty EXCEPT ![r] = {"name"}]
  BY DEF Insert, Goto
<1>3. /\ pc'[r] = "key" /\ dirty'[r] = {"name"} /\ op[r] = "create" /\ item'[r] = l
      /\ \A v \in Requests : v # r => Same(v)
  BY <1>1, <1>2 DEF IInv, TypeOK, Stages, Same
<1>4. TypeOK'
  BY <1>1, <1>2 DEF IInv, TypeOK, Steps
<1>5. Stages'
  BY <1>1, <1>2, <1>3 DEF IInv, Stages, Same
<1>6. FreshItems'
  BY <1>1, <1>2, <1>3 DEF IInv, FreshItems, Same
<1> QED
  BY <1>2, <1>3, <1>4, <1>5, <1>6, BareKeeps

\* A transaction ends and has written nothing.
LEMMA FailKeeps ==
    ASSUME IInv, NEW r \in Requests, Fail(r)
    PROVE  IInv'
<1>1. /\ UNCHANGED name
      /\ pc' = [pc EXCEPT ![r] = "idle"]
      /\ op' = [op EXCEPT ![r] = "none"]
      /\ item' = [item EXCEPT ![r] = None]
      /\ want' = [want EXCEPT ![r] = None]
      /\ known' = [known EXCEPT ![r] = None]
      /\ dirty' = [dirty EXCEPT ![r] = {}]
  BY DEF Fail, End
<1>2. /\ pc'[r] = "idle" /\ op'[r] = "none" /\ item'[r] = None /\ dirty'[r] = {}
      /\ \A v \in Requests : v # r => Same(v)
  BY <1>1 DEF IInv, TypeOK, Same
<1>3. TypeOK'
  BY <1>1 DEF IInv, TypeOK, Steps
<1>4. Stages'
  BY <1>2 DEF IInv, Stages, Same
<1>5. FreshItems'
  BY <1>1, <1>2 DEF IInv, FreshItems, Same
<1> QED
  BY <1>1, <1>2, <1>3, <1>4, <1>5, BareKeeps

\* A statement of the flush, or the service's look at the name.
LEMMA MoveKeeps ==
    ASSUME IInv, NEW r \in Requests,
           \/ NameFree(r) \/ NameTaken(r) \/ WriteRow(r) \/ TakeKey(r) \/ DuplicateKey(r)
           \/ Refresh(r) \/ Erase(r)
    PROVE  IInv'
<1>1. /\ UNCHANGED <<name, op, item, want, known, dirty>>
      /\ pc'[r] \in Steps /\ pc' = [pc EXCEPT ![r] = pc'[r]]
      /\ \/ pc[r] = "check" /\ pc'[r] \in {IF op[r] = "create" THEN "insert" ELSE "set", "conflict"}
         \/ pc[r] = "row" /\ pc'[r] = (IF "name" \in dirty[r] THEN "key" ELSE "refresh")
         \/ pc[r] = "key" /\ pc'[r] \in {"refresh", "conflict"}
         \/ pc[r] = "refresh" /\ pc'[r] = "commit"
         \/ pc[r] = "erase" /\ pc'[r] = "commit"
  BY DEF IInv, TypeOK, Steps, NameFree, NameTaken, WriteRow, TakeKey, DuplicateKey, Refresh, Erase,
         Goto, locals
<1>2. \A v \in Requests : v # r => Same(v)
  BY <1>1 DEF IInv, TypeOK, Same
<1>3. TypeOK'
  BY <1>1 DEF IInv, TypeOK
<1>4. Stages'
  BY <1>1, <1>2 DEF IInv, Stages, Same
<1>5. FreshItems'
  BY <1>1 DEF IInv, FreshItems
<1>6. pc[r] \in {"row", "erase"} => \A q \in Requests : q # r => item[r] \notin Owns(q)
  BY DEF NameFree, NameTaken, WriteRow, TakeKey, DuplicateKey, Refresh, Erase, Goto, Owned, Others
<1>7. ASSUME NEW q \in Requests, q # r PROVE Owns(r)' \cap Owns(q) = {}
  <2>1. CASE pc[r] \in {"row", "erase"}
    BY <1>1, <1>6, <1>7, <2>1 DEF Owns
  <2>2. CASE pc[r] \in {"check", "key", "refresh"}
    <3>1. Owns(r)' \subseteq Owns(r)
      BY <1>1, <2>2 DEF IInv, Stages, Owns, Exists
    <3> QED
      BY <1>7, <3>1 DEF IInv, RowsLocked
  <2> QED
    BY <1>1, <2>1, <2>2
<1>8. ASSUME op[r] = "update", dirty[r] # {}, pc'[r] \in {"key", "refresh", "commit", "conflict"}
      PROVE  Exists(item[r])
  <2>1. CASE pc[r] = "row"
    BY <2>1 DEF NameFree, NameTaken, WriteRow, TakeKey, DuplicateKey, Refresh, Erase, Goto
  <2>2. CASE pc[r] # "row"
    BY <1>1, <1>8, <2>2 DEF IInv, Stages, RowsLocked
  <2> QED
    BY <2>1, <2>2
<1>9. ASSUME Puts(r)' # {}
      PROVE  Holders(r)' = {} /\ \A q \in Requests : q # r => want[r] \notin Puts(q)
  <2>1. Holders(r)' = Holders(r) /\ "name" \in dirty[r] /\ pc'[r] \in {"refresh", "commit"}
    BY <1>1, <1>9 DEF Holders, Puts
  <2>2. CASE pc[r] = "key"
    <3>1. TakeKey(r) \/ DuplicateKey(r)
      BY <2>2 DEF NameFree, NameTaken, WriteRow, Refresh, Erase, Goto
    <3>2. ~DuplicateKey(r)
      BY <2>1 DEF IInv, TypeOK, DuplicateKey, Goto
    <3>3. Holders(r) = {} /\ want[r] \notin Put(Others(r))
      BY <3>1, <3>2 DEF TakeKey
    <3> QED
      BY <2>1, <3>3 DEF Put, Others
  <2>3. CASE pc[r] = "refresh"
    BY <2>1, <2>3 DEF IInv, KeysHeld, Puts
  <2>4. pc[r] # "check"
    BY <1>1, <2>1
  <2>5. pc[r] # "row"
    BY <1>1, <2>1
  <2>6. pc[r] # "erase"
    BY <2>1 DEF IInv, TypeOK, Stages
  <2> QED
    BY <1>1, <2>2, <2>3, <2>4, <2>5, <2>6
<1> QED
  BY <1>1, <1>2, <1>3, <1>4, <1>5, <1>7, <1>8, <1>9, StepKeeps

-----------------------------------------------------------------------------
\* The transaction writes a name.
WritesName(r) == op[r] \in {"create", "update"} /\ "name" \in dirty[r]

\* What a commit makes of the label, and that none of it is of another transaction.
LEMMA CommitWrites ==
    ASSUME IInv, NEW r \in Requests, Commit(r)
    PROVE  /\ item[r] \in Labels
           /\ WritesName(r) => /\ name' = [name EXCEPT ![item[r]] = want[r]]
                               /\ want[r] \in Names /\ Holders(r) = {}
                               /\ (op[r] = "create" /\ name[item[r]] = None) \/ Exists(item[r])
                               /\ \A q \in Requests : q # r => want[r] \notin Puts(q)
           /\ op[r] = "delete" /\ Exists(item[r]) =>
                  ~WritesName(r) /\ name' = [name EXCEPT ![item[r]] = Gone]
           /\ \/ WritesName(r)
              \/ op[r] = "delete" /\ Exists(item[r])
              \/ name' = name
           /\ name' # name => \A q \in Requests : q # r =>
                  /\ item[r] \notin Owns(q)
                  /\ item[q] # item[r] \/ (op[q] # "create" /\ Exists(item[r]))
<1>1. /\ pc[r] = "commit" /\ name' = [name EXCEPT ![item[r]] = Written(r)]
      /\ name \in [Labels -> Names \cup {None, Gone}]
  BY DEF Commit, IInv, TypeOK
<1>2. /\ op[r] \in {"create", "update", "delete"} /\ item[r] \in Labels
      /\ op[r] = "delete" => dirty[r] = {}
      /\ op[r] = "create" => dirty[r] = {"name"}
      /\ "name" \in dirty[r] => want[r] \in Names
  BY <1>1 DEF IInv, TypeOK, Stages
<1>3. ASSUME WritesName(r)
      PROVE  /\ name' = [name EXCEPT ![item[r]] = want[r]]
             /\ want[r] \in Names /\ Holders(r) = {}
             /\ (op[r] = "create" /\ name[item[r]] = None) \/ Exists(item[r])
             /\ \A q \in Requests : q # r => want[r] \notin Puts(q)
  <2>1. op[r] # "delete" /\ "name" \in dirty[r] /\ want[r] \in Names
    BY <1>2, <1>3 DEF WritesName
  <2>2. Written(r) = want[r]
    BY <2>1 DEF Written
  <2>3. Puts(r) # {}
    BY <1>1, <2>1 DEF Puts
  <2>4. (op[r] = "create" /\ name[item[r]] = None) \/ Exists(item[r])
    BY <1>1, <1>2, <2>1 DEF IInv, FreshItems, RowsLocked
  <2> QED
    BY <1>1, <2>1, <2>2, <2>3, <2>4 DEF IInv, KeysHeld
<1>4. ASSUME op[r] = "delete", Exists(item[r])
      PROVE  ~WritesName(r) /\ name' = [name EXCEPT ![item[r]] = Gone]
  <2>1. dirty[r] = {} /\ ~WritesName(r)
    BY <1>2, <1>4 DEF WritesName
  <2>2. Written(r) = Gone
    BY <1>4, <2>1 DEF Written
  <2> QED
    BY <1>1, <2>1, <2>2
<1>5. CASE ~WritesName(r) /\ ~(op[r] = "delete" /\ Exists(item[r]))
  <2>1. "name" \notin dirty[r] /\ (op[r] = "delete" => ~Exists(item[r]))
    BY <1>2, <1>5 DEF WritesName
  <2>2. Written(r) = name[item[r]]
    BY <2>1 DEF Written
  <2>3. name' = name
    BY <1>1, <1>2, <2>2
  <2> QED
    BY <1>2, <1>5, <2>3
<1>6. CASE WritesName(r) \/ (op[r] = "delete" /\ Exists(item[r]))
  <2>1. CASE op[r] = "create"
    <3>1. name[item[r]] = None /\ \A q \in Requests : item[q] = item[r] => q = r
      BY <1>2, <2>1 DEF IInv, FreshItems
    <3>2. \A q \in Requests : q # r => item[r] \notin Owns(q) /\ item[q] # item[r]
      BY <3>1 DEF Owns, Exists
    <3>3. WritesName(r) /\ ~(op[r] = "delete")
      BY <1>6, <2>1
    <3>4. \A q \in Requests : q # r =>
             /\ item[r] \notin Owns(q)
             /\ item[q] # item[r] \/ (op[q] # "create" /\ Exists(item[r]))
      BY <3>2
    <3>5. item[r] \in Labels
      BY <1>2
    <3> QED
      BY <1>3, <3>3, <3>4, <3>5
  <2>2. CASE op[r] # "create"
    <3>1. Exists(item[r])
      BY <1>3, <1>6, <2>2
    <3>2. item[r] \in Owns(r)
      BY <1>1, <1>2, <1>6, <2>2, <3>1 DEF Owns, WritesName
    <3>3. ASSUME NEW q \in Requests, q # r
          PROVE  /\ item[r] \notin Owns(q)
                 /\ item[q] # item[r] \/ op[q] # "create"
      <4>1. item[r] \notin Owns(q)
        BY <3>2, <3>3 DEF IInv, RowsLocked
      <4>2. item[q] # item[r] \/ op[q] # "create"
        BY <1>2, <3>3, <3>1 DEF IInv, FreshItems
      <4> QED
        BY <4>1, <4>2
    <3> QED
      BY <1>2, <1>3, <1>4, <1>6, <3>1, <3>3
  <2> QED
    BY <2>1, <2>2
<1> QED
  BY <1>5, <1>6

\* The label takes the name that was put for it, or is gone, or is left alone.
LEMMA CommitKeeps ==
    ASSUME IInv, NEW r \in Requests, Commit(r)
    PROVE  IInv'
<1>1. /\ pc' = [pc EXCEPT ![r] = "idle"]
      /\ op' = [op EXCEPT ![r] = "none"]
      /\ item' = [item EXCEPT ![r] = None]
      /\ want' = [want EXCEPT ![r] = None]
      /\ known' = [known EXCEPT ![r] = None]
      /\ dirty' = [dirty EXCEPT ![r] = {}]
  BY DEF Commit, End
<1>2. /\ pc'[r] = "idle" /\ op'[r] = "none" /\ item'[r] = None /\ dirty'[r] = {}
      /\ \A v \in Requests : v # r => Same(v)
  BY <1>1 DEF IInv, TypeOK, Same
<1> DEFINE l == item[r]
<1>3. /\ l \in Labels /\ name \in [Labels -> Names \cup {None, Gone}]
      /\ name' \in [Labels -> Names \cup {None, Gone}]
      /\ \A k \in Labels : k # l => name'[k] = name[k]
      /\ \/ name' = name
         \/ name'[l] = Gone /\ Exists(l)
         \/ /\ name'[l] = want[r] /\ want[r] \in Names /\ Holders(r) = {}
            /\ op[r] = "create" \/ Exists(l)
            /\ \A q \in Requests : q # r => want[r] \notin Puts(q)
  BY CommitWrites DEF IInv, TypeOK
<1>4. TypeOK'
  BY <1>1, <1>3 DEF IInv, TypeOK, Steps
<1>5. UniqueNames'
  BY <1>3 DEF IInv, UniqueNames, Unique, Exists, Holders
<1>6. Stages'
  BY <1>2 DEF IInv, Stages, Same
<1>7. FreshItems'
  <2>1. ASSUME NEW v \in Requests, op'[v] = "create", item'[v] \in Labels
        PROVE  /\ name'[item'[v]] = None
               /\ \A q \in Requests : item'[q] = item'[v] => q = v
    <3>1. /\ v # r /\ op[v] = "create" /\ item[v] = item'[v]
      BY <1>2, <2>1 DEF Same
    <3>2. /\ name[item[v]] = None
          /\ \A q \in Requests : item[q] = item[v] => q = v
      BY <2>1, <3>1 DEF IInv, FreshItems
    <3>3. item[v] # l
      BY <3>1, <3>2
    <3> QED
      BY <1>2, <1>3, <2>1, <3>1, <3>2, <3>3 DEF Same
  <2> QED
    BY <2>1 DEF FreshItems
<1>8. ASSUME NEW v \in Requests, v # r, name' # name
      PROVE  l \notin Owns(v) /\ (item[v] # l \/ (op[v] # "create" /\ Exists(l)))
  BY <1>8, CommitWrites
<1>9. RowsLocked'
  <2>1. ASSUME NEW v \in Requests, op'[v] = "update", dirty'[v] # {},
               pc'[v] \in {"key", "refresh", "commit", "conflict"}
        PROVE  Exists(item[v])'
    <3>1. /\ v # r /\ op[v] = "update" /\ dirty[v] # {} /\ item'[v] = item[v]
          /\ pc[v] \in {"key", "refresh", "commit", "conflict"} /\ item[v] \in Labels
      BY <1>2, <2>1 DEF Same, IInv, Stages
    <3>2. Exists(item[v]) /\ item[v] \in Owns(v)
      BY <3>1 DEF IInv, RowsLocked, Owns
    <3>3. name'[item[v]] = name[item[v]]
      BY <1>3, <1>8, <3>1, <3>2
    <3> QED
      BY <3>1, <3>2, <3>3 DEF Exists
  <2>2. ASSUME NEW v \in Requests PROVE Owns(v)' \subseteq Owns(v)
    <3>1. CASE v = r
      BY <1>2, <3>1 DEF Owns
    <3>2. CASE v # r /\ name' # name
      <4>1. item[v] = l => Exists(l)
        BY <1>8, <3>2
      <4>2. \A k \in Labels : k = item[v] /\ Exists(k)' => Exists(k)
        BY <1>3, <4>1 DEF Exists
      <4> QED
        BY <1>2, <3>2, <4>2 DEF Owns, Same
    <3>3. CASE v # r /\ name' = name
      BY <1>2, <3>3 DEF Owns, Same, Exists
    <3> QED
      BY <3>1, <3>2, <3>3
  <2> QED
    BY <2>1, <2>2 DEF IInv, RowsLocked
<1>10. KeysHeld'
  <2>1. ASSUME NEW v \in Requests, Puts(v)' # {}
        PROVE  Holders(v)' = {} /\ \A q \in Requests : want'[v] \in Puts(q)' => q = v
    <3>1. v # r /\ Same(v) /\ Puts(v) = {want[v]} /\ "name" \in dirty[v]
      BY <1>2, <2>1 DEF Puts, Same
    <3>2. want[v] \in Names
      BY <3>1 DEF IInv, TypeOK, Stages
    <3>3. Holders(v) = {} /\ \A q \in Requests : want[v] \in Puts(q) => q = v
      BY <3>1 DEF IInv, KeysHeld
    <3>4. \A q \in Requests : Puts(q)' \subseteq Puts(q)
      BY <1>2 DEF Puts, Same
    <3>5. ASSUME NEW k \in Labels, k # item[v] PROVE name'[k] # want[v]
      <4>1. name[k] # want[v]
        BY <3>3, <3>5 DEF Holders
      <4> QED
        BY <1>3, <3>1, <3>2, <4>1
    <3>6. Holders(v)' = {}
      BY <3>1, <3>5 DEF Holders, Same
    <3> QED
      BY <3>1, <3>3, <3>4, <3>6 DEF Same
  <2> QED
    BY <2>1 DEF KeysHeld
<1> QED
  BY <1>4, <1>5, <1>6, <1>7, <1>9, <1>10 DEF IInv

-----------------------------------------------------------------------------
\* Every step keeps the invariant.
LEMMA NextInvariant == IInv /\ [Next]_vars => IInv'
<1> SUFFICES ASSUME IInv, [Next]_vars PROVE IInv'
  OBVIOUS
<1>1. ASSUME NEW r \in Requests, Start(r) PROVE IInv'
  BY <1>1, StartKeeps
<1>2. ASSUME NEW r \in Requests, Detect(r) \/ Abort(r) PROVE IInv'
  BY <1>2, FailKeeps DEF Detect, Abort
<1>3. ASSUME NEW r \in Requests, Step(r) PROVE IInv'
  <2>1. CASE NotFound(r) \/ RowLost(r) \/ Conflict(r) \/ RefreshFails(r)
    BY <2>1, FailKeeps DEF NotFound, RowLost, Conflict, RefreshFails
  <2> QED
    BY <1>3, <2>1, ReadKeeps, InsertKeeps, MoveKeeps, CommitKeeps DEF Step
<1>4. CASE UNCHANGED vars
  <2>1. UNCHANGED <<name, pc, op, item, want, known, dirty>>
    BY <1>4 DEF vars, locals
  <2> QED
    BY <2>1 DEF IInv, TypeOK, UniqueNames, Unique, Stages, FreshItems, RowsLocked, KeysHeld, Exists,
                Owns, Puts, Holders
<1> QED
  BY <1>1, <1>2, <1>3, <1>4 DEF Next

\* Whatever overlaps, rows, keys and requests are in the states that the code makes.
THEOREM Invariance == Spec => []IInv
<1>1. Init => IInv
  BY InitInvariant
<1>2. IInv /\ [Next]_vars => IInv'
  BY NextInvariant
<1> QED
  BY <1>1, <1>2, PTL DEF Spec

\* Every variable stays in its type, however many labels, names and requests there are.
THEOREM TypeCorrectness == Spec => []TypeOK
<1>1. IInv => TypeOK
  BY DEF IInv
<1> QED
  BY <1>1, Invariance, PTL

\* However creations, renames and deletions overlap, no two labels of a project have one name.
THEOREM NamesUnique == Spec => []UniqueNames
<1>1. IInv => UniqueNames
  BY DEF IInv
<1> QED
  BY <1>1, Invariance, PTL

\* The assertion in update_label holds: a request in conflict has asked for a name.
THEOREM ConflictsNamed == Spec => []ConflictHasName
<1>1. IInv => ConflictHasName
  BY DEF IInv, TypeOK, Stages, ConflictHasName
<1> QED
  BY <1>1, Invariance, PTL

\* A commit that changes a label means to.
LEMMA CommitMeans ==
    ASSUME IInv, NEW r \in Requests, Commit(r), NEW l \in Labels, name'[l] # name[l]
    PROVE  Means(r, l)
<1>1. pc[r] = "commit" /\ name \in [Labels -> Names \cup {None, Gone}]
  BY DEF Commit, IInv, TypeOK
<1>2. CASE WritesName(r)
  <2>1. /\ name' = [name EXCEPT ![item[r]] = want[r]]
        /\ (op[r] = "create" /\ name[item[r]] = None) \/ Exists(item[r])
    BY <1>2, CommitWrites
  <2>2. item[r] = l /\ name'[l] = want[r]
    BY <1>1, <2>1
  <2>3. CASE op[r] = "create"
    <3>1. name[l] = None
      BY <2>2, <2>3 DEF IInv, FreshItems
    <3> QED
      BY <1>1, <2>2, <2>3, <3>1 DEF Means
  <2>4. CASE op[r] = "update"
    <3>1. want[r] # known[r]
      BY <1>2, <2>4 DEF IInv, Stages, WritesName
    <3>2. Exists(l)
      BY <2>1, <2>2, <2>4
    <3> QED
      BY <1>1, <2>2, <2>4, <3>1, <3>2 DEF Means
  <2> QED
    BY <1>2, <2>3, <2>4 DEF WritesName
<1>3. CASE op[r] = "delete" /\ Exists(item[r])
  <2>1. name' = [name EXCEPT ![item[r]] = Gone]
    BY <1>3, CommitWrites
  <2>2. item[r] = l /\ name'[l] = Gone
    BY <1>1, <2>1
  <2> QED
    BY <1>1, <1>3, <2>2 DEF Means
<1> QED
  BY <1>2, <1>3, CommitWrites

\* Only commits change names, and they mean to.
LEMMA StepMeans ==
    ASSUME IInv, [Next]_vars, NEW l \in Labels, name'[l] # name[l]
    PROVE  \E r \in Requests : Means(r, l)
<1>1. PICK r \in Requests : Start(r) \/ Step(r) \/ Detect(r) \/ Abort(r)
  BY DEF Next, vars
<1>2. Commit(r)
  BY <1>1
  DEF Start, StartCreate, StartChange, Detect, Abort, Step, Find, NotFound, NameFree, NameTaken,
      Insert, SetColumns, WriteRow, RowLost, TakeKey, DuplicateKey, Conflict, Refresh, RefreshFails,
      Erase, Fail
<1> QED
  BY <1>2, CommitMeans

\* A label changes only as the request that commits means it to: no update from a stale copy undoes
\* a rename that was committed since.
THEOREM RenamesMeant == Spec => RenamesAreMeant
<1>1. IInv /\ [Next]_vars =>
         [\A l \in Labels : name'[l] # name[l] => \E r \in Requests : Means(r, l)]_vars
  BY StepMeans
<1> QED
  BY <1>1, Invariance, PTL DEF Spec, RenamesAreMeant

-----------------------------------------------------------------------------
(* The refinement of NameTable.                                            *)

\* The first table has distinct names.
LEMMA RefineInit == Init => Table!Init
BY DEF Init, Table!Init, Unique, Table!Unique, Exists

\* A commit creates, renames or deletes its label, or changes nothing.
LEMMA RefineCommit ==
    ASSUME IInv, NEW r \in Requests, Commit(r)
    PROVE  Table!Next \/ UNCHANGED name
<1> DEFINE l == item[r]
           n == want[r]
<1>1. l \in Labels
  BY CommitWrites
<1>2. CASE WritesName(r)
  <2>1. /\ name' = [name EXCEPT ![l] = n] /\ n \in Names /\ Holders(r) = {}
        /\ name[l] = None \/ Exists(l)
    BY <1>2, CommitWrites
  <2>2. \A k \in Labels : k # l => name[k] # n
    BY <2>1 DEF Holders
  <2>3. CASE name[l] = n
    <3>1. name' = name
      BY <1>1, <2>1, <2>3 DEF IInv, TypeOK
    <3> QED
      BY <3>1
  <2>4. CASE name[l] # n
    <3>1. Table!Create(l, n) \/ Table!Rename(l, n)
      BY <2>1, <2>2, <2>4 DEF Table!Create, Table!Rename, Table!Free, Table!Rewrite, Exists
    <3> QED
      BY <1>1, <2>1, <3>1 DEF Table!Next, Table!Create, Table!Rename, Table!Rewrite
  <2> QED
    BY <2>3, <2>4
<1>3. CASE op[r] = "delete" /\ Exists(l)
  <2>1. Table!Delete(l)
    BY <1>3, CommitWrites DEF Table!Delete, Table!Rewrite, Exists
  <2> QED
    BY <1>1, <2>1 DEF Table!Next, Table!Delete, Table!Rewrite
<1> QED
  BY <1>2, <1>3, CommitWrites

\* Every step is one of the name table, or leaves it alone.
LEMMA RefineStep == IInv /\ [Next]_vars => [Table!Next]_name
<1> SUFFICES ASSUME IInv, [Next]_vars PROVE Table!Next \/ UNCHANGED name
  OBVIOUS
<1>1. ASSUME NEW r \in Requests, Start(r) PROVE UNCHANGED name
  BY <1>1 DEF Start, StartCreate, StartChange
<1>2. ASSUME NEW r \in Requests, Step(r) PROVE Table!Next \/ UNCHANGED name
  <2>1. CASE Commit(r)
    BY <2>1, RefineCommit
  <2>2. CASE ~Commit(r)
    BY <1>2, <2>2 DEF Step, Find, NotFound, NameFree, NameTaken, Insert, SetColumns, WriteRow, RowLost,
                     TakeKey, DuplicateKey, Conflict, Refresh, RefreshFails, Erase, Fail
  <2> QED
    BY <2>1, <2>2
<1>3. ASSUME NEW r \in Requests, Detect(r) \/ Abort(r) PROVE UNCHANGED name
  BY <1>3 DEF Detect, Abort, Fail
<1> QED
  BY <1>1, <1>2, <1>3 DEF Next, vars

\* The requests with their checks, locks and keys change the names one label at a time, each to a
\* free name.
THEOREM Refinement == Spec => ImplementsTable
<1>1. Init => Table!Init
  BY RefineInit
<1>2. IInv /\ [Next]_vars => [Table!Next]_name
  BY RefineStep
<1> QED
  BY <1>1, <1>2, Invariance, PTL DEF Spec, ImplementsTable, Table!Spec
=============================================================================
