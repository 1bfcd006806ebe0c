-------------------------- MODULE WorkspaceMembers --------------------------
(***************************************************************************)
(* The members of one workspace: the owner's requests that add and remove  *)
(* them, as transactions that overlap, and the unique key of a membership  *)
(* in PostgreSQL.                                                          *)
(*                                                                         *)
(* A membership is a row with an id of its own: a user who is removed and  *)
(* added again has another row.  What a transaction wrote is seen by the   *)
(* others when it commits, and is waited for by those who write the same   *)
(* row or key.  The role of a member is in TaskAssignment.                 *)
(***************************************************************************)
CONSTANTS Admins,      \* requests of the owner
          Users,       \* users he may add
          Rows,        \* ids of memberships
          Unused, Gone \* a row that has not been inserted, or has been deleted

ASSUME RowStates == Users \cap {Unused, Gone} = {} /\ Unused # Gone

VARIABLES member,      \* workspace_members: the user of each row
          apc, aop,    \* where a request is, and what it does
          who,         \* the user it adds or removes
          mrow,        \* the row it inserts or deletes, or Unused
          fresh        \* history: rows committed since a removal loaded its own

adminVars  == <<apc, aop, who, mrow, fresh>>
memberVars == <<member, adminVars>>

MembersInit ==
    /\ member = [m \in Rows |-> Unused]
    /\ apc = [a \in Admins |-> "idle"]
    /\ aop = [a \in Admins |-> "none"]
    /\ who = [a \in Admins |-> Unused]
    /\ mrow = [a \in Admins |-> Unused]
    /\ fresh = [a \in Admins |-> {}]

RowsOf(u)  == {m \in Rows : member[m] = u}
Members    == {u \in Users : RowsOf(u) # {}}

\* Rows that a transaction has inserted or deleted and not committed.
Unsettled(op) == {mrow[a] : a \in {b \in Admins : apc[b] = "commit" /\ aop[b] = op}}

Advance(a, from, to) == apc[a] = from /\ apc' = [apc EXCEPT ![a] = to]

Leave(a) == /\ apc' = [apc EXCEPT ![a] = "idle"]
            /\ aop' = [aop EXCEPT ![a] = "none"]
            /\ who' = [who EXCEPT ![a] = Unused]
            /\ mrow' = [mrow EXCEPT ![a] = Unused]

-----------------------------------------------------------------------------
\* add_member: the invited user exists, is active and not the owner, and no
\* membership of his is found; otherwise the request is refused.
StartAdd(a, u) ==
    /\ u \notin Members
    /\ Advance(a, "idle", "write")
    /\ aop' = [aop EXCEPT ![a] = "add"]
    /\ who' = [who EXCEPT ![a] = u]
    /\ UNCHANGED <<member, mrow, fresh>>

\* remove_member: the membership is loaded; without one the request is refused.
StartRemove(a, u) ==
    /\ Advance(a, "idle", "write")
    /\ aop' = [aop EXCEPT ![a] = "remove"]
    /\ who' = [who EXCEPT ![a] = u]
    /\ \E m \in RowsOf(u) : mrow' = [mrow EXCEPT ![a] = m]
    /\ UNCHANGED <<member, fresh>>

\* The insert waits for whoever has written a row with the key.
KeyFree(u) == /\ \A a \in Admins : ~(apc[a] = "commit" /\ aop[a] = "add" /\ who[a] = u)
              /\ RowsOf(u) \cap Unsettled("remove") = {}

\* Mutant: there is no unique key.
InsertAny(a) ==
    /\ aop[a] = "add"
    /\ Advance(a, "write", "commit")
    /\ \E m \in Rows \ Unsettled("add") :
          /\ member[m] = Unused
          /\ mrow' = [mrow EXCEPT ![a] = m]
    /\ UNCHANGED <<member, aop, who, fresh>>

\* create_member: the row is inserted.
Insert(a) ==
    /\ aop[a] = "add"
    /\ Advance(a, "write", "commit")
    /\ KeyFree(who[a]) /\ who[a] \notin Members
    /\ \E m \in Rows \ Unsettled("add") :
          /\ member[m] = Unused
          /\ mrow' = [mrow EXCEPT ![a] = m]
    /\ UNCHANGED <<member, aop, who, fresh>>

\* create_member: a unique violation becomes WorkspaceMemberAlreadyExistsError.
Duplicate(a) ==
    /\ aop[a] = "add" /\ apc[a] = "write"
    /\ KeyFree(who[a]) /\ who[a] \in Members
    /\ Leave(a)
    /\ UNCHANGED <<member, fresh>>

\* Mutant: DELETE ... WHERE user_id = ..., whatever row that is by now.
EraseByUser(a) ==
    /\ aop[a] = "remove"
    /\ Advance(a, "write", "commit")
    /\ RowsOf(who[a]) \cap Unsettled("remove") = {}
    /\ IF who[a] \in Members
         THEN \E m \in RowsOf(who[a]) : mrow' = [mrow EXCEPT ![a] = m]
         ELSE UNCHANGED mrow
    /\ UNCHANGED <<member, aop, who, fresh>>

\* delete_member: waits for whoever deletes the row.  If it is gone by then, the
\* DELETE matches nothing, and the ORM only warns.
Erase(a) ==
    /\ aop[a] = "remove"
    /\ Advance(a, "write", "commit")
    /\ member[mrow[a]] = Gone \/ mrow[a] \notin Unsettled("remove")
    /\ UNCHANGED <<member, aop, who, mrow, fresh>>

\* get_db: the membership is there, or is gone.
CommitAdd(a) ==
    /\ apc[a] = "commit" /\ aop[a] = "add"
    /\ member' = [member EXCEPT ![mrow[a]] = who[a]]
    /\ Leave(a)
    /\ fresh' = [b \in Admins |->
                    IF aop[b] = "remove" THEN fresh[b] \cup {mrow[a]} ELSE fresh[b]]

CommitRemove(a) ==
    /\ apc[a] = "commit" /\ aop[a] = "remove"
    /\ member' = [member EXCEPT ![mrow[a]] = Gone]
    /\ Leave(a)
    /\ fresh' = [fresh EXCEPT ![a] = {}]

\* A statement or the commit fails, or the process dies: nothing is written.
Abort(a) ==
    /\ apc[a] # "idle"
    /\ Leave(a)
    /\ fresh' = [fresh EXCEPT ![a] = {}]
    /\ UNCHANGED member

MembersNext ==
    \E a \in Admins :
       \/ \E u \in Users : StartAdd(a, u) \/ StartRemove(a, u)
       \/ Insert(a) \/ Duplicate(a) \/ Erase(a)
       \/ CommitAdd(a) \/ CommitRemove(a) \/ Abort(a)

-----------------------------------------------------------------------------
MembersTypeOK ==
    /\ member \in [Rows -> Users \cup {Unused, Gone}]
    /\ apc \in [Admins -> {"idle", "write", "commit"}]
    /\ aop \in [Admins -> {"none", "add", "remove"}]
    /\ who \in [Admins -> Users \cup {Unused}]
    /\ mrow \in [Admins -> Rows \cup {Unused}]
    /\ fresh \in [Admins -> SUBSET Rows]

\* However many requests add a user at a time, he is a member once: the access
\* query expects at most one row of him.
OneMembership == \A m, n \in Rows : member[m] = member[n] /\ member[m] \in Users => m = n

\* A removal takes the membership it has found, and never one that was granted
\* afterwards, however long it waits.
RemovalIsExact ==
    [][\A m \in Rows :
          member[m] \in Users /\ member'[m] # member[m] =>
             \E a \in Admins : mrow[a] = m /\ m \notin fresh[a]]_member

-----------------------------------------------------------------------------
\* A row that is being inserted is nobody's yet, nor is its key.
AddsExclusive ==
    \A a \in Admins :
       apc[a] = "commit" /\ aop[a] = "add" =>
          /\ mrow[a] \in Rows /\ member[mrow[a]] = Unused
          /\ who[a] \in Users \ Members
          /\ \A b \in Admins \ {a} :
                apc[b] = "commit" /\ aop[b] = "add" =>
                   who[b] # who[a] /\ mrow[b] # mrow[a]

\* A removal has a row that was there when it began.
RemovalsLoaded ==
    \A a \in Admins :
       IF aop[a] = "remove"
         THEN mrow[a] \in Rows /\ member[mrow[a]] # Unused /\ mrow[a] \notin fresh[a]
         ELSE fresh[a] = {}

\* A request that has begun knows its user.
UsersNamed ==
    \A a \in Admins : /\ apc[a] = "idle" => aop[a] = "none"
                      /\ apc[a] # "idle" => who[a] \in Users

MembersIInv ==
    MembersTypeOK /\ OneMembership /\ AddsExclusive /\ RemovalsLoaded /\ UsersNamed
=============================================================================
