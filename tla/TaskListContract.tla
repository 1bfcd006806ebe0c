-------------------------- MODULE TaskListContract --------------------------
(***************************************************************************)
(* What GET /projects/{project_id}/tasks promises about the age of a page, *)
(* with neither Redis nor transactions in sight.                           *)
(*                                                                         *)
(* The tasks of the project are abstracted to the number of mutations      *)
(* committed so far.  A mutation is covered once an invalidation that      *)
(* follows its commit has been applied to the cache.  A page carries the   *)
(* number of commits its `total' and its `items' were computed from: they  *)
(* come from two statements, and may disagree.                             *)
(***************************************************************************)
EXTENDS Naturals

CONSTANTS Readers,     \* list requests
          MaxCommits   \* bound on the number of committed mutations

VARIABLES db,          \* commits so far
          covered,     \* the last commit covered by an applied invalidation
          request      \* the list requests

vars == <<db, covered, request>>

Idle == [state |-> "idle", low |-> 0, total |-> 0, items |-> 0]

Init == /\ db = 0
        /\ covered = 0
        /\ request = [r \in Readers |-> Idle]

\* A create, update, delete or label request commits.
Commit == /\ db < MaxCommits
          /\ db' = db + 1
          /\ UNCHANGED <<covered, request>>

\* An invalidation is applied: coverage never shrinks.
Cover == /\ covered' \in covered .. db
         /\ UNCHANGED <<db, request>>

\* A list request arrives: what is covered now bounds what it may answer.
Ask(r) == /\ request[r].state = "idle"
          /\ request' = [request EXCEPT ![r] =
                [state |-> "open", low |-> covered, total |-> 0, items |-> 0]]
          /\ UNCHANGED <<db, covered>>

\* The request is answered by a page no older than what was covered when it
\* arrived, whose items are at least as recent as its total.
Answer(r) == /\ request[r].state = "open"
             /\ \E total, items \in request[r].low .. db :
                   /\ total <= items
                   /\ request' = [request EXCEPT ![r] =
                         [state |-> "answered", low |-> request[r].low,
                          total |-> total, items |-> items]]
             /\ UNCHANGED <<db, covered>>

\* The response leaves, or the request dies without one.
Close(r) == /\ request[r].state # "idle"
            /\ request' = [request EXCEPT ![r] = Idle]
            /\ UNCHANGED <<db, covered>>

Next == \/ Commit
        \/ Cover
        \/ \E r \in Readers : Ask(r) \/ Answer(r) \/ Close(r)

Spec == Init /\ [][Next]_vars
=============================================================================
