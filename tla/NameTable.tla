------------------------------ MODULE NameTable ------------------------------
(***************************************************************************)
(* What the labels of a project promise about their names: labels come and *)
(* go one at a time, each with a name that no other has, and a label that  *)
(* was deleted does not come back.                                         *)
(***************************************************************************)
CONSTANTS Labels, Names,
          None,        \* not created yet
          Gone         \* deleted

VARIABLE name          \* the name of each label

Unique(f) == \A l, k \in Labels : l # k /\ f[l] = f[k] => f[l] \notin Names

Init == name \in [Labels -> Names \cup {None}] /\ Unique(name)

Rewrite(l, n) == name' = [name EXCEPT ![l] = n]

Free(n) == \A l \in Labels : name[l] # n

Create(l, n) == name[l] = None /\ Free(n) /\ Rewrite(l, n)
Rename(l, n) == name[l] \in Names /\ Free(n) /\ Rewrite(l, n)
Delete(l)    == name[l] \in Names /\ Rewrite(l, Gone)

Next == \E l \in Labels : \/ \E n \in Names : Create(l, n) \/ Rename(l, n)
                          \/ Delete(l)

Spec == Init /\ [][Next]_name
=============================================================================
