----------------------------- MODULE TaskPaging -----------------------------
(***************************************************************************)
(* A client walks the pages of a project's task list while other requests  *)
(* create, change and delete tasks.  Each page is computed by two          *)
(* statements, a count and a select with OFFSET and LIMIT, that see         *)
(* different commits; the next page is another request, some time later.   *)
(*                                                                         *)
(* Tasks are named by their ids, so that < on names is < on ids.  A task   *)
(* joins the list when it is created or comes to match the filters, and    *)
(* leaves it when it is deleted or matches them no longer.  Pages that the *)
(* cache answers are older, by as much as TaskListContract allows.         *)
(***************************************************************************)
EXTENDS FiniteSets, Integers, Sequences, SequencesExt

CONSTANTS Tasks,       \* ids of tasks
          Times,       \* values of created_at
          Sizes,       \* page sizes asked for
          MaxChanges   \* bound on the commits that change the list during a walk

ASSUME PagingBounds == /\ Tasks \subseteq Nat /\ IsFiniteSet(Tasks) /\ Times \subseteq Nat
                       /\ Sizes \subseteq Nat \ {0} /\ MaxChanges \in Nat

VARIABLES created,     \* created_at
          listed,      \* tasks of the project that match the filters
          size,        \* page_size of the walk
          page,        \* page being loaded
          pc,          \* statement that comes next
          total,       \* result of the count
          seen,        \* history: on how many pages the client saw a task
          stayed,      \* history: tasks listed since the walk began
          joins,       \* history: tasks that joined during the walk
          leaves,      \* history: tasks that left during the walk
          torn         \* history: tasks that joined between a count and its select

walkVars    == <<size, page, pc, total>>
historyVars == <<stayed, joins, leaves, torn>>
vars == <<created, listed, walkVars, seen, historyVars>>

Begin(s) == /\ size = s /\ page = 1 /\ total = 0
            /\ pc = "count"
            /\ seen = [t \in Tasks |-> 0]
            /\ joins = 0 /\ leaves = 0 /\ torn = 0

Init == /\ created \in [Tasks -> Times]
        /\ listed \in SUBSET Tasks
        /\ stayed = listed
        /\ \E s \in Sizes : Begin(s)

\* Mutant: ORDER BY created_at DESC alone.
Newer(t, u) == created[t] > created[u]

\* ORDER BY created_at DESC, id DESC: t comes before u.
Before(t, u) == created[t] > created[u] \/ (created[t] = created[u] /\ t > u)

\* The orders in which the database may return the tasks.
Listings ==
    {s \in SetToSeqs(listed) :
        \A i, j \in DOMAIN s : Before(s[j], s[i]) => j < i}

\* Mutants: the offset counts from page 0; an even division gets a page more.
OffsetFromZero(p) == p * size
OnePageMore(n) == n \div size + 1

Offset(p) == (p - 1) * size
TotalPages(n) == (n + size - 1) \div size

\* OFFSET and LIMIT.
Items(s) == {s[i] : i \in DOMAIN s \cap (Offset(page) + 1 .. Offset(page) + size)}

-----------------------------------------------------------------------------
\* list_by_project: the count.
CountTasks ==
    /\ pc = "count"
    /\ total' = Cardinality(listed)
    /\ pc' = "select"
    /\ UNCHANGED <<created, listed, size, page, seen, historyVars>>

\* list_by_project: the rows.  The response carries them and the number of
\* pages, and the client asks for the next page as long as there is one.
SelectTasks ==
    /\ pc = "select"
    /\ \E s \in Listings :
          seen' = [t \in Tasks |-> IF t \in Items(s) THEN seen[t] + 1 ELSE seen[t]]
    /\ IF page < TotalPages(total)
         THEN page' = page + 1 /\ pc' = "count"
         ELSE page' = page /\ pc' = "done"
    /\ UNCHANGED <<created, listed, size, total, historyVars>>

\* create_task, or an update, commits: the task is listed from now on.
Join(t) ==
    /\ pc # "done" /\ joins + leaves < MaxChanges
    /\ t \notin listed
    /\ listed' = listed \cup {t}
    /\ joins' = joins + 1
    /\ torn' = IF pc = "select" THEN torn + 1 ELSE torn
    /\ UNCHANGED <<created, walkVars, seen, stayed, leaves>>

\* delete_task, or an update, commits: the task is no longer listed.
Leave(t) ==
    /\ pc # "done" /\ joins + leaves < MaxChanges
    /\ t \in listed
    /\ listed' = listed \ {t}
    /\ stayed' = stayed \ {t}
    /\ leaves' = leaves + 1
    /\ UNCHANGED <<created, walkVars, seen, joins, torn>>

Next == \/ CountTasks \/ SelectTasks
        \/ \E t \in Tasks : Join(t) \/ Leave(t)

Spec == Init /\ [][Next]_vars

-----------------------------------------------------------------------------
WalkTypeOK ==
    /\ created \in [Tasks -> Times]
    /\ listed \subseteq Tasks /\ stayed \subseteq listed
    /\ size \in Sizes
    /\ page \in {1} \cup 1 .. Cardinality(Tasks)
    /\ total \in 0 .. Cardinality(Tasks)
    /\ pc \in {"count", "select", "done"}
    /\ seen \in [Tasks -> 0 .. page]
    /\ joins \in Nat /\ leaves \in Nat /\ torn \in 0 .. joins

Missed == {t \in stayed : seen[t] = 0}
Repeated == {t \in stayed : seen[t] > 1}

\* A walk shows every task that was listed all along, and shows it once, but for
\* what other requests moved across the edge of a page: one task is missed for
\* each that left, or joined behind the back of the last count, and one is
\* repeated for each that joined.  Equal times of creation make no difference.
EveryTaskOnce ==
    pc = "done" => /\ Cardinality(Missed) <= leaves + torn
                   /\ Cardinality(Repeated) <= joins
-----------------------------------------------------------------------------
(* Why a walk is exact: the inductive form.                                *)

\* How many tasks are listed before t.
Rank(t) == Cardinality({u \in listed : Before(u, t)})

\* Behind the edge of the next page without having been seen; seen, and ahead of it again.
Passed == {t \in stayed : seen[t] = 0 /\ Rank(t) < Offset(page)}
Again  == {t \in stayed : seen[t] > 0 /\ Rank(t) >= Offset(page)}

\* A page shows a task once.
SeenPerPage == pc # "done" => \A t \in Tasks : seen[t] < page

\* What the last count does not know of joined after it.
CountedOrTorn == pc = "select" => Cardinality(listed) <= total + torn

\* A task crosses the edge of the next page only when one leaves or joins before it.
Crossings ==
    pc # "done" => /\ Cardinality(Passed) <= leaves
                   /\ Cardinality(Repeated) + Cardinality(Again) <= joins

IInv == WalkTypeOK /\ SeenPerPage /\ CountedOrTorn /\ Crossings /\ EveryTaskOnce
=============================================================================
