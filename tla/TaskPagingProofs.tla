-------------------------- MODULE TaskPagingProofs --------------------------
(***************************************************************************)
(* Proofs about TaskPaging, for any finite set of tasks, any times of      *)
(* creation, page sizes and bound on the changes.                          *)
(*                                                                         *)
(* The argument: the order of the list is total, so that a task has a rank *)
(* of its own and a page is an interval of ranks.  A task that joins or    *)
(* leaves shifts the ranks behind it by one, so that one task at most      *)
(* crosses the edge of the page that comes next.                           *)
(***************************************************************************)
EXTENDS TaskPaging, FiniteSetTheorems, TLAPS

USE PagingBounds

-----------------------------------------------------------------------------
(* The order and the ranks, for any times of creation c and any list L.    *)

Precedes(c, t, u) == c[t] > c[u] \/ (c[t] = c[u] /\ t > u)

Ahead(c, L, t) == {u \in L : Precedes(c, u, t)}

RankIn(c, L, t) == Cardinality(Ahead(c, L, t))

\* The order is total: equal times are told apart by the ids.
LEMMA OrderTotal ==
    ASSUME NEW c \in [Tasks -> Times], NEW t \in Tasks, NEW u \in Tasks, NEW v \in Tasks
    PROVE  /\ ~Precedes(c, t, t)
           /\ t # u => Precedes(c, t, u) \/ Precedes(c, u, t)
           /\ Precedes(c, t, u) => ~Precedes(c, u, t)
           /\ Precedes(c, t, u) /\ Precedes(c, u, v) => Precedes(c, t, v)
<1>1. /\ t \in Nat /\ u \in Nat /\ v \in Nat
      /\ c[t] \in Nat /\ c[u] \in Nat /\ c[v] \in Nat
  OBVIOUS
<1> QED
  BY <1>1 DEF Precedes

\* A part of the tasks is finite.
LEMMA PartFinite ==
    ASSUME NEW L \in SUBSET Tasks
    PROVE  IsFiniteSet(L) /\ Cardinality(L) \in Nat /\ Cardinality(L) <= Cardinality(Tasks)
BY FS_Subset, FS_CardinalityType

\* A part of a set of tasks is no larger than the set.
LEMMA PartOrdered ==
    ASSUME NEW L \in SUBSET Tasks, NEW M \in SUBSET L
    PROVE  Cardinality(M) <= Cardinality(L)
BY PartFinite, FS_Subset

\* A union has no more tasks than its two parts.
LEMMA UnionBound ==
    ASSUME NEW S \in SUBSET Tasks, NEW T \in SUBSET Tasks, NEW k \in Nat, Cardinality(T) <= k
    PROVE  Cardinality(S \cup T) <= Cardinality(S) + k
<1>1. Cardinality(S \cup T) = Cardinality(S) + Cardinality(T) - Cardinality(S \cap T)
  BY PartFinite, FS_Union
<1>2. S \cap T \in SUBSET Tasks
  OBVIOUS
<1>3. /\ Cardinality(S) \in Nat /\ Cardinality(T) \in Nat
      /\ Cardinality(S \cap T) \in Nat
  BY <1>2, PartFinite
<1> QED
  BY <1>1, <1>3

\* A rank is a number.
LEMMA RankNat ==
    ASSUME NEW c, NEW L \in SUBSET Tasks, NEW t
    PROVE  RankIn(c, L, t) \in Nat
<1>1. Ahead(c, L, t) \in SUBSET Tasks
  BY DEF Ahead
<1> QED
  BY <1>1, PartFinite DEF RankIn

\* Who comes before has the smaller rank, so that no two tasks have the same.
LEMMA RankGrows ==
    ASSUME NEW c \in [Tasks -> Times], NEW L \in SUBSET Tasks, NEW t \in L, NEW u \in L,
           Precedes(c, t, u)
    PROVE  RankIn(c, L, t) < RankIn(c, L, u)
<1> DEFINE A == Ahead(c, L, t)
           B == Ahead(c, L, u)
<1>1. A \in SUBSET Tasks /\ B \in SUBSET Tasks
  BY DEF Ahead
<1>2. t \notin A /\ t \in B
  BY OrderTotal DEF Ahead
<1>3. A \cup {t} \subseteq B
  <2>1. ASSUME NEW v \in A PROVE v \in B
    BY <2>1, OrderTotal DEF Ahead
  <2> QED
    BY <1>2, <2>1
<1>4. Cardinality(A \cup {t}) = Cardinality(A) + 1
  BY <1>1, <1>2, PartFinite, FS_AddElement
<1>5. Cardinality(A \cup {t}) <= Cardinality(B)
  BY <1>1, <1>3, PartOrdered
<1>6. Cardinality(A) \in Nat /\ Cardinality(B) \in Nat
  BY <1>1, PartFinite
<1> QED
  BY <1>4, <1>5, <1>6 DEF RankIn

\* Tasks of the same rank are the same task.
LEMMA RankOwn ==
    ASSUME NEW c \in [Tasks -> Times], NEW L \in SUBSET Tasks, NEW t \in L, NEW u \in L,
           RankIn(c, L, t) = RankIn(c, L, u)
    PROVE  t = u
BY OrderTotal, RankGrows, RankNat

\* One task at most has a given rank.
LEMMA RankOnce ==
    ASSUME NEW c \in [Tasks -> Times], NEW L \in SUBSET Tasks, NEW k,
           NEW R \in SUBSET L, \A t \in R : RankIn(c, L, t) = k
    PROVE  Cardinality(R) <= 1
<1>1. CASE R = {}
  BY <1>1, FS_EmptySet
<1>2. CASE R # {}
  <2>1. PICK t : t \in R
    BY <1>2
  <2>2. R = {t}
    <3>1. ASSUME NEW u \in R PROVE u = t
      <4>1. t \in L /\ u \in L /\ RankIn(c, L, u) = RankIn(c, L, t)
        BY <2>1
      <4> QED
        BY <4>1, RankOwn
    <3> QED
      BY <2>1, <3>1
  <2>3. Cardinality({t}) = 1
    BY FS_Singleton
  <2> QED
    BY <2>2, <2>3
<1> QED
  BY <1>1, <1>2

\* A task that joins moves those behind it back by one.
LEMMA RankAfterJoin ==
    ASSUME NEW c, NEW L \in SUBSET Tasks, NEW x \in Tasks \ L, NEW t \in L
    PROVE  RankIn(c, L \cup {x}, t) \in {RankIn(c, L, t), RankIn(c, L, t) + 1}
<1>1. Ahead(c, L, t) \in SUBSET Tasks /\ IsFiniteSet(Ahead(c, L, t)) /\ x \notin Ahead(c, L, t)
  BY PartFinite DEF Ahead
<1>2. Ahead(c, L \cup {x}, t) = Ahead(c, L, t) \/ Ahead(c, L \cup {x}, t) = Ahead(c, L, t) \cup {x}
  BY DEF Ahead
<1>3. Cardinality(Ahead(c, L, t) \cup {x}) = Cardinality(Ahead(c, L, t)) + 1
  BY <1>1, FS_AddElement
<1> QED
  BY <1>2, <1>3 DEF RankIn

\* A task that leaves moves those behind it up by one.
LEMMA RankAfterLeave ==
    ASSUME NEW c, NEW L \in SUBSET Tasks, NEW x \in L, NEW t \in L \ {x}
    PROVE  RankIn(c, L, t) \in {RankIn(c, L \ {x}, t), RankIn(c, L \ {x}, t) + 1}
<1>1. L \ {x} \in SUBSET Tasks /\ x \in Tasks \ (L \ {x}) /\ L = (L \ {x}) \cup {x}
  OBVIOUS
<1>2. RankIn(c, (L \ {x}) \cup {x}, t) \in {RankIn(c, L \ {x}, t), RankIn(c, L \ {x}, t) + 1}
  BY <1>1, RankAfterJoin
<1> QED
  BY <1>1, <1>2

\* No rank is beyond the end of the list.
LEMMA RankBounded ==
    ASSUME NEW c \in [Tasks -> Times], NEW L \in SUBSET Tasks, NEW t \in L
    PROVE  RankIn(c, L, t) < Cardinality(L)
<1> DEFINE A == Ahead(c, L, t)
<1>1. A \in SUBSET Tasks /\ t \notin A /\ A \cup {t} \subseteq L
  BY OrderTotal DEF Ahead
<1>2. Cardinality(A \cup {t}) = Cardinality(A) + 1
  BY <1>1, PartFinite, FS_AddElement
<1>3. Cardinality(A \cup {t}) <= Cardinality(L)
  BY <1>1, PartOrdered
<1>4. Cardinality(A) \in Nat /\ Cardinality(L) \in Nat
  BY <1>1, PartFinite
<1> QED
  BY <1>2, <1>3, <1>4 DEF RankIn

\* The tasks from rank k on are no more than the list has places there.
LEMMA Beyond ==
    ASSUME NEW c \in [Tasks -> Times], NEW L \in SUBSET Tasks, NEW k \in Nat, NEW m \in Nat,
           Cardinality(L) <= k + m
    PROVE  Cardinality({t \in L : RankIn(c, L, t) >= k}) <= m
<1> DEFINE S == {t \in L : RankIn(c, L, t) >= k}
           f == [t \in S |-> RankIn(c, L, t)]
<1>1. \A t \in L : RankIn(c, L, t) \in Nat /\ RankIn(c, L, t) < k + m
  <2>1. Cardinality(L) \in Nat
    BY PartFinite
  <2> QED
    BY <2>1, RankNat, RankBounded
<1>2. f \in [S -> k .. k + m - 1]
  <2>1. ASSUME NEW t \in S PROVE RankIn(c, L, t) \in k .. k + m - 1
    <3>1. RankIn(c, L, t) \in Nat /\ RankIn(c, L, t) < k + m /\ RankIn(c, L, t) >= k
      BY <1>1
    <3> QED
      BY <3>1
  <2> QED
    BY <2>1
<1>3. \A t, u \in S : f[t] = f[u] => t = u
  BY RankOwn
<1>4. f \in Injection(S, k .. k + m - 1)
  BY <1>2, <1>3 DEF Injection, IsInjective
<1>5. IsFiniteSet(k .. k + m - 1) /\ Cardinality(k .. k + m - 1) = m
  <2>1. k \in Int /\ k + m - 1 \in Int
    OBVIOUS
  <2>2. /\ IsFiniteSet(k .. k + m - 1)
        /\ Cardinality(k .. k + m - 1) = IF k > k + m - 1 THEN 0 ELSE (k + m - 1) - k + 1
    BY <2>1, FS_Interval
  <2>3. (IF k > k + m - 1 THEN 0 ELSE (k + m - 1) - k + 1) = m
    OBVIOUS
  <2> QED
    BY <2>2, <2>3
<1>6. Cardinality(S) <= Cardinality(k .. k + m - 1)
  BY <1>4, <1>5, FS_Injection
<1> QED
  BY <1>5, <1>6

\* In a sorted listing, the rank of a task is its place.
LEMMA RankIsPlace ==
    ASSUME NEW c \in [Tasks -> Times], NEW L \in SUBSET Tasks, NEW s \in SetToSeqs(L),
           \A i, j \in DOMAIN s : Precedes(c, s[j], s[i]) => j < i
    PROVE  /\ DOMAIN s = 1 .. Cardinality(L)
           /\ \A i \in DOMAIN s : s[i] \in L /\ RankIn(c, L, s[i]) = i - 1
           /\ \A t \in L : \E i \in DOMAIN s : s[i] = t
<1> DEFINE n == Cardinality(L)
<1>1. /\ s \in [1 .. n -> L] /\ n \in Nat
      /\ \A i, j \in 1 .. n : i # j => s[i] # s[j]
  BY PartFinite DEF SetToSeqs
<1>2. s \in Injection(1 .. n, L)
  BY <1>1 DEF Injection, IsInjective
<1>3. Cardinality(1 .. n) = n /\ IsFiniteSet(1 .. n)
  BY <1>1, FS_Interval
<1>4. s \in Surjection(1 .. n, L)
  BY <1>2, <1>3, PartFinite, FS_Injection
<1>5. \A t \in L : \E i \in 1 .. n : s[i] = t
  BY <1>4 DEF Surjection
<1>6. ASSUME NEW i \in 1 .. n PROVE RankIn(c, L, s[i]) = i - 1
  <2> DEFINE A == Ahead(c, L, s[i])
             g == [j \in 1 .. i - 1 |-> s[j]]
  <2>1. ASSUME NEW j \in 1 .. n PROVE s[j] \in A <=> j < i
    <3>1. s[j] \in L /\ s[i] \in L /\ s[j] \in Tasks /\ s[i] \in Tasks
      BY <1>1, <1>6, <2>1
    <3>2. s[j] \in A => j < i
      BY <1>1, <1>6, <2>1 DEF Ahead
    <3>3. j < i => s[j] \in A
      <4>1. SUFFICES ASSUME j < i PROVE Precedes(c, s[j], s[i])
        BY <3>1 DEF Ahead
      <4>2. s[j] # s[i] /\ ~Precedes(c, s[i], s[j])
        BY <1>1, <1>6, <2>1, <4>1
      <4> QED
        BY <3>1, <4>2, OrderTotal
    <3> QED
      BY <3>2, <3>3
  <2>2. g \in [1 .. i - 1 -> A]
    BY <1>1, <1>6, <2>1
  <2>3. \A j, k \in 1 .. i - 1 : g[j] = g[k] => j = k
    BY <1>1, <1>6
  <2>4. \A t \in A : \E j \in 1 .. i - 1 : g[j] = t
    <3>1. SUFFICES ASSUME NEW t \in A PROVE \E j \in 1 .. i - 1 : g[j] = t
      OBVIOUS
    <3>2. PICK j \in 1 .. n : s[j] = t
      BY <1>5 DEF Ahead
    <3>3. j < i
      BY <2>1, <3>2
    <3> QED
      BY <1>1, <1>6, <3>2, <3>3
  <2>5. ExistsBijection(1 .. i - 1, A)
    BY <2>2, <2>3, <2>4 DEF ExistsBijection, Bijection, Injection, Surjection, IsInjective
  <2>6. i - 1 \in Nat
    BY <1>1, <1>6
  <2> QED
    BY <2>5, <2>6, FS_CountingElements DEF RankIn
<1> QED
  BY <1>1, <1>5, <1>6

-----------------------------------------------------------------------------
(* The walk.                                                               *)

\* The ranks of the module are these.
LEMMA RankIs ==
    /\ \A t : Rank(t) = RankIn(created, listed, t)
    /\ \A t : Rank(t)' = RankIn(created', listed', t)
BY DEF Rank, RankIn, Ahead, Precedes, Before

\* What the sizes of parts of the list are, once and for all.
LEMMA Typed ==
    ASSUME WalkTypeOK
    PROVE  /\ created \in [Tasks -> Times] /\ listed \in SUBSET Tasks /\ stayed \in SUBSET Tasks
           /\ page \in Nat \ {0} /\ size \in Nat \ {0} /\ total \in Nat
           /\ joins \in Nat /\ leaves \in Nat /\ torn \in Nat
           /\ Offset(page) \in Nat /\ Cardinality(Tasks) \in Nat
           /\ \A S \in SUBSET Tasks : IsFiniteSet(S) /\ Cardinality(S) \in Nat
<1>1. Cardinality(Tasks) \in Nat /\ \A S \in SUBSET Tasks : IsFiniteSet(S) /\ Cardinality(S) \in Nat
  BY PartFinite
<1>2. page \in Nat \ {0} /\ size \in Nat \ {0} /\ total \in Nat /\ torn \in Nat
  BY <1>1 DEF WalkTypeOK
<1>3. Offset(page) \in Nat
  <2>1. page - 1 \in Nat
    BY <1>2
  <2> QED
    BY <1>2, <2>1 DEF Offset
<1> QED
  BY <1>1, <1>2, <1>3 DEF WalkTypeOK

\* A walk begins at the first page with nothing seen.
LEMMA InitInvariant == Init => IInv
<1> SUFFICES ASSUME Init PROVE IInv
  OBVIOUS
<1>1. /\ created \in [Tasks -> Times] /\ listed \in SUBSET Tasks /\ stayed = listed
      /\ size \in Sizes /\ page = 1 /\ total = 0 /\ pc = "count"
      /\ seen = [t \in Tasks |-> 0] /\ joins = 0 /\ leaves = 0 /\ torn = 0
  BY DEF Init, Begin
<1>2. WalkTypeOK
  BY <1>1, FS_CardinalityType DEF WalkTypeOK
<1>3. SeenPerPage /\ CountedOrTorn /\ EveryTaskOnce
  BY <1>1 DEF SeenPerPage, CountedOrTorn, EveryTaskOnce
<1>4. Offset(page) = 0
  BY <1>1, <1>2, Typed DEF Offset
<1>5. Passed = {} /\ Repeated = {} /\ Again = {}
  <2>1. ASSUME NEW t \in stayed PROVE ~(Rank(t) < Offset(page))
    <3>1. RankIn(created, listed, t) \in Nat
      BY <1>1, RankNat
    <3> QED
      BY <1>4, <3>1, RankIs
  <2>2. \A t \in stayed : seen[t] = 0
    BY <1>1
  <2> QED
    BY <2>1, <2>2 DEF Passed, Repeated, Again
<1>6. Crossings
  BY <1>1, <1>5, FS_EmptySet DEF Crossings
<1> QED
  BY <1>2, <1>3, <1>6 DEF IInv

\* Someone joins: one task at most moves back over the edge, to be seen again.
LEMMA JoinKeeps ==
    ASSUME IInv, NEW x \in Tasks, Join(x)
    PROVE  IInv'
<1>1. /\ pc # "done" /\ x \notin listed
      /\ listed' = listed \cup {x} /\ joins' = joins + 1
      /\ torn' = IF pc = "select" THEN torn + 1 ELSE torn
      /\ UNCHANGED <<created, size, page, pc, total, seen, stayed, leaves>>
  BY DEF Join, walkVars
<1>2. WalkTypeOK
  BY DEF IInv
<1>3. WalkTypeOK'
  BY <1>1, <1>2 DEF WalkTypeOK
<1>4. SeenPerPage' /\ EveryTaskOnce'
  BY <1>1 DEF IInv, SeenPerPage, EveryTaskOnce
<1>5. CountedOrTorn'
  <2>1. Cardinality(listed') = Cardinality(listed) + 1
    BY <1>1, <1>2, Typed, FS_AddElement
  <2>2. Cardinality(listed) \in Nat /\ total \in Nat /\ torn \in Nat
    BY <1>2, Typed
  <2> QED
    BY <1>1, <2>1, <2>2 DEF IInv, CountedOrTorn
<1>6. \A t \in stayed : Rank(t) \in Nat /\ Rank(t)' \in {Rank(t), Rank(t) + 1}
  <2>1. ASSUME NEW t \in stayed
        PROVE  /\ RankIn(created, listed, t) \in Nat
               /\ RankIn(created, listed \cup {x}, t) \in
                     {RankIn(created, listed, t), RankIn(created, listed, t) + 1}
    <3>1. t \in listed /\ listed \in SUBSET Tasks /\ x \in Tasks \ listed
      BY <1>1, <1>2, <2>1 DEF WalkTypeOK
    <3> QED
      BY <3>1, RankNat, RankAfterJoin
  <2> QED
    BY <1>1, <2>1, RankIs
<1>7. Offset(page)' = Offset(page) /\ Offset(page) \in Nat
  BY <1>1, <1>2, Typed DEF Offset
<1> DEFINE K == Offset(page)
           Edge == {t \in stayed : Rank(t) = K - 1}
<1>8. Passed' \subseteq Passed
  BY <1>1, <1>6, <1>7 DEF Passed
<1>9. Again' \subseteq Again \cup Edge
  BY <1>1, <1>6, <1>7 DEF Again
<1>10. Cardinality(Edge) <= 1
  <2>1. \A t \in Edge : RankIn(created, listed, t) = K - 1
    BY RankIs
  <2>2. created \in [Tasks -> Times] /\ listed \in SUBSET Tasks /\ Edge \in SUBSET listed
    BY <1>2 DEF WalkTypeOK
  <2> QED
    BY <2>1, <2>2, RankOnce
<1>11. Crossings'
  <2>1. /\ Passed \in SUBSET Tasks /\ Again \in SUBSET Tasks /\ Edge \in SUBSET Tasks
        /\ Again \cup Edge \in SUBSET Tasks /\ Again' \in SUBSET Tasks /\ Passed' \in SUBSET Tasks
        /\ Repeated \in SUBSET Tasks
    BY <1>2, <1>8, <1>9, Typed DEF Passed, Again, Repeated
  <2>2. Cardinality(Passed') <= Cardinality(Passed)
    BY <1>8, <2>1, PartOrdered
  <2>3. Cardinality(Again') <= Cardinality(Again \cup Edge)
    BY <1>9, <2>1, PartOrdered
  <2>4. Cardinality(Again \cup Edge) <= Cardinality(Again) + 1
    BY <1>10, <2>1, UnionBound
  <2>5. Repeated' = Repeated
    BY <1>1 DEF Repeated
  <2>6. /\ Cardinality(Passed) \in Nat /\ Cardinality(Passed') \in Nat
        /\ Cardinality(Again) \in Nat /\ Cardinality(Again') \in Nat
        /\ Cardinality(Again \cup Edge) \in Nat /\ Cardinality(Repeated) \in Nat
    BY <2>1, PartFinite
  <2>7. Cardinality(Passed) <= leaves /\ Cardinality(Repeated) + Cardinality(Again) <= joins
    BY <1>1 DEF IInv, Crossings
  <2>8. joins \in Nat /\ leaves \in Nat
    BY <1>2, Typed
  <2> QED
    BY <1>1, <2>2, <2>3, <2>4, <2>5, <2>6, <2>7, <2>8 DEF Crossings
<1> QED
  BY <1>3, <1>4, <1>5, <1>11 DEF IInv

\* Someone leaves: one task at most moves forward over the edge, to be missed.
LEMMA LeaveKeeps ==
    ASSUME IInv, NEW x \in Tasks, Leave(x)
    PROVE  IInv'
<1>1. /\ pc # "done" /\ x \in listed
      /\ listed' = listed \ {x} /\ stayed' = stayed \ {x} /\ leaves' = leaves + 1
      /\ UNCHANGED <<created, size, page, pc, total, seen, joins, torn>>
  BY DEF Leave, walkVars
<1>2. WalkTypeOK
  BY DEF IInv
<1>3. WalkTypeOK'
  BY <1>1, <1>2 DEF WalkTypeOK
<1>4. SeenPerPage' /\ EveryTaskOnce'
  BY <1>1 DEF IInv, SeenPerPage, EveryTaskOnce
<1>5. CountedOrTorn'
  <2>1. listed \in SUBSET Tasks /\ listed' \in SUBSET listed /\ listed' \in SUBSET Tasks
    BY <1>1, <1>2, Typed
  <2>2. Cardinality(listed') <= Cardinality(listed)
    BY <2>1, PartOrdered
  <2>3. /\ Cardinality(listed) \in Nat /\ Cardinality(listed') \in Nat
        /\ total \in Nat /\ torn \in Nat
    BY <1>2, <2>1, Typed
  <2> QED
    BY <1>1, <2>2, <2>3 DEF IInv, CountedOrTorn
<1>6. \A t \in stayed \ {x} : Rank(t)' \in Nat /\ Rank(t) \in {Rank(t)', Rank(t)' + 1}
  <2>1. ASSUME NEW t \in stayed \ {x}
        PROVE  /\ RankIn(created, listed \ {x}, t) \in Nat
               /\ RankIn(created, listed, t) \in
                     {RankIn(created, listed \ {x}, t), RankIn(created, listed \ {x}, t) + 1}
    <3>1. t \in listed \ {x} /\ listed \in SUBSET Tasks /\ listed \ {x} \in SUBSET Tasks
      BY <1>1, <1>2, <2>1 DEF WalkTypeOK
    <3> QED
      BY <1>1, <3>1, RankNat, RankAfterLeave
  <2> QED
    BY <1>1, <2>1, RankIs
<1>7. Offset(page)' = Offset(page) /\ Offset(page) \in Nat
  BY <1>1, <1>2, Typed DEF Offset
<1> DEFINE K == Offset(page)
           Edge == {t \in stayed : Rank(t) = K}
<1>8. Passed' \subseteq Passed \cup Edge
  BY <1>1, <1>6, <1>7 DEF Passed
<1>9. Again' \subseteq Again
  BY <1>1, <1>6, <1>7 DEF Again
<1>10. Cardinality(Edge) <= 1
  <2>1. \A t \in Edge : RankIn(created, listed, t) = K
    BY RankIs
  <2>2. created \in [Tasks -> Times] /\ listed \in SUBSET Tasks /\ Edge \in SUBSET listed
    BY <1>2 DEF WalkTypeOK
  <2> QED
    BY <2>1, <2>2, RankOnce
<1>11. Crossings'
  <2>1. Repeated' \subseteq Repeated
    BY <1>1 DEF Repeated
  <2>2. /\ Passed \in SUBSET Tasks /\ Again \in SUBSET Tasks /\ Edge \in SUBSET Tasks
        /\ Passed \cup Edge \in SUBSET Tasks /\ Again' \in SUBSET Tasks /\ Passed' \in SUBSET Tasks
        /\ Repeated \in SUBSET Tasks /\ Repeated' \in SUBSET Tasks
    BY <1>2, <1>8, <1>9, <2>1, Typed DEF Passed, Again, Repeated
  <2>3. Cardinality(Again') <= Cardinality(Again)
    BY <1>9, <2>2, PartOrdered
  <2>4. Cardinality(Passed') <= Cardinality(Passed \cup Edge)
    BY <1>8, <2>2, PartOrdered
  <2>5. Cardinality(Passed \cup Edge) <= Cardinality(Passed) + 1
    BY <1>10, <2>2, UnionBound
  <2>6. Cardinality(Repeated') <= Cardinality(Repeated)
    BY <2>1, <2>2, PartOrdered
  <2>7. /\ Cardinality(Passed) \in Nat /\ Cardinality(Passed') \in Nat
        /\ Cardinality(Again) \in Nat /\ Cardinality(Again') \in Nat
        /\ Cardinality(Passed \cup Edge) \in Nat
        /\ Cardinality(Repeated) \in Nat /\ Cardinality(Repeated') \in Nat
    BY <2>2, PartFinite
  <2>8. Cardinality(Passed) <= leaves /\ Cardinality(Repeated) + Cardinality(Again) <= joins
    BY <1>1 DEF IInv, Crossings
  <2>9. joins \in Nat /\ leaves \in Nat
    BY <1>2, Typed
  <2> QED
    BY <1>1, <2>3, <2>4, <2>5, <2>6, <2>7, <2>8, <2>9 DEF Crossings
<1> QED
  BY <1>3, <1>4, <1>5, <1>11 DEF IInv

\* The count is exact when it is made.
LEMMA CountKeeps ==
    ASSUME IInv, CountTasks
    PROVE  IInv'
<1>1. /\ pc = "count" /\ pc' = "select" /\ total' = Cardinality(listed)
      /\ UNCHANGED <<created, listed, size, page, seen, stayed, joins, leaves, torn>>
  BY DEF CountTasks, historyVars
<1>2. WalkTypeOK
  BY DEF IInv
<1>3. /\ Cardinality(listed) \in Nat /\ Cardinality(listed) <= Cardinality(Tasks)
      /\ Cardinality(Tasks) \in Nat /\ torn \in Nat
  BY <1>2, Typed, PartFinite
<1>4. WalkTypeOK'
  BY <1>1, <1>2, <1>3 DEF WalkTypeOK
<1>5. SeenPerPage' /\ CountedOrTorn' /\ EveryTaskOnce'
  BY <1>1, <1>3 DEF IInv, SeenPerPage, CountedOrTorn, EveryTaskOnce
<1>6. Crossings'
  <2>1. Passed' = Passed /\ Again' = Again /\ Repeated' = Repeated
    BY <1>1 DEF Passed, Again, Repeated, Rank, Before, Offset
  <2> QED
    BY <1>1, <2>1 DEF IInv, Crossings
<1> QED
  BY <1>4, <1>5, <1>6 DEF IInv

\* The number of pages, from the page before and from the last page.
LEMMA MorePages ==
    ASSUME NEW n \in Nat, NEW s \in Nat \ {0}, NEW p \in Nat \ {0}, p < (n + s - 1) \div s
    PROVE  p + 1 <= n
OBVIOUS

\* Without a next page, the pages so far hold all that was counted.
LEMMA LastPage ==
    ASSUME NEW n \in Nat, NEW s \in Nat \ {0}, NEW p \in Nat \ {0}, ~(p < (n + s - 1) \div s)
    PROVE  n <= p * s
OBVIOUS

\* A page is the tasks whose rank is in its interval.
LEMMA PageIsInterval ==
    ASSUME WalkTypeOK, NEW s \in Listings, NEW t \in listed
    PROVE  t \in Items(s) <=> Offset(page) <= Rank(t) /\ Rank(t) < Offset(page) + size
<1> DEFINE K == Offset(page)
           n == Cardinality(listed)
<1>1. /\ created \in [Tasks -> Times] /\ listed \in SUBSET Tasks
      /\ K \in Nat /\ size \in Nat \ {0} /\ n \in Nat
  BY Typed
<1>2. /\ s \in SetToSeqs(listed)
      /\ \A i, j \in DOMAIN s : Precedes(created, s[j], s[i]) => j < i
  BY DEF Listings, Before, Precedes
<1>3. /\ DOMAIN s = 1 .. n
      /\ \A i \in DOMAIN s : s[i] \in listed /\ RankIn(created, listed, s[i]) = i - 1
      /\ \A u \in listed : \E i \in DOMAIN s : s[i] = u
  BY <1>1, <1>2, RankIsPlace
<1>4. PICK k \in 1 .. n : s[k] = t
  BY <1>3
<1>5. Rank(t) = k - 1
  BY <1>3, <1>4, RankIs
<1>6. t \in Items(s) <=> k \in K + 1 .. K + size
  <2>1. ASSUME NEW i \in DOMAIN s, s[i] = t PROVE i = k
    <3>1. i \in 1 .. n /\ i - 1 = k - 1
      BY <1>3, <1>4, <2>1
    <3> QED
      BY <1>1, <3>1
  <2> QED
    BY <1>3, <1>4, <2>1 DEF Items
<1> QED
  BY <1>1, <1>4, <1>5, <1>6

\* The next page begins where this one ends.
LEMMA NextOffset ==
    ASSUME NEW p \in Nat \ {0}, NEW z \in Nat \ {0}
    PROVE  (p - 1) * z + z = p * z /\ ((p + 1) - 1) * z = p * z
OBVIOUS

\* A page is shown: what it shows for a second time was ahead of the edge, and what is behind the
\* edge after it was behind it before, or is shown.
LEMMA SelectKeeps ==
    ASSUME IInv, SelectTasks
    PROVE  IInv'
<1>1. /\ pc = "select" /\ page' \in {page, page + 1}
      /\ \/ page < TotalPages(total) /\ page' = page + 1 /\ pc' = "count"
         \/ ~(page < TotalPages(total)) /\ page' = page /\ pc' = "done"
      /\ UNCHANGED <<created, listed, size, total, stayed, joins, leaves, torn>>
  BY DEF SelectTasks, historyVars
<1>2. PICK s \in Listings :
         seen' = [t \in Tasks |-> IF t \in Items(s) THEN seen[t] + 1 ELSE seen[t]]
  BY DEF SelectTasks
<1>3. WalkTypeOK
  BY DEF IInv
<1> DEFINE K == Offset(page)
<1>4. /\ created \in [Tasks -> Times] /\ listed \in SUBSET Tasks /\ stayed \in SUBSET listed
      /\ page \in Nat \ {0} /\ size \in Nat \ {0} /\ total \in Nat /\ K \in Nat
      /\ joins \in Nat /\ leaves \in Nat /\ torn \in Nat
      /\ seen \in [Tasks -> 0 .. page] /\ total <= Cardinality(Tasks) /\ Cardinality(Tasks) \in Nat
  BY <1>3, Typed DEF WalkTypeOK
<1>5. ASSUME NEW t \in Tasks
      PROVE  /\ seen[t] \in Nat /\ seen[t] < page
             /\ seen'[t] = IF t \in Items(s) THEN seen[t] + 1 ELSE seen[t]
  BY <1>1, <1>2, <1>4 DEF IInv, SeenPerPage
<1>6. seen' \in [Tasks -> 0 .. page]
  <2>1. ASSUME NEW t \in Tasks
        PROVE  (IF t \in Items(s) THEN seen[t] + 1 ELSE seen[t]) \in 0 .. page
    BY <1>4, <1>5
  <2> QED
    BY <1>2, <2>1
<1>7. WalkTypeOK'
  <2>1. CASE page < TotalPages(total)
    <3>1. page + 1 <= total
      BY <1>4, <2>1, MorePages DEF TotalPages
    <3>2. page' = page + 1 /\ page' \in 1 .. Cardinality(Tasks) /\ pc' = "count"
      BY <1>1, <1>4, <2>1, <3>1
    <3>3. seen' \in [Tasks -> 0 .. page']
      BY <1>4, <1>6, <3>2
    <3> QED
      BY <1>1, <1>3, <3>2, <3>3 DEF WalkTypeOK
  <2>2. CASE ~(page < TotalPages(total))
    BY <1>1, <1>3, <1>6, <2>2 DEF WalkTypeOK
  <2> QED
    BY <2>1, <2>2
<1>8. SeenPerPage' /\ CountedOrTorn'
  <2>1. CASE page' = page + 1
    <3>1. \A t \in Tasks : seen'[t] < page'
      BY <1>4, <1>5, <2>1
    <3> QED
      BY <1>1, <3>1 DEF SeenPerPage, CountedOrTorn
  <2>2. CASE pc' = "done"
    BY <2>2 DEF SeenPerPage, CountedOrTorn
  <2> QED
    BY <1>1, <2>1, <2>2
<1>9. ASSUME NEW t \in stayed
      PROVE  /\ Rank(t) \in Nat /\ Rank(t)' = Rank(t)
             /\ t \in Items(s) <=> K <= Rank(t) /\ Rank(t) < K + size
  <2>1. t \in listed
    BY <1>4
  <2>2. RankIn(created, listed, t) \in Nat
    BY <1>4, RankNat
  <2> QED
    BY <1>1, <1>3, <2>1, <2>2, RankIs, PageIsInterval
<1> DEFINE Later == {t \in stayed : seen'[t] > 0 /\ Rank(t) >= K + size}
<1>10. Cardinality(Repeated') + Cardinality(Later) <= joins /\ Later \in SUBSET Tasks
  <2> DEFINE Second == Repeated' \ Repeated
  <2>1. Repeated \subseteq Repeated'
    <3>1. ASSUME NEW t \in stayed, seen[t] > 1 PROVE seen'[t] > 1
      <4>1. t \in Tasks
        BY <1>4
      <4>2. seen[t] \in Nat /\ (seen'[t] = seen[t] + 1 \/ seen'[t] = seen[t])
        BY <1>5, <4>1
      <4> QED
        BY <3>1, <4>2
    <3> QED
      BY <1>1, <3>1 DEF Repeated
  <2>2. Second \subseteq Again /\ Later \subseteq Again /\ Second \cap Later = {}
    <3>1. ASSUME NEW t \in stayed, seen'[t] > 1, ~(seen[t] > 1)
          PROVE  seen[t] > 0 /\ K <= Rank(t) /\ Rank(t) < K + size
      BY <1>4, <1>5, <1>9, <3>1
    <3>2. ASSUME NEW t \in stayed, seen'[t] > 0, Rank(t) >= K + size
          PROVE  seen[t] > 0 /\ K <= Rank(t)
      BY <1>4, <1>5, <1>9, <3>2
    <3>3. ASSUME NEW t \in stayed, Rank(t) < K + size PROVE ~(Rank(t) >= K + size)
      BY <1>4, <1>9, <3>3
    <3>4. \A t \in Second : t \in stayed /\ seen'[t] > 1 /\ ~(seen[t] > 1)
      BY <1>1 DEF Repeated
    <3>5. Second \subseteq Again
      BY <1>9, <3>1, <3>4 DEF Again
    <3>6. Later \subseteq Again
      BY <1>9, <3>2 DEF Again
    <3>7. Second \cap Later = {}
      BY <3>1, <3>3, <3>4
    <3> QED
      BY <3>5, <3>6, <3>7
  <2>3. /\ Repeated \in SUBSET Tasks /\ Repeated' \in SUBSET Tasks /\ Again \in SUBSET Tasks
        /\ Second \in SUBSET Tasks /\ Later \in SUBSET Tasks /\ Second \cup Later \in SUBSET Tasks
    BY <1>1, <1>4 DEF Repeated, Again
  <2>4. Cardinality(Repeated \cup Second) <= Cardinality(Repeated) + Cardinality(Second)
    BY <2>3, PartFinite, UnionBound
  <2>5. Repeated' = Repeated \cup Second
    BY <2>1
  <2>6. Cardinality(Second \cup Later) = Cardinality(Second) + Cardinality(Later)
    <3>1. Cardinality(Second \cap Later) = 0
      BY <2>2, FS_EmptySet
    <3>2. Cardinality(Second \cup Later) =
             Cardinality(Second) + Cardinality(Later) - Cardinality(Second \cap Later)
      BY <2>3, PartFinite, FS_Union
    <3>3. Cardinality(Second) \in Nat /\ Cardinality(Later) \in Nat
      BY <2>3, PartFinite
    <3> QED
      BY <3>1, <3>2, <3>3
  <2>7. Cardinality(Second \cup Later) <= Cardinality(Again)
    BY <2>2, <2>3, PartOrdered
  <2>8. /\ Cardinality(Repeated) \in Nat /\ Cardinality(Repeated') \in Nat
        /\ Cardinality(Second) \in Nat /\ Cardinality(Later) \in Nat /\ Cardinality(Again) \in Nat
    BY <2>3, PartFinite
  <2>9. Cardinality(Repeated) + Cardinality(Again) <= joins
    BY <1>1 DEF IInv, Crossings
  <2> QED
    BY <1>4, <2>3, <2>4, <2>5, <2>6, <2>7, <2>8, <2>9
<1>11. ASSUME NEW t \in stayed, seen'[t] = 0
       PROVE  seen[t] = 0 /\ (Rank(t) < K \/ Rank(t) >= K + size)
  BY <1>4, <1>5, <1>9, <1>11
<1>12. Cardinality(Passed) <= leaves /\ Passed \in SUBSET Tasks
  BY <1>1, <1>4 DEF IInv, Crossings, Passed
<1>13. K + size = page * size
  BY <1>4, NextOffset DEF Offset
<1>14. CASE page' = page + 1 /\ pc' = "count"
  <2>1. Offset(page)' = K + size
    BY <1>1, <1>4, <1>13, <1>14, NextOffset DEF Offset
  <2>2. Again' = Later
    BY <1>1, <1>9, <2>1 DEF Again
  <2>3. Passed' \subseteq Passed
    <3>1. ASSUME NEW t \in Passed' PROVE t \in Passed
      <4>1. t \in stayed /\ seen'[t] = 0 /\ Rank(t)' < K + size
        BY <1>1, <2>1, <3>1 DEF Passed
      <4>2. Rank(t) \in Nat /\ Rank(t) < K + size
        BY <1>9, <4>1
      <4>3. seen[t] = 0 /\ (Rank(t) < K \/ Rank(t) >= K + size)
        BY <1>11, <4>1
      <4>4. ~(Rank(t) >= K + size)
        BY <1>4, <4>2
      <4> QED
        BY <4>1, <4>3, <4>4 DEF Passed
    <3> QED
      BY <3>1
  <2>4. Cardinality(Passed') <= Cardinality(Passed) /\ Passed' \in SUBSET Tasks
    BY <1>12, <2>3, PartOrdered
  <2>5. Cardinality(Passed) \in Nat /\ Cardinality(Passed') \in Nat
    BY <1>12, <2>4, PartFinite
  <2>6. Crossings'
    BY <1>1, <1>4, <1>10, <1>12, <2>2, <2>4, <2>5 DEF Crossings
  <2>7. EveryTaskOnce'
    BY <1>14 DEF EveryTaskOnce
  <2> QED
    BY <1>7, <1>8, <2>6, <2>7 DEF IInv
<1>15. CASE ~(page < TotalPages(total)) /\ page' = page /\ pc' = "done"
  <2> DEFINE Rest == {t \in listed : RankIn(created, listed, t) >= K + size}
  <2>1. Cardinality(listed) <= (K + size) + torn
    <3>1. total <= K + size
      BY <1>4, <1>13, <1>15, LastPage DEF TotalPages
    <3>2. Cardinality(listed) <= total + torn /\ Cardinality(listed) \in Nat
      BY <1>1, <1>4, PartFinite DEF IInv, CountedOrTorn
    <3> QED
      BY <1>4, <3>1, <3>2
  <2>2. Cardinality(Rest) <= torn
    <3>1. K + size \in Nat
      BY <1>4
    <3> QED
      BY <1>4, <2>1, <3>1, Beyond
  <2>3. Missed' \subseteq Passed \cup Rest
    <3>1. ASSUME NEW t \in Missed' PROVE t \in Passed \cup Rest
      <4>1. t \in stayed /\ seen'[t] = 0 /\ t \in listed
        BY <1>1, <1>4, <3>1 DEF Missed
      <4>2. seen[t] = 0 /\ (Rank(t) < K \/ Rank(t) >= K + size)
        BY <1>11, <4>1
      <4> QED
        BY <4>1, <4>2, RankIs DEF Passed
    <3> QED
      BY <3>1
  <2>4. /\ Rest \in SUBSET Tasks /\ Passed \cup Rest \in SUBSET Tasks
        /\ Missed' \in SUBSET Tasks /\ Repeated' \in SUBSET Tasks
    BY <1>1, <1>4, <1>12, <2>3 DEF Repeated
  <2>5. Cardinality(Missed') <= Cardinality(Passed \cup Rest)
    BY <2>3, <2>4, PartOrdered
  <2>6. Cardinality(Passed \cup Rest) <= Cardinality(Passed) + torn
    BY <1>4, <1>12, <2>2, <2>4, UnionBound
  <2>7. /\ Cardinality(Passed) \in Nat /\ Cardinality(Passed \cup Rest) \in Nat
        /\ Cardinality(Missed') \in Nat /\ Cardinality(Repeated') \in Nat /\ Cardinality(Later) \in Nat
    BY <1>10, <1>12, <2>4, PartFinite
  <2>8. Cardinality(Missed') <= leaves + torn /\ Cardinality(Repeated') <= joins
    BY <1>4, <1>10, <1>12, <2>5, <2>6, <2>7
  <2>9. EveryTaskOnce' /\ Crossings'
    BY <1>1, <1>15, <2>8 DEF EveryTaskOnce, Crossings
  <2> QED
    BY <1>7, <1>8, <2>9 DEF IInv
<1> QED
  BY <1>1, <1>14, <1>15

-----------------------------------------------------------------------------
\* Whatever joins and leaves while a client reads, the walk is accounted for.
THEOREM Invariance == Spec => []IInv
<1>1. Init => IInv
  BY InitInvariant
<1>2. IInv /\ [Next]_vars => IInv'
  <2> SUFFICES ASSUME IInv, [Next]_vars PROVE IInv'
    OBVIOUS
  <2>1. CASE UNCHANGED vars
    BY <2>1 DEF vars, walkVars, historyVars, IInv, WalkTypeOK, SeenPerPage, CountedOrTorn, Crossings,
                EveryTaskOnce, Passed, Again, Missed, Repeated, Rank, Before, Offset
  <2> QED
    BY <2>1, CountKeeps, SelectKeeps, JoinKeeps, LeaveKeeps DEF Next
<1> QED
  BY <1>1, <1>2, PTL DEF Spec

\* Every variable stays in its type: the walk never asks for more pages than there are tasks, and no
\* task is on more pages than were loaded.
THEOREM TypeCorrectness == Spec => []WalkTypeOK
<1>1. IInv => WalkTypeOK
  BY DEF IInv
<1> QED
  BY <1>1, Invariance, PTL

\* list_by_project's order and the two statements of a page lose and repeat no more tasks over a walk
\* than others have moved across the edge of a page, for any number of tasks, pages and changes.
THEOREM WalkIsExact == Spec => []EveryTaskOnce
<1>1. IInv => EveryTaskOnce
  BY DEF IInv
<1> QED
  BY <1>1, Invariance, PTL
=============================================================================
