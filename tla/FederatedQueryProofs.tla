------------------------- MODULE FederatedQueryProofs -------------------------
(***************************************************************************)
(* Theorems about a federated query, for every set of sources, mappings,   *)
(* tables and queries.                                                     *)
(*                                                                         *)
(* Failures are isolated: no source has answered before the execution      *)
(* begins, so an error of the planner concerns no source that was          *)
(* executed, and afterwards only Merge ends the request.                   *)
(*                                                                         *)
(* Where names are clear, an answer is the page that was asked for.  The   *)
(* proof goes along the request: places in an order (Places) and the       *)
(* pushdown of the limit (PageOfAll); the sort as a strict weak order      *)
(* (BeforeOrders); names to columns and back (ResolvesToMeaning,           *)
(* NormalizeKeeps, RowIsMeant); what a source answers (ExecuteAnswers);    *)
(* the merge (MergeGetsInput, MergeSorts, MergeIsPage); and the invariant  *)
(* PageInv that carries these facts from step to step.                     *)
(***************************************************************************)
EXTENDS FederatedQuery, FiniteSetTheorems, SequenceTheorems, WellFoundedInduction, NaturalsInduction, TLAPS

-----------------------------------------------------------------------------
(* Candidates and plans are sources.                                       *)
PlansAreSources ==
  /\ todo \subseteq Source
  /\ Planned \subseteq Source

(* No source answers before the planner is through.                        *)
NothingRuns ==
  /\ DOMAIN result = Source
  /\ pc \notin {"execute", "done"} => \A s \in Source : result[s] = Pending

IsolationInv == PlansAreSources /\ NothingRuns /\ FailureIsIsolated

(* The states a request starts in: nothing planned, nothing answered.      *)
LEMMA InitIsolation == Init => IsolationInv
  BY DEF Init, IsolationInv, PlansAreSources, NothingRuns, FailureIsIsolated, Planned

(* What others change is no part of the invariant.                         *)
LEMMA EnvironmentIsolation ==
  IsolationInv /\ (Environment \/ UNCHANGED vars) => IsolationInv'
  BY DEF Environment, requestVars, vars, IsolationInv, PlansAreSources, NothingRuns,
         FailureIsIsolated, Planned, Succeeded

(* The planner: a request that ends here has executed nothing.             *)
LEMMA PlanningIsolation ==
  ASSUME IsolationInv,
         \/ \E q \in Queries : Submit(q)
         \/ \E s \in Source : ResolveRaises(s)
         \/ Resolve \/ ReadMapping \/ BindAndLower \/ FinishPlan \/ Discover
  PROVE  IsolationInv'
<1>1. /\ \A s \in Source : result[s] = Pending
      /\ pc \notin {"execute", "done"}
      /\ result' = result
  BY DEF IsolationInv, NothingRuns, Submit, ResolveRaises, Resolve, ReadMapping, BindAndLower,
         FinishPlan, Discover
<1>2. PlansAreSources'
  <2>1. CASE \/ \E q \in Queries : Submit(q)
             \/ \E s \in Source : ResolveRaises(s)
             \/ FinishPlan
    BY <2>1 DEF Submit, ResolveRaises, FinishPlan, Respond, IsolationInv, PlansAreSources, Planned
  <2>2. CASE Resolve
    BY <2>2 DEF Resolve, Respond, IsolationInv, PlansAreSources, Planned, EligibleCandidates,
                Candidates
  <2>3. CASE ReadMapping
    BY <2>3 DEF ReadMapping, Respond, IsolationInv, PlansAreSources, Planned
  <2>4. CASE BindAndLower
    BY <2>4 DEF BindAndLower, Respond, IsolationInv, PlansAreSources, Planned
  <2>5. CASE Discover
    BY <2>5 DEF Discover, Respond, IsolationInv, PlansAreSources, Planned, Participating,
                Matching, ActiveSources
  <2>. QED  BY <2>1, <2>2, <2>3, <2>4, <2>5
<1>3. NothingRuns'
  BY <1>1 DEF IsolationInv, NothingRuns
<1>4. FailureIsIsolated'
  BY <1>1, <1>2 DEF FailureIsIsolated, PlansAreSources, Planned, Pending
<1>. QED  BY <1>2, <1>3, <1>4 DEF IsolationInv

(* A source answers or fails while the request goes on.                    *)
LEMMA AnswerIsolation ==
  ASSUME IsolationInv, NEW s \in Source, Execute(s) \/ Fail(s)
  PROVE  IsolationInv'
<1>1. pc = "execute" /\ pc' = pc /\ plans' = plans /\ todo' = todo
  BY DEF Execute, Fail
<1>2. DOMAIN result' = DOMAIN result
  BY DEF Execute, Fail
<1>. QED
  BY <1>1, <1>2 DEF IsolationInv, PlansAreSources, NothingRuns, FailureIsIsolated, Planned

(* The merge reports every source that was executed.                       *)
LEMMA MergeIsolation ==
  ASSUME IsolationInv, Merge
  PROVE  IsolationInv'
<1>1. /\ pc = "execute" /\ pc' = "done"
      /\ plans' = plans /\ todo' = todo /\ result' = result
  BY DEF Merge, Respond
<1>2. Planned' = Planned /\ Succeeded' = Succeeded
  BY <1>1 DEF Planned, Succeeded
<1>3. PlansAreSources' /\ NothingRuns'
  BY <1>1, <1>2 DEF IsolationInv, PlansAreSources, NothingRuns
<1>4. CASE Succeeded = {}
  <2>1. response' = Error
    BY <1>4 DEF Merge, Respond
  <2>2. response'.state = "error"
    BY <2>1 DEF Error, NoResponse
  <2>. QED  BY <1>2, <1>3, <1>4, <2>2 DEF FailureIsIsolated, IsolationInv
<1>5. CASE Succeeded # {}
  <2>1. /\ response'.state = "ok"
        /\ response'.included = Succeeded
        /\ response'.excluded = excluded \cup (Planned \ Succeeded)
    BY <1>5 DEF Merge, Respond
  <2>. QED  BY <1>2, <1>3, <1>5, <2>1 DEF FailureIsIsolated, IsolationInv
<1>. QED  BY <1>4, <1>5

(* No step, whoever takes it, breaks the invariant.                        *)
LEMMA NextIsolation == IsolationInv /\ [Next]_vars => IsolationInv'
<1>. SUFFICES ASSUME IsolationInv, [Next]_vars PROVE IsolationInv'
  OBVIOUS
<1>1. CASE Environment \/ UNCHANGED vars
  BY <1>1, EnvironmentIsolation
<1>2. CASE \/ \E q \in Queries : Submit(q)
           \/ \E s \in Source : ResolveRaises(s)
           \/ Resolve \/ ReadMapping \/ BindAndLower \/ FinishPlan \/ Discover
  BY <1>2, PlanningIsolation
<1>3. CASE \E s \in Source : Execute(s) \/ Fail(s)
  BY <1>3, AnswerIsolation
<1>4. CASE Merge
  BY <1>4, MergeIsolation
<1>. QED  BY <1>1, <1>2, <1>3, <1>4 DEF Next, Handler, Answer

(* A source that fails under _execute_single_source_isolated takes nothing *)
(* from the others: for every number of sources and whatever changes       *)
(* meanwhile, a request that executed some source succeeds exactly when    *)
(* one of them did, and accounts for all of them.                          *)
THEOREM FailuresAreIsolated == Spec => []FailureIsIsolated
<1>1. Spec => []IsolationInv
  BY InitIsolation, NextIsolation, PTL DEF Spec
<1>2. IsolationInv => FailureIsIsolated
  BY DEF IsolationInv
<1>. QED  BY <1>1, <1>2, PTL

-----------------------------------------------------------------------------
(* Orders and places *)

(* A set of numbers has a least one.                                       *)
LEMMA LeastNumber ==
  ASSUME NEW T, T \subseteq Nat, T # {}
  PROVE  \E n \in T : \A k \in T : n <= k
<1>1. \E n \in T : \A k \in T : ~ (<<k, n>> \in OpToRel(<, Nat))
  BY NatLessThanWellFounded, WFMin
<1>2. PICK n \in T : \A k \in T : ~ (<<k, n>> \in OpToRel(<, Nat))
  BY <1>1
<1>3. ASSUME NEW k \in T PROVE n <= k
  <2>1. k < n => <<k, n>> \in OpToRel(<, Nat)
    BY Zenon DEF OpToRel
  <2>2. ~ (k < n)
    BY <1>2, <2>1
  <2>. QED  BY <2>2
<1>. QED  BY <1>3

(* A bounded one has a greatest.                                           *)
LEMMA GreatestNumber ==
  ASSUME NEW n \in Nat, NEW T, T \subseteq 1 .. n, T # {}
  PROVE  Max(T) \in T /\ \A k \in T : k <= Max(T)
<1>. DEFINE B == {b \in Nat : \A k \in T : k <= b}
<1>1. n \in B
  OBVIOUS
<1>2. PICK b \in B : \A k \in B : b <= k
  BY <1>1, LeastNumber
<1>3. b \in T
  <2>. SUFFICES ASSUME b \notin T PROVE FALSE
    OBVIOUS
  <2>1. PICK k \in T : TRUE
    OBVIOUS
  <2>2. k \in Nat /\ k >= 1 /\ k <= b
    BY <1>2
  <2>3. b - 1 \in B
    BY <1>2, <2>2
  <2>. QED  BY <1>2, <2>3
<1>4. \E x \in T : \A y \in T : x >= y
  BY <1>2, <1>3
<1>. HIDE DEF B
<1>5. Max(T) \in T /\ \A y \in T : Max(T) >= y
  BY <1>4 DEF Max
<1>. QED  BY <1>5

(* The lesser of two numbers.                                              *)
LEMMA MinOfTwo ==
  ASSUME NEW a \in Nat, NEW b \in Nat
  PROVE  Min({a, b}) = IF a <= b THEN a ELSE b
<1>1. \E x \in {a, b} : \A y \in {a, b} : x =< y
  OBVIOUS
<1>2. Min({a, b}) \in {a, b} /\ \A y \in {a, b} : Min({a, b}) =< y
  BY <1>1 DEF Min
<1>. QED  BY <1>2

(* The places of the elements of a finite set in a total order: each has   *)
(* its own, from 1 to the size of the set.                                 *)
IsOrder(S, R) ==
  /\ \A x \in S : <<x, x>> \in R
  /\ \A x, y \in S : <<x, y>> \in R \/ <<y, x>> \in R
  /\ \A x, y \in S : <<x, y>> \in R /\ <<y, x>> \in R => x = y
  /\ \A x, y, z \in S : <<x, y>> \in R /\ <<y, z>> \in R => <<x, z>> \in R

Place(S, R, x) == Cardinality({y \in S : <<y, x>> \in R})

(* In a finite set with a total order, the places are the numbers from 1   *)
(* to its size, each taken once and in order.                              *)
LEMMA Places ==
  ASSUME NEW S, IsFiniteSet(S), NEW R, IsOrder(S, R)
  PROVE  /\ Cardinality(S) \in Nat
         /\ \A x \in S : Place(S, R, x) \in 1 .. Cardinality(S)
         /\ \A x, y \in S : Place(S, R, x) = Place(S, R, y) => x = y
         /\ \A x, y \in S : <<x, y>> \in R => Place(S, R, x) <= Place(S, R, y)
         /\ \A k \in 1 .. Cardinality(S) : \E x \in S : Place(S, R, x) = k
<1>. DEFINE place == [x \in S |-> Place(S, R, x)]
<1>0. \A x \in S : place[x] = Place(S, R, x)
  OBVIOUS
<1>. DEFINE D(x) == {y \in S : <<y, x>> \in R}
            N == Cardinality(S)
<1>1. N \in Nat
  BY FS_CardinalityType
<1>2. \A x \in S : IsFiniteSet(D(x)) /\ Cardinality(D(x)) <= N
  BY FS_Subset
<1>3. \A x \in S : Cardinality(D(x)) \in Nat \ {0}
  <2>. TAKE x \in S
  <2>1. x \in D(x)
    BY DEF IsOrder
  <2>2. IsFiniteSet(D(x)) /\ D(x) # {}
    BY <1>2, <2>1
  <2>. HIDE DEF D
  <2>. QED  BY <2>2, FS_EmptySet, FS_CardinalityType
<1>4. \A x \in S : place[x] = Cardinality(D(x))
  BY DEF Place
<1>5. \A x, y \in S : <<x, y>> \in R => D(x) \subseteq D(y)
  BY DEF IsOrder
<1>6. \A x, y \in S : <<x, y>> \in R => Cardinality(D(x)) <= Cardinality(D(y))
  <2>. HIDE DEF D, place
  <2>. QED  BY <1>2, <1>5, FS_Subset
<1>7. \A x, y \in S : <<x, y>> \in R /\ Cardinality(D(x)) = Cardinality(D(y)) => x = y
  <2>. SUFFICES ASSUME NEW x \in S, NEW y \in S, <<x, y>> \in R,
                       Cardinality(D(x)) = Cardinality(D(y))
                PROVE  x = y
    OBVIOUS
  <2>1. D(x) = D(y)
    BY <1>2, <1>5, FS_Subset
  <2>2. y \in D(x)
    BY <2>1 DEF IsOrder
  <2>. QED  BY <2>2 DEF IsOrder
<1>8. \A x, y \in S : Cardinality(D(x)) = Cardinality(D(y)) => x = y
  <2>. HIDE DEF D
  <2>. QED  BY <1>7 DEF IsOrder
<1>9. \A x \in S : place[x] \in 1 .. N
  <2>. HIDE DEF D, N, place
  <2>. QED  BY <1>1, <1>2, <1>3, <1>4
<1>10. place \in Injection(S, 1 .. N)
  <2>. HIDE DEF D, N
  <2>1. place \in [S -> 1 .. N]
    BY <1>9
  <2>. HIDE DEF place
  <2>2. \A x, y \in S : place[x] = place[y] => x = y
    BY <1>4, <1>8
  <2>. QED  BY <2>1, <2>2 DEF Injection, IsInjective
<1>11. IsFiniteSet(1 .. N) /\ Cardinality(1 .. N) = N
  <2>. HIDE DEF N
  <2>. QED  BY <1>1, FS_Interval
<1>. HIDE DEF place
<1>12. place \in Surjection(S, 1 .. N)
  BY <1>10, <1>11, FS_Injection
<1>13. \A k \in 1 .. N : \E x \in S : place[x] = k
  BY <1>12 DEF Surjection
<1>14. \A x, y \in S : <<x, y>> \in R => place[x] <= place[y]
  <2>. HIDE DEF D
  <2>. QED  BY <1>4, <1>6
<1>15. \A x, y \in S : place[x] = place[y] => x = y
  <2>. HIDE DEF D
  <2>. QED  BY <1>4, <1>8
<1>. QED  BY <1>0, <1>1, <1>9, <1>13, <1>14, <1>15

(* The numbers up to n are n.                                              *)
LEMMA UpTo ==
  ASSUME NEW n \in Nat
  PROVE  IsFiniteSet(1 .. n) /\ Cardinality(1 .. n) = n
<1>1. n \in Int
  OBVIOUS
<1>2. IsFiniteSet(1 .. n) /\ Cardinality(1 .. n) = IF 1 > n THEN 0 ELSE n - 1 + 1
  BY <1>1, FS_Interval
<1>. QED  BY <1>2

Entries(w, k) == {w[i] : i \in 1 .. k}

Distinct(w, N) == \A i, j \in 1 .. N : w[i] = w[j] => i = j

(* The first k entries of a list without repetitions are k elements.       *)
LEMMA FirstEntries ==
  ASSUME NEW N \in Nat, NEW w, Distinct(w, N),
         NEW k \in 0 .. N
  PROVE  IsFiniteSet(Entries(w, k)) /\ Cardinality(Entries(w, k)) = k
<1>. DEFINE I == 1 .. k
            F == {w[i] : i \in I}
            f == [i \in I |-> w[i]]
<1>1. I \subseteq 1 .. N /\ k \in Int
  OBVIOUS
<1>2. IsFiniteSet(I) /\ Cardinality(I) = k
  <2>1. IsFiniteSet(1 .. k) /\ Cardinality(1 .. k) = IF 1 > k THEN 0 ELSE k - 1 + 1
    BY <1>1, FS_Interval
  <2>. QED  BY <2>1
<1>. HIDE DEF I
<1>3. f \in Bijection(I, F)
  <2>1. f \in [I -> F]
    OBVIOUS
  <2>2. \A i, j \in I : f[i] = f[j] => i = j
    BY <1>1 DEF Distinct
  <2>3. \A x \in F : \E i \in I : f[i] = x
    OBVIOUS
  <2>. HIDE DEF f, F
  <2>. QED  BY <2>1, <2>2, <2>3 DEF Bijection, Injection, Surjection, IsInjective
<1>4. ExistsBijection(I, F)
  BY <1>3 DEF ExistsBijection
<1>. HIDE DEF F
<1>5. IsFiniteSet(F) /\ Cardinality(F) = k
  BY <1>2, <1>4, FS_Bijection
<1>. QED  BY <1>5 DEF F, I, Entries

(* The pushdown of the limit.  A is all that is asked for and U what the   *)
(* sources sent, listed by w in an order that agrees with P.  What was not *)
(* sent comes from a source that sent OFFSET + LIMIT elements not after    *)
(* it.  Then the first OFFSET + LIMIT entries of w could stand where they  *)
(* stand in a list of all of A.                                            *)
IsWeakOrder(A, P) ==
  /\ \A x \in A : <<x, x>> \notin P
  /\ \A x, y, z \in A : <<x, z>> \in P => <<x, y>> \in P \/ <<y, z>> \in P
Lists(U, P, N, w) ==
  /\ Distinct(w, N)
  /\ \A i \in 1 .. N : w[i] \in U
  /\ \A x \in U : \E i \in 1 .. N : w[i] = x
  /\ \A i, j \in 1 .. N : i < j => <<w[j], w[i]>> \notin P
SentEnough(A, U, P, offset, limit) ==
  \A x \in A \ U : /\ limit > 0
                   /\ \E T \in SUBSET U : /\ Cardinality(T) = offset + limit
                                          /\ \A y \in T : <<x, y>> \notin P
ListsPage(A, P, N, w, offset, limit) ==
  /\ N <= Cardinality(A)
  /\ N = Cardinality(A) \/ (limit > 0 /\ offset + limit <= N)
  /\ \A k \in 1 .. N :
       limit = 0 \/ k <= offset + limit =>
         /\ Cardinality({x \in A : <<x, w[k]>> \in P}) < k
         /\ Cardinality({x \in A : <<w[k], x>> \notin P}) >= k

(* With the orders, lists and cuts above, the list is a page of A.         *)
LEMMA PageOfAll ==
  ASSUME NEW A, IsFiniteSet(A), NEW U, U \subseteq A, NEW P, IsWeakOrder(A, P),
         NEW N \in Nat, NEW w, Lists(U, P, N, w),
         NEW offset \in Nat, NEW limit \in Nat, SentEnough(A, U, P, offset, limit)
  PROVE  ListsPage(A, P, N, w, offset, limit)
<1>. SUFFICES
       ASSUME \A x \in A : <<x, x>> \notin P,
              \A x, y, z \in A : <<x, z>> \in P => <<x, y>> \in P \/ <<y, z>> \in P,
              Distinct(w, N),
              \A i \in 1 .. N : w[i] \in U,
              \A x \in U : \E i \in 1 .. N : w[i] = x,
              \A i, j \in 1 .. N : i < j => <<w[j], w[i]>> \notin P,
              \A x \in A \ U : /\ limit > 0
                               /\ \E T \in SUBSET U : /\ Cardinality(T) = offset + limit
                                                      /\ \A y \in T : <<x, y>> \notin P
       PROVE  ListsPage(A, P, N, w, offset, limit)
  BY DEF IsWeakOrder, Lists, SentEnough
<1>1. \A k \in 0 .. N : IsFiniteSet(Entries(w, k)) /\ Cardinality(Entries(w, k)) = k
  BY FirstEntries
<1>2. Entries(w, N) = U
  BY DEF Entries
<1>3. IsFiniteSet(U) /\ Cardinality(U) = N
  BY <1>1, <1>2
<1>4. N <= Cardinality(A) /\ Cardinality(A) \in Nat
  BY <1>3, FS_Subset, FS_CardinalityType
<1>5. N = Cardinality(A) \/ (limit > 0 /\ offset + limit <= N)
  <2>1. CASE U = A
    BY <2>1, <1>3
  <2>2. CASE U # A
    <3>1. PICK x \in A \ U : TRUE
      BY <2>2
    <3>2. PICK T \in SUBSET U : Cardinality(T) = offset + limit
      BY <3>1
    <3>3. Cardinality(T) <= Cardinality(U)
      BY <1>3, FS_Subset
    <3>. QED  BY <3>1, <3>2, <3>3, <1>3
  <2>. QED  BY <2>1, <2>2
<1>6. ASSUME NEW k \in 1 .. N, limit = 0 \/ k <= offset + limit
      PROVE  /\ Cardinality({x \in A : <<x, w[k]>> \in P}) < k
             /\ Cardinality({x \in A : <<w[k], x>> \notin P}) >= k
  <2>. DEFINE L == {x \in A : <<x, w[k]>> \in P}
              G == {x \in A : <<w[k], x>> \notin P}
  <2>1. w[k] \in A /\ k \in Nat /\ k - 1 \in 0 .. N /\ k \in 0 .. N
    OBVIOUS
  <2>2. \A y \in U : <<y, w[k]>> \in P => y \in Entries(w, k - 1)
    <3>. SUFFICES ASSUME NEW y \in U, <<y, w[k]>> \in P PROVE y \in Entries(w, k - 1)
      OBVIOUS
    <3>1. PICK i \in 1 .. N : w[i] = y
      OBVIOUS
    <3>2. i # k
      BY <2>1, <3>1
    <3>3. ~ (k < i)
      BY <3>1
    <3>4. i \in 1 .. k - 1
      BY <3>2, <3>3
    <3>. QED  BY <3>1, <3>4 DEF Entries
  <2>3. IsFiniteSet(Entries(w, k - 1)) /\ Cardinality(Entries(w, k - 1)) = k - 1
    BY <1>1, <2>1
  <2>4. L \subseteq U
    <3>. SUFFICES ASSUME NEW x \in A, <<x, w[k]>> \in P, x \notin U PROVE FALSE
      OBVIOUS
    <3>1. limit > 0
      OBVIOUS
    <3>2. PICK T \in SUBSET U : /\ Cardinality(T) = offset + limit
                                /\ \A y \in T : <<x, y>> \notin P
      OBVIOUS
    <3>3. \A y \in T : <<y, w[k]>> \in P
      BY <2>1, <3>2
    <3>4. T \subseteq Entries(w, k - 1)
      BY <2>2, <3>3
    <3>5. Cardinality(T) <= k - 1
      BY <2>3, <3>4, FS_Subset
    <3>. QED  BY <3>1, <3>2, <3>5, <1>6, <2>1
  <2>5. L \subseteq Entries(w, k - 1)
    BY <2>2, <2>4
  <2>6. Cardinality(L) <= k - 1 /\ Cardinality(L) \in Nat
    <3>. HIDE DEF L
    <3>. QED  BY <2>3, <2>5, FS_Subset, FS_CardinalityType
  <2>7. Entries(w, k) \subseteq G
    <3>. SUFFICES ASSUME NEW i \in 1 .. k PROVE w[i] \in A /\ <<w[k], w[i]>> \notin P
      BY DEF Entries
    <3>1. i \in 1 .. N /\ (i < k \/ i = k)
      OBVIOUS
    <3>. QED  BY <3>1, <2>1
  <2>8. Cardinality(Entries(w, k)) = k /\ IsFiniteSet(Entries(w, k))
    BY <1>1, <2>1
  <2>9. IsFiniteSet(G)
    BY FS_Subset
  <2>10. Cardinality(G) >= k /\ Cardinality(G) \in Nat
    <3>. HIDE DEF G
    <3>. QED  BY <2>7, <2>8, <2>9, FS_Subset, FS_CardinalityType
  <2>. QED  BY <2>1, <2>6, <2>10
<1>. QED  BY <1>4, <1>5, <1>6 DEF ListsPage

(* The sort is a strict weak order of rows whose fields hold numbers.      *)
LEMMA BeforeOrders ==
  ASSUME NEW sort, NEW n \in Nat, DOMAIN sort = 1 .. n,
         NEW T, \A a \in T : \A k \in 1 .. n : Get(a, sort[k].field) \in Nat
  PROVE  /\ \A a \in T : ~ Before(sort, a, a)
         /\ \A a, b \in T : Before(sort, a, b) => ~ Before(sort, b, a)
         /\ \A a, b, c \in T : Before(sort, a, b) /\ Before(sort, b, c) => Before(sort, a, c)
         /\ \A a, b, c \in T : Before(sort, a, c) => Before(sort, a, b) \/ Before(sort, b, c)
<1>. DEFINE V(a, k) == Get(a, sort[k].field)
            Less(a, b, k) == IF sort[k].desc THEN V(b, k) < V(a, k) ELSE V(a, k) < V(b, k)
            Equal(a, b, k) == \A j \in 1 .. k - 1 : V(a, j) = V(b, j)
<1>1. \A a, b : Before(sort, a, b) <=> \E k \in 1 .. n : Equal(a, b, k) /\ Less(a, b, k)
  BY DEF Before
<1>2. \A a \in T : \A k \in 1 .. n : V(a, k) \in Nat
  OBVIOUS
<1>. HIDE DEF V
<1>3. \A a, b \in T : \A k \in 1 .. n : Less(a, b, k) => V(a, k) # V(b, k) /\ ~ Less(b, a, k)
  BY <1>2
<1>4. \A a, b \in T : \A k \in 1 .. n : Less(a, b, k) \/ Less(b, a, k) \/ V(a, k) = V(b, k)
  BY <1>2
<1>5. \A a, b, c \in T : \A k \in 1 .. n : Less(a, b, k) /\ Less(b, c, k) => Less(a, c, k)
  <2>. TAKE a, b, c \in T
  <2>. TAKE k \in 1 .. n
  <2>1. V(a, k) \in Nat /\ V(b, k) \in Nat /\ V(c, k) \in Nat
    BY <1>2
  <2>. QED  BY <2>1
<1>6. ASSUME NEW a \in T, NEW b \in T, NEW c \in T, NEW k \in 1 .. n
      PROVE  /\ (Less(a, b, k) /\ V(b, k) = V(c, k)) => Less(a, c, k)
             /\ (V(a, k) = V(b, k) /\ Less(b, c, k)) => Less(a, c, k)
  <2>1. V(a, k) \in Nat /\ V(b, k) \in Nat /\ V(c, k) \in Nat
    BY <1>2
  <2>. QED  BY <2>1
<1>. HIDE DEF Less
<1>7. \A a \in T : ~ Before(sort, a, a)
  BY <1>1, <1>3
<1>8. \A a, b, c \in T : Before(sort, a, b) /\ Before(sort, b, c) => Before(sort, a, c)
  <2>. SUFFICES ASSUME NEW a \in T, NEW b \in T, NEW c \in T, 
                       NEW k \in 1 .. n, Equal(a, b, k), Less(a, b, k),
                       NEW l \in 1 .. n, Equal(b, c, l), Less(b, c, l)
                PROVE  \E m \in 1 .. n : Equal(a, c, m) /\ Less(a, c, m)
    BY <1>1
  <2>1. CASE k < l
    <3>1. V(b, k) = V(c, k)
      BY <2>1
    <3>2. Equal(a, c, k)
      BY <2>1
    <3>. QED  BY <3>1, <3>2, <1>6
  <2>2. CASE k = l
    <3>1. Equal(a, c, k)
      BY <2>2
    <3>. QED  BY <3>1, <2>2, <1>5
  <2>3. CASE l < k
    <3>1. V(a, l) = V(b, l)
      BY <2>3
    <3>2. Equal(a, c, l)
      BY <2>3
    <3>. QED  BY <3>1, <3>2, <1>6
  <2>. QED  BY <2>1, <2>2, <2>3
<1>9. \A a, b, c \in T : Before(sort, a, c) => Before(sort, a, b) \/ Before(sort, b, c)
  <2>. SUFFICES ASSUME NEW a \in T, NEW b \in T, NEW c \in T,
                       NEW k \in 1 .. n, Equal(a, c, k), Less(a, c, k)
                PROVE  Before(sort, a, b) \/ Before(sort, b, c)
    BY <1>1
  <2>. DEFINE Differ == {j \in 1 .. k : V(a, j) # V(b, j)}
  <2>1. CASE Differ = {}
    <3>0. k \in 1 .. k
      OBVIOUS
    <3>1. V(a, k) = V(b, k)
      BY <2>1, <3>0
    <3>2. Equal(b, c, k)
      <4>. SUFFICES ASSUME NEW j \in 1 .. k - 1 PROVE V(b, j) = V(c, j)
        OBVIOUS
      <4>1. j \in 1 .. k
        OBVIOUS
      <4>. QED  BY <4>1, <2>1
    <3>3. Less(b, c, k)
      BY <3>1, <1>6
    <3>. QED  BY <3>2, <3>3, <1>1
  <2>2. CASE Differ # {}
    <3>0. Differ \subseteq Nat
      OBVIOUS
    <3>1. PICK j \in Differ : \A i \in Differ : j <= i
      <4>. HIDE DEF Differ
      <4>. QED  BY <2>2, <3>0, LeastNumber
    <3>2. j \in 1 .. n /\ j <= k
      OBVIOUS
    <3>3. Equal(a, b, j)
      <4>. SUFFICES ASSUME NEW i \in 1 .. j - 1, V(a, i) # V(b, i) PROVE FALSE
        OBVIOUS
      <4>1. i \in Differ
        BY <3>2
      <4>. QED  BY <4>1, <3>1
    <3>4. CASE Less(a, b, j)
      BY <3>2, <3>3, <3>4, <1>1
    <3>5. CASE Less(b, a, j)
      <4>1. Equal(b, c, j)
        <5>. SUFFICES ASSUME NEW i \in 1 .. j - 1 PROVE V(b, i) = V(c, i)
          OBVIOUS
        <5>1. i \in 1 .. k - 1
          BY <3>2
        <5>. QED  BY <3>3, <5>1
      <4>2. CASE j < k
        <5>1. V(a, j) = V(c, j)
          BY <3>2, <4>2
        <5>2. Less(b, c, j)
          BY <5>1, <3>2, <3>5, <1>6
        <5>. QED  BY <5>2, <4>1, <3>2, <1>1
      <4>3. CASE j = k
        <5>1. Less(b, c, j)
          BY <4>3, <3>2, <3>5, <1>5
        <5>. QED  BY <5>1, <4>1, <3>2, <1>1
      <4>. QED  BY <3>2, <4>2, <4>3
    <3>. QED  BY <3>1, <3>2, <3>4, <3>5, <1>4
  <2>. QED  BY <2>1, <2>2
<1>. QED  BY <1>7, <1>8, <1>9

-----------------------------------------------------------------------------
(* Names *)

Mappings == Seq(FieldMapping(Name))

(* The entries of a mapping are pairs of names.                            *)
LEMMA MappingEntries ==
  ASSUME NEW m \in Mappings
  PROVE  /\ Len(m) \in Nat /\ DOMAIN m = 1 .. Len(m)
         /\ \A i \in DOMAIN m : m[i].logical \in Name /\ m[i].physical \in Name
<1>. DEFINE F == FieldMapping(Name)
<1>1. m \in Seq(F)
  BY DEF Mappings
<1>2. \A x \in F : x.logical \in Name /\ x.physical \in Name
  BY DEF FieldMapping
<1>. HIDE DEF F
<1>. QED  BY <1>1, <1>2

(* Where names are apart, the entry of a field or column is unique.        *)
LEMMA EntryIsUnique ==
  ASSUME NEW m \in Mappings, NamesAreApart(m), NEW i \in DOMAIN m
  PROVE  /\ ResolveFieldPath(m, m[i].logical) = m[i].physical
         /\ Denotes(m, m[i].logical) = m[i].physical
         /\ m[i].physical \in PhysicalNames(m)
         /\ PhysicalToLogical(m)[m[i].physical] = m[i].logical
<1>1. /\ Len(m) \in Nat /\ DOMAIN m = 1 .. Len(m)
      /\ m[i].logical \in Name /\ m[i].physical \in Name
  BY MappingEntries
<1>2. ResolveFieldPath(m, m[i].logical) = m[i].physical
  <2>. DEFINE E == {k \in DOMAIN m : m[i].logical \in {m[k].logical, m[k].physical}}
  <2>1. E = {i}
    BY DEF NamesAreApart
  <2>2. E \subseteq 1 .. Len(m) /\ E # {}
    BY <1>1, <2>1
  <2>. HIDE DEF E
  <2>3. Max(E) \in E
    BY <1>1, <2>2, GreatestNumber
  <2>. QED  BY <2>1, <2>3 DEF ResolveFieldPath, E
<1>3. Denotes(m, m[i].logical) = m[i].physical
  <2>1. m[i].logical \in LogicalNames(m)
    BY DEF LogicalNames
  <2>2. m[i] \in Range(m) /\ m[i].logical = m[i].logical
    BY DEF Range
  <2>3. \A x \in Range(m) : x.logical = m[i].logical => x = m[i]
    BY DEF Range, NamesAreApart
  <2>4. (CHOOSE x \in Range(m) : x.logical = m[i].logical) = m[i]
    BY <2>2, <2>3
  <2>. QED  BY <2>1, <2>4 DEF Denotes
<1>4. m[i].physical \in PhysicalNames(m)
  BY DEF PhysicalNames
<1>5. PhysicalToLogical(m)[m[i].physical] = m[i].logical
  <2>. DEFINE E == {k \in DOMAIN m : m[k].physical = m[i].physical}
  <2>1. E = {i}
    BY DEF NamesAreApart
  <2>2. E \subseteq 1 .. Len(m) /\ E # {}
    BY <1>1, <2>1
  <2>. HIDE DEF E
  <2>3. Max(E) \in E
    BY <1>1, <2>2, GreatestNumber
  <2>. QED  BY <1>4, <2>1, <2>3 DEF PhysicalToLogical, E
<1>. QED  BY <1>2, <1>3, <1>4, <1>5

(* The planner resolves a name to the column that holds it.                *)
LEMMA ResolvesToMeaning ==
  ASSUME NEW m \in Mappings, NamesAreApart(m), NEW f \in Name,
         f \in PhysicalNames(m) => f \in LogicalNames(m)
  PROVE  ResolveFieldPath(m, f) = Denotes(m, f) /\ Denotes(m, f) \in Name
<1>1. CASE f \in LogicalNames(m)
  <2>1. PICK i \in DOMAIN m : m[i].logical = f
    BY <1>1 DEF LogicalNames
  <2>2. m[i].physical \in Name
    BY MappingEntries
  <2>. QED  BY <2>1, <2>2, EntryIsUnique
<1>2. CASE f \notin LogicalNames(m)
  <2>1. {i \in DOMAIN m : f \in {m[i].logical, m[i].physical}} = {}
    BY <1>2 DEF LogicalNames, PhysicalNames
  <2>. QED  BY <1>2, <2>1 DEF ResolveFieldPath, Denotes
<1>. QED  BY <1>1, <1>2

(* normalize_row gives a column the name of its field, a field its own,    *)
(* and drops the others.                                                   *)
LEMMA NormalNames ==
  ASSUME NEW m \in Mappings, NamesAreApart(m)
  PROVE  /\ \A i \in DOMAIN m : NormalName(m, m[i].physical) = {m[i].logical}
         /\ \A c : c \notin PhysicalNames(m) => NormalName(m, c) = {c} \cap LogicalNames(m)
         /\ \A f \in LogicalNames(m) : NormalName(m, f) = {f}
<1>. DEFINE p2l == PhysicalToLogical(m)
<1>1. DOMAIN p2l = PhysicalNames(m)
  BY DEF PhysicalToLogical
<1>2. \A i \in DOMAIN m : m[i].physical \in DOMAIN p2l /\ p2l[m[i].physical] = m[i].logical
  BY <1>1, EntryIsUnique
<1>3. {p2l[p] : p \in DOMAIN p2l} = LogicalNames(m)
  <2>1. \A p \in DOMAIN p2l : \E i \in DOMAIN m : p = m[i].physical
    BY <1>1 DEF PhysicalNames
  <2>. HIDE DEF p2l
  <2>. QED  BY <1>2, <2>1 DEF LogicalNames
<1>4. \A c : NormalName(m, c) = IF c \in DOMAIN p2l THEN {p2l[c]}
                               ELSE {c} \cap {p2l[p] : p \in DOMAIN p2l}
  BY DEF NormalName
<1>. HIDE DEF p2l
<1>5. \A i \in DOMAIN m : NormalName(m, m[i].physical) = {m[i].logical}
  BY <1>2, <1>4
<1>6. \A c : c \notin PhysicalNames(m) => NormalName(m, c) = {c} \cap LogicalNames(m)
  BY <1>1, <1>3, <1>4
<1>7. ASSUME NEW f \in LogicalNames(m) PROVE NormalName(m, f) = {f}
  <2>1. PICK i \in DOMAIN m : m[i].logical = f
    BY DEF LogicalNames
  <2>2. CASE f \in PhysicalNames(m)
    <3>1. PICK j \in DOMAIN m : m[j].physical = f
      BY <2>2 DEF PhysicalNames
    <3>2. i = j
      BY <2>1, <3>1 DEF NamesAreApart
    <3>. QED  BY <1>5, <2>1, <3>1, <3>2
  <2>3. CASE f \notin PhysicalNames(m)
    BY <2>3, <1>6
  <2>. QED  BY <2>2, <2>3
<1>. QED  BY <1>5, <1>6, <1>7

NoClash(m, C) == \A c, d \in C : \A n : n \in NormalName(m, c) /\ n \in NormalName(m, d) => c = d

(* When no two columns of a row get one name, each keeps its value.        *)
LEMMA NormalizeKeeps ==
  ASSUME NEW m, NEW row, DOMAIN row \subseteq Name, NoClash(m, DOMAIN row)
  PROVE  /\ \A n : n \in DOMAIN NormalizeRow(m, ColumnOrder, row) <=>
                    \E c \in DOMAIN row : n \in NormalName(m, c)
         /\ \A c \in DOMAIN row : \A n \in NormalName(m, c) :
              NormalizeRow(m, ColumnOrder, row)[n] = row[c]
<1>. DEFINE order == ColumnOrder
            Cols(n) == {i \in DOMAIN order : order[i] \in DOMAIN row /\ n \in NormalName(m, order[i])}
<1>1. Len(order) \in Nat /\ DOMAIN order = 1 .. Len(order)
      /\ \A c \in Name : \E i \in DOMAIN order : order[i] = c
  BY FederatedAssumption DEF Range
<1>2. NormalizeRow(m, order, row) =
        [n \in UNION {NormalName(m, c) : c \in DOMAIN row} |-> row[order[Max(Cols(n))]]]
  BY DEF NormalizeRow
<1>3. ASSUME NEW c \in DOMAIN row, NEW n \in NormalName(m, c)
      PROVE  NormalizeRow(m, order, row)[n] = row[c]
  <2>1. Cols(n) \subseteq 1 .. Len(order) /\ Cols(n) # {}
    BY <1>1
  <2>2. Max(Cols(n)) \in Cols(n)
    <3>. HIDE DEF Cols
    <3>. QED  BY <1>1, <2>1, GreatestNumber
  <2>3. order[Max(Cols(n))] = c
    <3>. DEFINE i == Max(Cols(n))
    <3>1. order[i] \in DOMAIN row /\ n \in NormalName(m, order[i])
      BY <2>2
    <3>. HIDE DEF i
    <3>2. order[i] = c
      BY <3>1 DEF NoClash
    <3>. QED  BY <3>2 DEF i
  <2>4. n \in UNION {NormalName(m, d) : d \in DOMAIN row}
    OBVIOUS
  <2>. HIDE DEF Cols, order
  <2>. QED  BY <1>2, <2>3, <2>4
<1>4. DOMAIN NormalizeRow(m, order, row) = UNION {NormalName(m, c) : c \in DOMAIN row}
  BY <1>2
<1>5. \A n : n \in DOMAIN NormalizeRow(m, order, row) <=> \E c \in DOMAIN row : n \in NormalName(m, c)
  BY <1>4
<1>. QED  BY <1>3, <1>5

-----------------------------------------------------------------------------
(* What a source answers *)

(* The value of a field in row i of the table t under the mapping m.       *)
Val(t, m, i, f) == t[i][Denotes(m, f)]
SortRow(q, t, m, i) == [f \in SortFields(q) |-> Val(t, m, i, f)]
Wanted(q, t, m) == {i \in DOMAIN t : \A f \in q.where : Val(t, m, i, f) # None}

(* A plan names the columns its mapping says.                              *)
ClearPlan(q, p) ==
  /\ p.mapping \in Mappings
  /\ NamesAreApart(p.mapping)
  /\ NamesFields(q, p.mapping)
  /\ q.fields \cup SortFields(q) \subseteq LogicalNames(p.mapping)
  /\ p = Lower(p.mapping, q)

(* A row under the names of its fields.                                    *)
RowMeans(q, t, m, i, r) ==
  /\ q.fields \subseteq DOMAIN r
  /\ SortFields(q) \subseteq DOMAIN r
  /\ \A f \in DOMAIN r : r[f] = Val(t, m, i, f)

(* The parts of a query have their types.                                  *)
LEMMA QueryParts ==
  ASSUME NEW q \in Query(Name)
  PROVE  /\ q.fields \subseteq Name /\ q.where \subseteq Name /\ SortFields(q) \subseteq Name
         /\ Len(q.sort) \in Nat /\ DOMAIN q.sort = 1 .. Len(q.sort)
         /\ \A k \in DOMAIN q.sort : q.sort[k] = [field |-> q.sort[k].field, desc |-> q.sort[k].desc]
         /\ q.limit \in Nat /\ q.offset \in Nat
         /\ AllReferencedFields(q) \subseteq Name
<1>. DEFINE C == SortClause(Name)
<1>1. q.sort \in Seq(C) /\ q.fields \subseteq Name /\ q.where \subseteq Name
      /\ q.limit \in Nat /\ q.offset \in Nat
  BY DEF Query
<1>2. \A c \in C : c.field \in Name /\ c = [field |-> c.field, desc |-> c.desc]
  BY DEF SortClause
<1>. HIDE DEF C
<1>3. Len(q.sort) \in Nat /\ DOMAIN q.sort = 1 .. Len(q.sort) /\ \A k \in DOMAIN q.sort : q.sort[k] \in C
  BY <1>1
<1>4. SortFields(q) \subseteq Name
  BY <1>2, <1>3 DEF SortFields
<1>. QED  BY <1>1, <1>2, <1>3, <1>4 DEF AllReferencedFields

(* The plan selects, filters and orders by the columns that hold the       *)
(* fields of the query.                                                    *)
LEMMA PlanMeans ==
  ASSUME NEW q \in Query(Name), NEW p, ClearPlan(q, p)
  PROVE  /\ \A f \in AllReferencedFields(q) :
              ResolveFieldPath(p.mapping, f) = Denotes(p.mapping, f) /\ Denotes(p.mapping, f) \in Name
         /\ p.select = {[column |-> Denotes(p.mapping, f), as |-> f] : f \in q.fields}
         /\ p.where = {Denotes(p.mapping, f) : f \in q.where}
         /\ DOMAIN p.sort = DOMAIN q.sort
         /\ \A k \in DOMAIN q.sort : /\ p.sort[k].field = Denotes(p.mapping, q.sort[k].field)
                                     /\ p.sort[k].desc = q.sort[k].desc
         /\ p.limit = PushedLimit(q)
<1>. DEFINE m == p.mapping
<1>1. \A f \in AllReferencedFields(q) : ResolveFieldPath(m, f) = Denotes(m, f) /\ Denotes(m, f) \in Name
  <2>. TAKE f \in AllReferencedFields(q)
  <2>1. f \in Name
    BY QueryParts
  <2>2. f \in PhysicalNames(m) => f \in LogicalNames(m)
    BY DEF ClearPlan, NamesFields
  <2>. QED  BY <2>1, <2>2, ResolvesToMeaning DEF ClearPlan
<1>2. /\ p.select = {[column |-> ResolveFieldPath(m, f), as |-> f] : f \in q.fields}
      /\ p.where = {ResolveFieldPath(m, f) : f \in q.where}
      /\ p.sort = [i \in DOMAIN q.sort |->
                     [q.sort[i] EXCEPT !.field = ResolveFieldPath(m, q.sort[i].field)]]
      /\ p.limit = PushedLimit(q)
  <2>. DEFINE l == Lower(m, q)
  <2>1. p = l
    BY DEF ClearPlan
  <2>2. /\ l.select = {[column |-> ResolveFieldPath(m, f), as |-> f] : f \in q.fields}
        /\ l.where = {ResolveFieldPath(m, f) : f \in q.where}
        /\ l.sort = [i \in DOMAIN q.sort |->
                       [q.sort[i] EXCEPT !.field = ResolveFieldPath(m, q.sort[i].field)]]
        /\ l.limit = PushedLimit(q)
    BY DEF Lower
  <2>. HIDE DEF l
  <2>. QED  BY <2>1, <2>2
<1>3. \A f \in q.fields \cup q.where \cup SortFields(q) : ResolveFieldPath(m, f) = Denotes(m, f)
  BY <1>1 DEF AllReferencedFields
<1>4. \A k \in DOMAIN q.sort : q.sort[k].field \in SortFields(q)
  BY DEF SortFields
<1>5. ASSUME NEW k \in DOMAIN q.sort
      PROVE  p.sort[k].field = Denotes(m, q.sort[k].field) /\ p.sort[k].desc = q.sort[k].desc
  <2>1. p.sort[k] = [q.sort[k] EXCEPT !.field = ResolveFieldPath(m, q.sort[k].field)]
    BY <1>2
  <2>2. q.sort[k] = [field |-> q.sort[k].field, desc |-> q.sort[k].desc]
    BY QueryParts
  <2>. QED  BY <2>1, <2>2, <1>3, <1>4
<1>6. p.select = {[column |-> Denotes(m, f), as |-> f] : f \in q.fields}
  <2>. DEFINE A(f) == [column |-> ResolveFieldPath(m, f), as |-> f]
              B(f) == [column |-> Denotes(m, f), as |-> f]
  <2>1. \A f \in q.fields : A(f) = B(f)
    BY <1>3
  <2>. HIDE DEF A, B
  <2>2. {A(f) : f \in q.fields} = {B(f) : f \in q.fields}
    BY <2>1
  <2>. QED  BY <1>2, <2>2 DEF A, B
<1>7. p.where = {Denotes(m, f) : f \in q.where}
  BY <1>2, <1>3
<1>8. DOMAIN p.sort = DOMAIN q.sort
  BY <1>2
<1>. QED  BY <1>1, <1>2, <1>5, <1>6, <1>7, <1>8

(* The rows a plan selects, renamed, hold the fields of the query.         *)
LEMMA RowIsMeant ==
  ASSUME NEW q \in Query(Name), NEW p, ClearPlan(q, p), SortIsProjected(q),
         NEW s, columns[s] \subseteq Name, ColumnsAreApart(p.mapping, columns[s]),
         PlanColumns(p) \subseteq columns[s],
         NEW t, NEW i, t[i] \in [Name -> Nat]
  PROVE  RowMeans(q, t, p.mapping, i, NormalizeRow(p.mapping, ColumnOrder, Selected(s, p, t[i])))
<1>. DEFINE m == p.mapping
            row == t[i]
            sel == Selected(s, p, row)
            r == NormalizeRow(m, ColumnOrder, sel)
<1>0. m \in Mappings /\ NamesAreApart(m) /\ q.fields \cup SortFields(q) \subseteq LogicalNames(m)
  BY DEF ClearPlan
<1>1. CASE q.fields # {}
  <2>0. p.select = {[column |-> Denotes(m, f), as |-> f] : f \in q.fields}
    BY PlanMeans
  <2>1. p.select # {}
    BY <1>1, <2>0
  <2>2. {x.as : x \in p.select} = q.fields
    <3>1. ASSUME NEW f \in q.fields PROVE \E x \in p.select : x.as = f
      <4>1. [column |-> Denotes(m, f), as |-> f] \in p.select
        BY <2>0
      <4>. QED  BY <4>1
    <3>2. ASSUME NEW x \in p.select PROVE x.as \in q.fields
      <4>1. PICK f \in q.fields : x = [column |-> Denotes(m, f), as |-> f]
        BY <2>0
      <4>. QED  BY <4>1
    <3>. QED  BY <3>1, <3>2
  <2>3. \A f \in q.fields : (CHOOSE x \in p.select : x.as = f).column = Denotes(m, f)
    <3>. TAKE f \in q.fields
    <3>1. [column |-> Denotes(m, f), as |-> f] \in p.select
      BY <2>0
    <3>2. \A x \in p.select : x.as = f => x.column = Denotes(m, f)
      BY <2>0
    <3>. QED  BY <3>1, <3>2
  <2>4. sel = [f \in q.fields |-> row[Denotes(m, f)]]
    <3>. DEFINE col(f) == (CHOOSE x \in p.select : x.as = f).column
    <3>1. sel = [f \in q.fields |-> row[col(f)]]
      BY <2>1, <2>2 DEF Selected
    <3>2. \A f \in q.fields : col(f) = Denotes(m, f)
      BY <2>3
    <3>. HIDE DEF col, sel
    <3>. QED  BY <3>1, <3>2
  <2>5. DOMAIN sel = q.fields /\ \A f \in q.fields : sel[f] = row[Denotes(m, f)]
    BY <2>4
  <2>6. \A f \in q.fields : NormalName(m, f) = {f}
    BY <1>0, NormalNames
  <2>7. q.fields \subseteq Name
    BY QueryParts
  <2>. HIDE DEF sel
  <2>8. /\ \A n : n \in DOMAIN r <=> \E c \in DOMAIN sel : n \in NormalName(m, c)
        /\ \A c \in DOMAIN sel : \A n \in NormalName(m, c) : r[n] = sel[c]
    <3>1. NoClash(m, DOMAIN sel)
      BY <2>5, <2>6 DEF NoClash
    <3>. QED  BY <2>5, <2>7, <3>1, NormalizeKeeps
  <2>. HIDE DEF r
  <2>9. DOMAIN r = q.fields /\ \A f \in q.fields : r[f] = row[Denotes(m, f)]
    BY <2>5, <2>6, <2>8, SMTT(30)
  <2>10. SortFields(q) \subseteq q.fields
    BY <1>1 DEF SortIsProjected, IsWildcard
  <2>11. RowMeans(q, t, m, i, r)
    BY <2>9, <2>10 DEF RowMeans, Val
  <2>. QED  BY <2>11 DEF r, sel
<1>2. CASE q.fields = {}
  <2>1. p.select = {}
    BY <1>2, PlanMeans
  <2>2. sel = [c \in columns[s] |-> row[c]]
    BY <2>1 DEF Selected
  <2>3. DOMAIN sel = columns[s] /\ \A c \in columns[s] : sel[c] = row[c]
    BY <2>2
  <2>4. ASSUME NEW c \in columns[s], NEW n \in NormalName(m, c)
        PROVE  \E k \in DOMAIN m : c = m[k].physical /\ n = m[k].logical /\ Denotes(m, n) = c
    <3>1. c \in PhysicalNames(m)
      BY <1>0, <2>4, NormalNames DEF ColumnsAreApart
    <3>2. PICK k \in DOMAIN m : c = m[k].physical
      BY <3>1 DEF PhysicalNames
    <3>3. n = m[k].logical
      BY <1>0, <2>4, <3>2, NormalNames
    <3>. QED  BY <1>0, <3>2, <3>3, EntryIsUnique
  <2>. HIDE DEF sel
  <2>5. NoClash(m, DOMAIN sel)
    BY <2>3, <2>4 DEF NoClash
  <2>6. /\ \A n : n \in DOMAIN r <=> \E c \in DOMAIN sel : n \in NormalName(m, c)
        /\ \A c \in DOMAIN sel : \A n \in NormalName(m, c) : r[n] = sel[c]
    BY <2>3, <2>5, NormalizeKeeps
  <2>. HIDE DEF r
  <2>7. \A f \in DOMAIN r : r[f] = row[Denotes(m, f)]
    BY <2>3, <2>4, <2>6
  <2>8. SortFields(q) \subseteq DOMAIN r
    <3>. SUFFICES ASSUME NEW f \in SortFields(q) PROVE f \in DOMAIN r
      OBVIOUS
    <3>1. PICK k \in DOMAIN q.sort : q.sort[k].field = f
      BY DEF SortFields
    <3>2. p.sort[k].field = Denotes(m, f) /\ k \in DOMAIN p.sort
      BY <3>1, PlanMeans
    <3>3. Denotes(m, f) \in columns[s]
      BY <3>2 DEF PlanColumns, SortFields
    <3>4. PICK j \in DOMAIN m : m[j].logical = f
      BY <1>0 DEF LogicalNames
    <3>5. Denotes(m, f) = m[j].physical
      BY <1>0, <3>4, EntryIsUnique
    <3>6. f \in NormalName(m, Denotes(m, f))
      BY <1>0, <3>4, <3>5, NormalNames
    <3>. QED  BY <2>3, <2>6, <3>3, <3>6
  <2>9. RowMeans(q, t, m, i, r)
    BY <1>2, <2>7, <2>8 DEF RowMeans, Val
  <2>. QED  BY <2>9 DEF r, sel
<1>. QED  BY <1>1, <1>2

(* The database orders rows by the columns as the language orders them by  *)
(* the fields.                                                             *)
LEMMA SameOrder ==
  ASSUME NEW q \in Query(Name), NEW p, ClearPlan(q, p),
         NEW t \in Seq([Name -> Nat]), NEW i \in DOMAIN t, NEW j \in DOMAIN t
  PROVE  Before(p.sort, t[i], t[j]) <=>
           Before(q.sort, SortRow(q, t, p.mapping, i), SortRow(q, t, p.mapping, j))
<1>. DEFINE m == p.mapping
            a == SortRow(q, t, m, i)
            b == SortRow(q, t, m, j)
<1>1. t[i] \in [Name -> Nat] /\ t[j] \in [Name -> Nat]
  <2>. DEFINE F == [Name -> Nat]
  <2>. HIDE DEF F
  <2>1. t \in Seq(F)
    BY DEF F
  <2>2. t[i] \in F /\ t[j] \in F
    BY <2>1
  <2>. QED  BY <2>2 DEF F
<1>2. ASSUME NEW k \in DOMAIN q.sort
      PROVE  /\ p.sort[k].desc = q.sort[k].desc
             /\ Get(t[i], p.sort[k].field) = Get(a, q.sort[k].field)
             /\ Get(t[j], p.sort[k].field) = Get(b, q.sort[k].field)
  <2>1. q.sort[k].field \in SortFields(q) /\ q.sort[k].field \in AllReferencedFields(q)
    BY DEF SortFields, AllReferencedFields
  <2>2. /\ p.sort[k].field = Denotes(m, q.sort[k].field)
        /\ Denotes(m, q.sort[k].field) \in Name
        /\ p.sort[k].desc = q.sort[k].desc
    BY <2>1, PlanMeans
  <2>. QED  BY <1>1, <2>1, <2>2 DEF Get, SortRow, Val
<1>3. DOMAIN p.sort = DOMAIN q.sort /\ Len(q.sort) \in Nat /\ DOMAIN q.sort = 1 .. Len(q.sort)
  BY PlanMeans, QueryParts
<1>. DEFINE PV(k) == Get(t[i], p.sort[k].field)
            PW(k) == Get(t[j], p.sort[k].field)
            QV(k) == Get(a, q.sort[k].field)
            QW(k) == Get(b, q.sort[k].field)
<1>4. \A k \in DOMAIN q.sort : p.sort[k].desc = q.sort[k].desc /\ PV(k) = QV(k) /\ PW(k) = QW(k)
  BY <1>2
<1>5. Before(p.sort, t[i], t[j]) <=>
        \E k \in DOMAIN p.sort :
          /\ \A l \in 1 .. k - 1 : PV(l) = PW(l)
          /\ IF p.sort[k].desc THEN PW(k) < PV(k) ELSE PV(k) < PW(k)
  BY DEF Before
<1>6. Before(q.sort, a, b) <=>
        \E k \in DOMAIN q.sort :
          /\ \A l \in 1 .. k - 1 : QV(l) = QW(l)
          /\ IF q.sort[k].desc THEN QW(k) < QV(k) ELSE QV(k) < QW(k)
  BY DEF Before
<1>. HIDE DEF PV, PW, QV, QW
<1>7. \A k \in DOMAIN q.sort : \A l \in 1 .. k - 1 : l \in DOMAIN q.sort
  BY <1>3
<1>. HIDE DEF a, b, m
<1>8. Before(p.sort, t[i], t[j]) <=> Before(q.sort, a, b)
  BY <1>3, <1>4, <1>5, <1>6, <1>7
<1>. QED  BY <1>8 DEF a, b, m

(* What the database sends: rows of the filter, each once, in the order of *)
(* the plan, and all of them unless the limit cuts the rest off.           *)
InOrder(sort, t, i, j) == IF sort = <<>> THEN i < j ELSE ~ Before(sort, t[j], t[i])
FilterRows(p, t) == {i \in DOMAIN t : \A c \in p.where : t[i][c] # None}

Sends(p, t, a) ==
  /\ Len(a) \in Nat /\ DOMAIN a = 1 .. Len(a)
  /\ \A i \in DOMAIN a : a[i] \in FilterRows(p, t)
  /\ \A i, j \in DOMAIN a : i < j => a[i] # a[j] /\ InOrder(p.sort, t, a[i], a[j])
  /\ \/ \A x \in FilterRows(p, t) : \E i \in DOMAIN a : a[i] = x
     \/ /\ p.limit > 0 /\ Len(a) = p.limit
        /\ \A x \in FilterRows(p, t) :
             \/ \E i \in DOMAIN a : a[i] = x
             \/ \A i \in DOMAIN a : InOrder(p.sort, t, a[i], x)

(* What the database of a source answers is what a plan asks for.          *)
LEMMA DatabaseAnswers ==
  ASSUME NEW p, p.limit \in Nat, NEW s, table[s] \in Seq([Name -> Nat]),
         NEW a \in Answers(s, p)
  PROVE  Sends(p, table[s], a)
<1>. DEFINE t == table[s]
            W == FilterRows(p, t)
            n == Cardinality(W)
            cut(b) == IF p.limit = 0 THEN Len(b) ELSE Min({Len(b), p.limit})
<1>1. PICK b \in SetToSeqs(W) :
        /\ \A i, j \in DOMAIN b : i < j => InOrder(p.sort, t, b[i], b[j])
        /\ a = SubSeq(b, 1, cut(b))
  BY DEF Answers, FilterRows, InOrder
<1>2. IsFiniteSet(W) /\ n \in Nat
  <2>. DEFINE F == [Name -> Nat]
  <2>. HIDE DEF F
  <2>1. t \in Seq(F)
    BY DEF F
  <2>2. Len(t) \in Nat /\ W \subseteq 1 .. Len(t)
    BY <2>1 DEF FilterRows
  <2>3. IsFiniteSet(1 .. Len(t))
    BY <2>2, FS_Interval
  <2>. HIDE DEF W
  <2>. QED  BY <2>2, <2>3, FS_Subset, FS_CardinalityType
<1>. HIDE DEF W
<1>3. b \in [1 .. n -> W] /\ \A i, j \in 1 .. n : i # j => b[i] # b[j]
  BY <1>1 DEF SetToSeqs
<1>4. \A x \in W : \E i \in 1 .. n : b[i] = x
  <2>. HIDE DEF n
  <2>1. b \in Injection(1 .. n, W)
    BY <1>3 DEF Injection, IsInjective
  <2>2. IsFiniteSet(1 .. n) /\ Cardinality(1 .. n) = n
    BY <1>2, UpTo
  <2>3. b \in Surjection(1 .. n, W)
    BY <1>2, <2>1, <2>2, FS_Injection DEF n
  <2>. QED  BY <2>3 DEF Surjection
<1>5. b \in Seq(W) /\ Len(b) = n /\ DOMAIN b = 1 .. n
  <2>. HIDE DEF n
  <2>. QED  BY <1>2, <1>3
<1>. HIDE DEF n
<1>6. cut(b) \in 0 .. n /\ (cut(b) = n \/ (p.limit > 0 /\ cut(b) = p.limit))
  BY <1>2, <1>5, MinOfTwo
<1>. HIDE DEF cut
<1>7. /\ Len(a) = cut(b) /\ DOMAIN a = 1 .. Len(a)
      /\ \A i \in 1 .. Len(a) : a[i] = b[i] /\ i \in 1 .. n
  BY <1>1, <1>2, <1>5, <1>6
<1>8. Len(a) \in Nat
  BY <1>6, <1>7
<1>9. \A i \in DOMAIN a : a[i] \in W
  BY <1>3, <1>7
<1>10. \A i, j \in DOMAIN a : i < j => a[i] # a[j] /\ InOrder(p.sort, t, a[i], a[j])
  <2>. TAKE i, j \in DOMAIN a
  <2>. HAVE i < j
  <2>1. i \in 1 .. n /\ j \in 1 .. n /\ a[i] = b[i] /\ a[j] = b[j] /\ i # j
    BY <1>7
  <2>2. InOrder(p.sort, t, b[i], b[j])
    BY <1>1, <1>5, <2>1
  <2>. QED  BY <1>3, <2>1, <2>2
<1>11. CASE cut(b) = n
  <2>1. \A x \in W : \E i \in DOMAIN a : a[i] = x
    BY <1>4, <1>7, <1>11
  <2>. QED  BY <1>7, <1>8, <1>9, <1>10, <2>1 DEF W, Sends
<1>12. CASE p.limit > 0 /\ cut(b) = p.limit
  <2>1. ASSUME NEW x \in W, \A i \in DOMAIN a : a[i] # x
        PROVE  \A i \in DOMAIN a : InOrder(p.sort, t, a[i], x)
    <3>1. PICK j \in 1 .. n : b[j] = x
      BY <1>4
    <3>2. ~ (j <= Len(a))
      BY <1>7, <1>8, <2>1, <3>1
    <3>. TAKE i \in DOMAIN a
    <3>3. i \in 1 .. n /\ i < j /\ b[i] = a[i]
      BY <1>7, <1>8, <3>2
    <3>. QED  BY <1>1, <1>5, <3>1, <3>3
  <2>. QED  BY <1>7, <1>8, <1>9, <1>10, <1>12, <2>1 DEF W, Sends
<1>. QED  BY <1>6, <1>11, <1>12

(* The answer of a source in terms of the query.                           *)
KeepsOrder(q, t, m, i, j) ==
  IF q.sort = <<>> THEN i < j
  ELSE ~ Before(q.sort, SortRow(q, t, m, j), SortRow(q, t, m, i))

GoodAnswer(q, t, m, s, rows) ==
  /\ Len(rows) \in Nat /\ DOMAIN rows = 1 .. Len(rows)
  /\ \A i \in DOMAIN rows :
       /\ rows[i] = [source |-> s, at |-> rows[i].at, row |-> rows[i].row]
       /\ rows[i].at \in Wanted(q, t, m)
       /\ RowMeans(q, t, m, rows[i].at, rows[i].row)
  /\ \A i, j \in DOMAIN rows :
       i < j => rows[i].at # rows[j].at /\ KeepsOrder(q, t, m, rows[i].at, rows[j].at)
  /\ \/ \A x \in Wanted(q, t, m) : \E i \in DOMAIN rows : rows[i].at = x
     \/ /\ PushedLimit(q) > 0 /\ Len(rows) = PushedLimit(q)
        /\ \A x \in Wanted(q, t, m) :
             \/ \E i \in DOMAIN rows : rows[i].at = x
             \/ \A i \in DOMAIN rows : KeepsOrder(q, t, m, rows[i].at, x)

(* The plan's ORDER BY is the order the query asks for.                    *)
LEMMA OrderIsKept ==
  ASSUME NEW q \in Query(Name), NEW p, ClearPlan(q, p),
         NEW t \in Seq([Name -> Nat]), NEW i \in DOMAIN t, NEW j \in DOMAIN t
  PROVE  InOrder(p.sort, t, i, j) <=> KeepsOrder(q, t, p.mapping, i, j)
<1>1. DOMAIN p.sort = DOMAIN q.sort
  BY PlanMeans
<1>2. q.sort = <<>> <=> p.sort = <<>>
  <2>. DEFINE n == Len(q.sort)
              S == {p.sort[k] : k \in 1 .. n}
  <2>0. n \in Nat /\ DOMAIN q.sort = 1 .. n
    BY QueryParts
  <2>1. p.sort = [k \in 1 .. n |-> p.sort[k]]
    <3>1. p.sort = [k \in DOMAIN q.sort |->
                      [q.sort[k] EXCEPT !.field = ResolveFieldPath(p.mapping, q.sort[k].field)]]
      BY DEF ClearPlan, Lower
    <3>. QED  BY <2>0, <3>1
  <2>2. q.sort \in Seq(SortClause(Name))
    BY DEF Query
  <2>3. p.sort \in [1 .. n -> S]
    BY <2>1
  <2>. HIDE DEF n, S
  <2>4. p.sort \in Seq(S) /\ Len(p.sort) = n
    BY <2>0, <2>3
  <2>5. q.sort = <<>> <=> n = 0
    BY <2>2, EmptySeq DEF n
  <2>6. p.sort = <<>> <=> n = 0
    BY <2>4, EmptySeq
  <2>. QED  BY <2>5, <2>6
<1>. QED  BY <1>2, SameOrder DEF InOrder, KeepsOrder

(* The plan's filter is the filter of the query.                           *)
LEMMA FilterIsMeant ==
  ASSUME NEW q \in Query(Name), NEW p, ClearPlan(q, p), NEW t
  PROVE  FilterRows(p, t) = Wanted(q, t, p.mapping)
<1>1. p.where = {Denotes(p.mapping, f) : f \in q.where}
  BY PlanMeans
<1>. QED  BY <1>1 DEF FilterRows, Wanted, Val

(* A source that executes its plan gives a good answer.                    *)
LEMMA ExecuteAnswers ==
  ASSUME NEW q \in Query(Name), SortIsProjected(q),
         NEW s \in Source, ClearPlan(q, plans[s]),
         columns[s] \subseteq Name, ColumnsAreApart(plans[s].mapping, columns[s]),
         table[s] \in Seq([Name -> Nat]), DOMAIN result = Source, Execute(s)
  PROVE  /\ result'[s].state = "ok"
         /\ GoodAnswer(q, table[s], plans[s].mapping, s, result'[s].rows)
<1>. DEFINE p == plans[s]
            t == table[s]
            m == p.mapping
            norm(i) == NormalizeRow(m, ColumnOrder, Selected(s, p, t[i]))
            rec(a, i) == [source |-> s, at |-> a[i], row |-> norm(a[i])]
            rows == result'[s].rows
<1>1. PICK a \in Answers(s, p) :
        result' = [result EXCEPT ![s] = [state |-> "ok", rows |-> [i \in DOMAIN a |-> rec(a, i)]]]
  BY DEF Execute
<1>2. result'[s].state = "ok" /\ rows = [i \in DOMAIN a |-> rec(a, i)]
  <2>. HIDE DEF rec
  <2>. QED  BY <1>1
<1>3. p.limit = PushedLimit(q) /\ PushedLimit(q) \in Nat
  BY PlanMeans, QueryParts DEF PushedLimit
<1>4. Sends(p, t, a)
  BY <1>3, DatabaseAnswers
<1>5. FilterRows(p, t) = Wanted(q, t, m)
  BY FilterIsMeant
<1>6. \A x \in Wanted(q, t, m) : x \in DOMAIN t /\ t[x] \in [Name -> Nat]
  <2>. DEFINE F == [Name -> Nat]
  <2>. HIDE DEF F
  <2>1. t \in Seq(F)
    BY DEF F
  <2>2. \A x \in DOMAIN t : t[x] \in F
    BY <2>1
  <2>. QED  BY <2>2 DEF Wanted, F
<1>7. \A x, y \in Wanted(q, t, m) : InOrder(p.sort, t, x, y) <=> KeepsOrder(q, t, m, x, y)
  BY <1>6, OrderIsKept
<1>8. \A x \in Wanted(q, t, m) : RowMeans(q, t, m, x, norm(x))
  <2>. TAKE x \in Wanted(q, t, m)
  <2>1. PlanColumns(p) \subseteq columns[s]
    BY DEF Execute
  <2>2. t[x] \in [Name -> Nat]
    BY <1>6
  <2>. QED  BY <2>1, <2>2, RowIsMeant
<1>9. /\ DOMAIN rows = DOMAIN a
      /\ \A i \in DOMAIN a : /\ rows[i] = [source |-> s, at |-> a[i], row |-> norm(a[i])]
                             /\ rows[i].at = a[i] /\ rows[i].row = norm(a[i])
  BY <1>2
<1>10. Len(rows) = Len(a)
  <2>. HIDE DEF rec
  <2>. QED  BY <1>2, <1>4 DEF Sends
<1>. HIDE DEF rows, norm, rec
<1>11. \A i \in DOMAIN a : a[i] \in Wanted(q, t, m)
  BY <1>4, <1>5 DEF Sends
<1>12. \A i, j \in DOMAIN a : i < j => a[i] # a[j] /\ KeepsOrder(q, t, m, a[i], a[j])
  BY <1>4, <1>7, <1>11 DEF Sends
<1>13. \/ \A x \in Wanted(q, t, m) : \E i \in DOMAIN a : a[i] = x
       \/ /\ PushedLimit(q) > 0 /\ Len(a) = PushedLimit(q)
          /\ \A x \in Wanted(q, t, m) :
               \/ \E i \in DOMAIN a : a[i] = x
               \/ \A i \in DOMAIN a : KeepsOrder(q, t, m, a[i], x)
  BY <1>3, <1>4, <1>5, <1>7, <1>11 DEF Sends
<1>. HIDE DEF m, t
<1>14. GoodAnswer(q, t, m, s, rows)
  BY <1>4, <1>8, <1>9, <1>10, <1>11, <1>12, <1>13 DEF GoodAnswer, Sends
<1>. QED  BY <1>2, <1>14 DEF rows, m, t

-----------------------------------------------------------------------------
(* The merge *)

(* e lists the elements of S, each at its place.                           *)
Placed(S, R, N, e) == \A k \in 1 .. N : e[k] \in S /\ Place(S, R, e[k]) = k

(* e lists the elements of S, each once, in the order R.                   *)
Arranged(S, R, N, e) ==
  /\ Distinct(e, N)
  /\ \A k \in 1 .. N : e[k] \in S
  /\ \A x \in S : \E k \in 1 .. N : e[k] = x
  /\ \A i, j \in 1 .. N : i < j => <<e[i], e[j]>> \in R

(* Every place is taken.                                                   *)
Filled(S, R, N) == \A k \in 1 .. N : \E x \in S : Place(S, R, x) = k

(* The last part of Places, by name.                                       *)
LEMMA PlacesAreFilled ==
  ASSUME NEW S, IsFiniteSet(S), NEW R, IsOrder(S, R)
  PROVE  Filled(S, R, Cardinality(S))
  BY Places DEF Filled

(* Taking the elements by their places arranges them.                      *)
LEMMA Enumerates ==
  ASSUME NEW S, IsFiniteSet(S), NEW R, IsOrder(S, R), NEW N, N = Cardinality(S), NEW e,
         Placed(S, R, N, e)
  PROVE  Arranged(S, R, N, e)
<1>0. \A k \in 1 .. N : e[k] \in S /\ Place(S, R, e[k]) = k
  BY DEF Placed
<1>1. /\ N \in Nat
      /\ \A x \in S : Place(S, R, x) \in 1 .. N
      /\ \A x, y \in S : Place(S, R, x) = Place(S, R, y) => x = y
      /\ \A x, y \in S : <<x, y>> \in R => Place(S, R, x) <= Place(S, R, y)
  BY Places
<1>2. Distinct(e, N)
  BY <1>0 DEF Distinct
<1>3. \A x \in S : \E k \in 1 .. N : e[k] = x
  BY <1>0, <1>1
<1>4. \A i, j \in 1 .. N : i < j => <<e[i], e[j]>> \in R
  <2>. SUFFICES ASSUME NEW i \in 1 .. N, NEW j \in 1 .. N, i < j, <<e[i], e[j]>> \notin R
                PROVE  FALSE
    OBVIOUS
  <2>1. e[i] \in S /\ e[j] \in S /\ Place(S, R, e[i]) = i /\ Place(S, R, e[j]) = j
    BY <1>0
  <2>2. <<e[j], e[i]>> \in R
    BY <2>1 DEF IsOrder
  <2>. QED  BY <1>1, <2>1, <2>2
<1>. QED  BY <1>0, <1>2, <1>3, <1>4 DEF Arranged

(* The pairs of an element of S and one of what D gives for it.            *)
Pairs(S, D) == UNION {{s} \X D[s] : s \in S}
FiniteEach(S, D) == \A s \in S : IsFiniteSet(D[s])

(* Finitely many finite sets have finitely many pairs.                     *)
LEMMA FinitePairs ==
  ASSUME NEW S, IsFiniteSet(S), NEW D, FiniteEach(S, D)
  PROVE  IsFiniteSet(Pairs(S, D))
<1>. DEFINE P(s) == {s} \X D[s]
            F == {P(s) : s \in S}
            f == [s \in S |-> P(s)]
<1>1. f \in Surjection(S, F)
  <2>. HIDE DEF P
  <2>1. f \in [S -> F] /\ \A x \in F : \E s \in S : f[s] = x
    OBVIOUS
  <2>. HIDE DEF f, F
  <2>. QED  BY <2>1 DEF Surjection
<1>2. IsFiniteSet(F)
  <2>. HIDE DEF F, f
  <2>. QED  BY <1>1, FS_Surjection
<1>3. \A s \in S : IsFiniteSet(P(s))
  BY FS_Singleton, FS_Product DEF FiniteEach
<1>4. \A x \in F : IsFiniteSet(x)
  <2>. HIDE DEF P
  <2>. QED  BY <1>3
<1>5. IsFiniteSet(UNION F)
  <2>. HIDE DEF F
  <2>. QED  BY <1>2, <1>4, FS_UNION
<1>. QED  BY <1>5 DEF Pairs

(* list.sort: the element at the place k is the one that was at g[k].      *)
IsStable(sort, list, N, g) ==
  /\ StableSort(sort, list) = [k \in 1 .. N |-> list[g[k]]]
  /\ \A k \in 1 .. N : g[k] \in 1 .. N
  /\ Distinct(g, N)
  /\ \A i \in 1 .. N : \E k \in 1 .. N : g[k] = i
  /\ \A k, l \in 1 .. N : k < l =>
       /\ ~ Before(sort, list[g[l]].row, list[g[k]].row)
       /\ g[k] <= g[l] \/ Before(sort, list[g[k]].row, list[g[l]].row)

(* The order by which list.sort arranges rows: their sort fields, then     *)
(* their places in the list.                                               *)
LEMMA StableSorts ==
  ASSUME NEW sort, NEW n \in Nat, DOMAIN sort = 1 .. n,
         NEW N \in Nat, NEW list, DOMAIN list = 1 .. N,
         \A i \in 1 .. N : \A k \in 1 .. n : Get(list[i].row, sort[k].field) \in Nat
  PROVE  \E g : IsStable(sort, list, N, g)
<1>. DEFINE Spots == DOMAIN list
            B(i, j) == Before(sort, list[i].row, list[j].row)
            T == {list[i].row : i \in Spots}
            Ord == {x \in Spots \X Spots : B(x[1], x[2]) \/ (x[1] <= x[2] /\ ~ B(x[2], x[1]))}
            place(i) == Cardinality({j \in Spots : B(j, i) \/ (j <= i /\ ~ B(i, j))})
            g == [k \in Spots |-> CHOOSE i \in Spots : place(i) = k]
<1>0. StableSort(sort, list) = [k \in Spots |-> list[g[k]]]
  BY DEF StableSort
<1>1. Spots = 1 .. N /\ \A a \in T : \A k \in 1 .. n : Get(a, sort[k].field) \in Nat
  OBVIOUS
<1>2. /\ \A a, b \in T : Before(sort, a, b) => ~ Before(sort, b, a)
      /\ \A a, b, c \in T : Before(sort, a, b) /\ Before(sort, b, c) => Before(sort, a, c)
      /\ \A a, b, c \in T : Before(sort, a, c) => Before(sort, a, b) \/ Before(sort, b, c)
  <2>. HIDE DEF T
  <2>. QED  BY <1>1, BeforeOrders
<1>3. \A i \in Spots : list[i].row \in T
  OBVIOUS
<1>4. /\ \A i, j \in Spots : B(i, j) => ~ B(j, i)
      /\ \A i, j, k \in Spots : B(i, j) /\ B(j, k) => B(i, k)
      /\ \A i, j, k \in Spots : B(i, k) => B(i, j) \/ B(j, k)
  <2>. HIDE DEF T, Spots
  <2>1. \A i, j \in Spots : B(i, j) => ~ B(j, i)
    BY <1>2, <1>3
  <2>2. ASSUME NEW i \in Spots, NEW j \in Spots, NEW k \in Spots
        PROVE  /\ B(i, j) /\ B(j, k) => B(i, k)
               /\ B(i, k) => B(i, j) \/ B(j, k)
    <3>1. list[i].row \in T /\ list[j].row \in T /\ list[k].row \in T
      BY <1>3
    <3>. QED  BY <1>2, <3>1
  <2>. HIDE DEF B
  <2>. QED  BY <2>1, <2>2
<1>. HIDE DEF B, Spots, T
<1>5. \A i, j \in Spots : <<i, j>> \in Ord <=> (B(i, j) \/ (i <= j /\ ~ B(j, i)))
  OBVIOUS
<1>. HIDE DEF Ord
<1>6. IsOrder(Spots, Ord)
  <2>0. \A x \in Spots : x \in Nat
    BY <1>1
  <2>1. \A x \in Spots : <<x, x>> \in Ord
    BY <1>4, <1>5, <2>0
  <2>2. ASSUME NEW x \in Spots, NEW y \in Spots PROVE <<x, y>> \in Ord \/ <<y, x>> \in Ord
    <3>1. x <= y \/ y <= x
      BY <2>0
    <3>. QED  BY <1>5, <3>1
  <2>3. ASSUME NEW x \in Spots, NEW y \in Spots, <<x, y>> \in Ord, <<y, x>> \in Ord PROVE x = y
    <3>1. x <= y /\ y <= x
      BY <1>4, <1>5, <2>3
    <3>. QED  BY <2>0, <3>1
  <2>4. ASSUME NEW x \in Spots, NEW y \in Spots, NEW z \in Spots, <<x, y>> \in Ord, <<y, z>> \in Ord
        PROVE  <<x, z>> \in Ord
    <3>1. (B(x, y) \/ (x <= y /\ ~ B(y, x))) /\ (B(y, z) \/ (y <= z /\ ~ B(z, y)))
      BY <1>5, <2>4
    <3>2. x <= y /\ y <= z => x <= z
      BY <2>0
    <3>3. B(x, z) \/ (x <= z /\ ~ B(z, x))
      BY <1>4, <3>1, <3>2
    <3>. QED  BY <1>5, <3>3
  <2>. QED  BY <2>1, <2>2, <2>3, <2>4 DEF IsOrder
<1>7. IsFiniteSet(Spots) /\ Cardinality(Spots) = N
  BY <1>1, UpTo
<1>8. \A i \in Spots : place(i) = Place(Spots, Ord, i)
  <2>. TAKE i \in Spots
  <2>1. {j \in Spots : B(j, i) \/ (j <= i /\ ~ B(i, j))} = {j \in Spots : <<j, i>> \in Ord}
    <3>. SUFFICES ASSUME NEW j \in Spots
                  PROVE  (B(j, i) \/ (j <= i /\ ~ B(i, j))) <=> <<j, i>> \in Ord
      OBVIOUS
    <3>. QED  BY <1>5
  <2>. QED  BY <2>1 DEF Place
<1>. HIDE DEF place
<1>9. \A k \in 1 .. N : \E i \in Spots : place(i) = k
  <2>. HIDE DEF g
  <2>1. Filled(Spots, Ord, N)
    BY <1>6, <1>7, PlacesAreFilled
  <2>. QED  BY <1>8, <2>1 DEF Filled
<1>10. \A k \in 1 .. N : g[k] \in Spots /\ place(g[k]) = k
  BY <1>1, <1>9
<1>11. g \in [1 .. N -> 1 .. N]
  BY <1>1, <1>10
<1>. HIDE DEF g
<1>12. Placed(Spots, Ord, N, g)
  BY <1>8, <1>10 DEF Placed
<1>a. Arranged(Spots, Ord, N, g)
  BY <1>6, <1>7, <1>12, Enumerates
<1>13. /\ Distinct(g, N)
       /\ \A i \in Spots : \E k \in 1 .. N : g[k] = i
       /\ \A k, l \in 1 .. N : k < l => <<g[k], g[l]>> \in Ord
  BY <1>a DEF Arranged
<1>14. \A k, l \in 1 .. N : k < l => /\ ~ B(g[l], g[k])
                                     /\ g[k] <= g[l] \/ B(g[k], g[l])
  BY <1>4, <1>5, <1>10, <1>13
<1>15. StableSort(sort, list) = [k \in 1 .. N |-> list[g[k]]]
  BY <1>0, <1>1
<1>16. \A k, l \in 1 .. N : k < l =>
         /\ ~ Before(sort, list[g[l]].row, list[g[k]].row)
         /\ g[k] <= g[l] \/ Before(sort, list[g[k]].row, list[g[l]].row)
  BY <1>14 DEF B
<1>. QED  BY <1>1, <1>11, <1>13, <1>15, <1>16 DEF IsStable

-----------------------------------------------------------------------------
(* The merge *)

(* AnswerIsPage, of any query, tables, plans, sources and rows.            *)
AskedOf(q, tab, pls, inc) ==
  {x \in UNION {{s} \X DOMAIN tab[s] : s \in inc} :
     \A f \in q.where : Val(tab[x[1]], pls[x[1]].mapping, x[2], f) # None}
RowAt(q, tab, pls, x) == SortRow(q, tab[x[1]], pls[x[1]].mapping, x[2])
Prec(q, tab, pls, x, y) ==
  IF q.sort # <<>> THEN Before(q.sort, RowAt(q, tab, pls, x), RowAt(q, tab, pls, y))
  ELSE x[1] < y[1] \/ (x[1] = y[1] /\ x[2] < y[2])
PageLength(q, n) ==
  LET rest == Max({0, n - q.offset})
  IN  IF q.limit = 0 THEN rest ELSE Min({q.limit, rest})
Stands(q, tab, pls, inc, x, k) ==
  /\ x \in AskedOf(q, tab, pls, inc)
  /\ Cardinality({y \in AskedOf(q, tab, pls, inc) : Prec(q, tab, pls, y, x)}) < q.offset + k
  /\ Cardinality({y \in AskedOf(q, tab, pls, inc) : ~ Prec(q, tab, pls, x, y)}) >= q.offset + k
PageIs(q, tab, pls, inc, rows) ==
  /\ Len(rows) = PageLength(q, Cardinality(AskedOf(q, tab, pls, inc)))
  /\ \A k \in DOMAIN rows :
       /\ Stands(q, tab, pls, inc, <<rows[k].source, rows[k].at>>, k)
       /\ \A j \in DOMAIN rows : <<rows[j].source, rows[j].at>> = <<rows[k].source, rows[k].at>> => j = k
       /\ q.fields \subseteq DOMAIN rows[k].row
       /\ \A f \in DOMAIN rows[k].row :
            rows[k].row[f] = Val(tab[rows[k].source], pls[rows[k].source].mapping, rows[k].at, f)

(* PageIs is AnswerIsPage, before and after a step.                        *)
LEMMA PageMeans ==
  /\ AnswerIsPage =>
       (response.state = "ok" => PageIs(query, table, plans, response.included, response.rows))
  /\ ((response.state = "ok")' => PageIs(query', table', plans', response'.included, response'.rows))
       => AnswerIsPage'
  BY DEF AnswerIsPage, PageIs, PageLength, Stands, AskedOf, Asked, Prec, Precedes, RowAt, TrueRow,
         SortRow, TrueValue, Val

(* The tables of the sources that answered: numbers, where the query sorts *)
(* by them.                                                                *)
Sound(q, tab, pls, inc) ==
  /\ IsFiniteSet(inc) /\ inc \subseteq Nat
  /\ \A s \in inc :
       /\ Len(tab[s]) \in Nat /\ DOMAIN tab[s] = 1 .. Len(tab[s])
       /\ \A i \in DOMAIN tab[s] : \A f \in SortFields(q) : Val(tab[s], pls[s].mapping, i, f) \in Nat

PrecSet(q, tab, pls, A) == {z \in A \X A : Prec(q, tab, pls, z[1], z[2])}

(* The rows asked for are finitely many pairs of a source that answered    *)
(* and a wanted row of its table.                                          *)
LEMMA AskedIsFinite ==
  ASSUME NEW q, NEW tab, NEW pls, NEW inc, Sound(q, tab, pls, inc)
  PROVE  /\ IsFiniteSet(AskedOf(q, tab, pls, inc))
         /\ \A x \in AskedOf(q, tab, pls, inc) :
              /\ x = <<x[1], x[2]>> /\ x[1] \in inc /\ x[2] \in DOMAIN tab[x[1]]
              /\ x[1] \in Nat /\ x[2] \in Nat
         /\ \A s \in inc : \A i : <<s, i>> \in AskedOf(q, tab, pls, inc) <=>
                                    i \in Wanted(q, tab[s], pls[s].mapping)
<1>. DEFINE D == [s \in inc |-> DOMAIN tab[s]]
            All == UNION {{s} \X DOMAIN tab[s] : s \in inc}
<1>1. FiniteEach(inc, D)
  BY UpTo DEF FiniteEach, Sound
<1>2. All = Pairs(inc, D)
  BY DEF Pairs
<1>3. IsFiniteSet(All)
  <2>. HIDE DEF All, D
  <2>. QED  BY <1>1, <1>2, FinitePairs DEF Sound
<1>4. AskedOf(q, tab, pls, inc) \subseteq All
  BY DEF AskedOf
<1>5. IsFiniteSet(AskedOf(q, tab, pls, inc))
  <2>. HIDE DEF All
  <2>. QED  BY <1>3, <1>4, FS_Subset
<1>6. \A x \in All : /\ x = <<x[1], x[2]>> /\ x[1] \in inc /\ x[2] \in DOMAIN tab[x[1]]
  OBVIOUS
<1>7. \A s \in inc : \A i \in DOMAIN tab[s] : i \in Nat
  BY DEF Sound
<1>8. \A s \in inc : s \in Nat
  BY DEF Sound
<1>9. \A s \in inc : \A i : <<s, i>> \in AskedOf(q, tab, pls, inc) <=>
                                    i \in Wanted(q, tab[s], pls[s].mapping)
  <2>. TAKE s \in inc
  <2>. TAKE i
  <2>1. <<s, i>> \in All <=> i \in DOMAIN tab[s]
    OBVIOUS
  <2>2. <<s, i>> \in AskedOf(q, tab, pls, inc) <=>
          <<s, i>> \in All /\ \A f \in q.where : Val(tab[s], pls[s].mapping, i, f) # None
    <3>. HIDE DEF All
    <3>. QED  BY DEF AskedOf, All
  <2>. QED  BY <2>1, <2>2 DEF Wanted
<1>. QED
  <2>. HIDE DEF All
  <2>. QED BY <1>4, <1>5, <1>6, <1>7, <1>8, <1>9

(* The order a query asks for is a strict weak order of those rows.        *)
LEMMA PrecOrders ==
  ASSUME NEW q \in Query(Name), NEW tab, NEW pls, NEW inc, Sound(q, tab, pls, inc), NEW A,
         A = AskedOf(q, tab, pls, inc)
  PROVE  /\ \A x \in A : ~ Prec(q, tab, pls, x, x)
         /\ \A x, y, z \in A : Prec(q, tab, pls, x, z) =>
                                 Prec(q, tab, pls, x, y) \/ Prec(q, tab, pls, y, z)
<1>1. \A x \in A : /\ x[1] \in inc /\ x[2] \in DOMAIN tab[x[1]]
                   /\ x[1] \in Nat /\ x[2] \in Nat
  BY AskedIsFinite
<1>2. CASE q.sort = <<>>
  BY <1>1, <1>2 DEF Prec
<1>3. CASE q.sort # <<>>
  <2>. DEFINE T == {RowAt(q, tab, pls, x) : x \in A}
  <2>1. /\ Len(q.sort) \in Nat /\ DOMAIN q.sort = 1 .. Len(q.sort)
        /\ \A k \in DOMAIN q.sort : q.sort[k].field \in SortFields(q)
    BY QueryParts DEF SortFields
  <2>2. \A x \in A : \A f \in SortFields(q) : Get(RowAt(q, tab, pls, x), f) \in Nat
    BY <1>1 DEF RowAt, SortRow, Get, Sound
  <2>3. \A a \in T : \A k \in 1 .. Len(q.sort) : Get(a, q.sort[k].field) \in Nat
    BY <2>1, <2>2
  <2>4. \A x \in A : RowAt(q, tab, pls, x) \in T
    OBVIOUS
  <2>. HIDE DEF T
  <2>5. /\ \A a \in T : ~ Before(q.sort, a, a)
        /\ \A a, b, c \in T : Before(q.sort, a, c) => Before(q.sort, a, b) \/ Before(q.sort, b, c)
    BY <2>1, <2>3, BeforeOrders
  <2>. QED  BY <1>3, <2>4, <2>5 DEF Prec
<1>. QED  BY <1>2, <1>3

(* The list the merge starts from.                                         *)
PlaceOf(x) == <<x.source, x.at>>
IsListed(N, L, x) == \E k \in 1 .. N : PlaceOf(L[k]) = x

(* An element of the list: a row of the answer, with its fields.           *)
IsElement(q, tab, pls, inc, x) ==
  /\ x = [source |-> x.source, at |-> x.at, row |-> x.row]
  /\ x.source \in inc
  /\ x.at \in Wanted(q, tab[x.source], pls[x.source].mapping)
  /\ RowMeans(q, tab[x.source], pls[x.source].mapping, x.at, x.row)

(* A row that is not in the list: enough rows of its source are, none of   *)
(* them after it.                                                          *)
IsCut(q, tab, pls, N, L, x) ==
  /\ q.sort # <<>> /\ q.limit > 0
  /\ \E T : /\ Cardinality(T) = q.offset + q.limit
            /\ \A y \in T : IsListed(N, L, y) /\ ~ Prec(q, tab, pls, x, y)

MergeInput(q, tab, pls, inc, N, L) ==
  /\ \A k \in 1 .. N : IsElement(q, tab, pls, inc, L[k])
  /\ \A j, k \in 1 .. N : PlaceOf(L[j]) = PlaceOf(L[k]) => j = k
  /\ q.sort = <<>> => \A j, k \in 1 .. N : j < k => Prec(q, tab, pls, PlaceOf(L[j]), PlaceOf(L[k]))
  /\ \A x \in AskedOf(q, tab, pls, inc) :
       IsListed(N, L, x) \/ IsCut(q, tab, pls, N, L, x)

Projected(q, x) == [x EXCEPT !.row = Project(q, x.row)]

(* Projecting keeps an element an element at its place.                    *)
LEMMA ProjectKeeps ==
  ASSUME NEW q, SortIsProjected(q), NEW tab, NEW pls, NEW inc,
         NEW x, IsElement(q, tab, pls, inc, x)
  PROVE  /\ IsElement(q, tab, pls, inc, Projected(q, x))
         /\ PlaceOf(Projected(q, x)) = PlaceOf(x)
<1>1. /\ x = [source |-> x.source, at |-> x.at, row |-> x.row]
      /\ RowMeans(q, tab[x.source], pls[x.source].mapping, x.at, x.row)
  BY DEF IsElement
<1>2. RowMeans(q, tab[x.source], pls[x.source].mapping, x.at, Project(q, x.row))
  <2>1. CASE IsWildcard(q)
    BY <1>1, <2>1 DEF Project
  <2>2. CASE ~ IsWildcard(q)
    <3>1. Project(q, x.row) = [name \in q.fields \cap DOMAIN x.row |-> x.row[name]]
      BY <2>2 DEF Project
    <3>2. SortFields(q) \subseteq q.fields
      BY <2>2 DEF SortIsProjected
    <3>. QED  BY <1>1, <3>1, <3>2 DEF RowMeans
  <2>. QED  BY <2>1, <2>2
<1>3. Projected(q, x) = [source |-> x.source, at |-> x.at, row |-> Project(q, x.row)]
  BY <1>1 DEF Projected
<1>4. /\ Projected(q, x).source = x.source /\ Projected(q, x).at = x.at
      /\ Projected(q, x).row = Project(q, x.row)
  BY <1>3
<1>5. PlaceOf(Projected(q, x)) = PlaceOf(x)
  BY <1>4 DEF PlaceOf
<1>. QED  BY <1>2, <1>3, <1>4, <1>5 DEF IsElement

(* The sort compares the rows of elements as Prec compares their places.   *)
LEMMA ElementsCompare ==
  ASSUME NEW q \in Query(Name), NEW tab, NEW pls, NEW inc, Sound(q, tab, pls, inc),
         NEW x, IsElement(q, tab, pls, inc, x), NEW y, IsElement(q, tab, pls, inc, y)
  PROVE  /\ \A k \in DOMAIN q.sort : Get(x.row, q.sort[k].field) \in Nat
         /\ Before(q.sort, x.row, y.row) <=>
              Before(q.sort, RowAt(q, tab, pls, PlaceOf(x)), RowAt(q, tab, pls, PlaceOf(y)))
<1>1. /\ Len(q.sort) \in Nat /\ DOMAIN q.sort = 1 .. Len(q.sort)
      /\ \A k \in DOMAIN q.sort : q.sort[k].field \in SortFields(q)
  BY QueryParts DEF SortFields
<1>2. ASSUME NEW z, IsElement(q, tab, pls, inc, z), NEW f \in SortFields(q)
      PROVE  /\ Get(z.row, f) = Get(RowAt(q, tab, pls, PlaceOf(z)), f)
             /\ Get(z.row, f) \in Nat
  <2>1. z.source \in inc /\ z.at \in DOMAIN tab[z.source]
    BY <1>2 DEF IsElement, Wanted
  <2>2. Get(z.row, f) = Val(tab[z.source], pls[z.source].mapping, z.at, f)
    BY <1>2 DEF IsElement, RowMeans, Get
  <2>3. Get(RowAt(q, tab, pls, PlaceOf(z)), f) = Val(tab[z.source], pls[z.source].mapping, z.at, f)
    BY DEF RowAt, SortRow, PlaceOf, Get
  <2>. QED  BY <2>1, <2>2, <2>3 DEF Sound
<1>3. \A k \in DOMAIN q.sort :
        /\ Get(x.row, q.sort[k].field) = Get(RowAt(q, tab, pls, PlaceOf(x)), q.sort[k].field)
        /\ Get(y.row, q.sort[k].field) = Get(RowAt(q, tab, pls, PlaceOf(y)), q.sort[k].field)
        /\ Get(x.row, q.sort[k].field) \in Nat
  BY <1>1, <1>2
<1>4. \A k \in DOMAIN q.sort : \A j \in 1 .. k - 1 : j \in DOMAIN q.sort
  BY <1>1
<1>. QED  BY <1>3, <1>4 DEF Before

(* The list after the sort.                                                *)
SortedList(q, tab, pls, inc, N, L, S) ==
  /\ S = [k \in 1 .. N |-> S[k]]
  /\ \A k \in 1 .. N : IsElement(q, tab, pls, inc, S[k]) /\ IsListed(N, L, PlaceOf(S[k]))
  /\ \A j, k \in 1 .. N : PlaceOf(S[j]) = PlaceOf(S[k]) => j = k
  /\ \A k \in 1 .. N : IsListed(N, S, PlaceOf(L[k]))
  /\ \A j, k \in 1 .. N : j < k => ~ Prec(q, tab, pls, PlaceOf(S[k]), PlaceOf(S[j]))

ProjectedList(q, L) == [i \in DOMAIN L |-> [L[i] EXCEPT !.row = Project(q, L[i].row)]]

(* merge_federated_results sorts the projected rows into the order the     *)
(* query asks for, and loses none.                                         *)
LEMMA MergeSorts ==
  ASSUME NEW q \in Query(Name), SortIsProjected(q), NEW tab, NEW pls, NEW inc,
         Sound(q, tab, pls, inc), NEW N \in Nat, NEW L, DOMAIN L = 1 .. N,
         MergeInput(q, tab, pls, inc, N, L)
  PROVE  SortedList(q, tab, pls, inc, N, L, StableSort(q.sort, ProjectedList(q, L)))
<1>. DEFINE M == ProjectedList(q, L)
            S == StableSort(q.sort, M)
            B(x, y) == Before(q.sort, RowAt(q, tab, pls, x), RowAt(q, tab, pls, y))
<1>1. DOMAIN M = 1 .. N /\ \A i \in 1 .. N : M[i] = Projected(q, L[i])
  BY DEF ProjectedList, Projected
<1>. HIDE DEF M
<1>2. \A i \in 1 .. N : IsElement(q, tab, pls, inc, M[i]) /\ PlaceOf(M[i]) = PlaceOf(L[i])
  BY <1>1, ProjectKeeps DEF MergeInput
<1>3. Len(q.sort) \in Nat /\ DOMAIN q.sort = 1 .. Len(q.sort)
  BY QueryParts
<1>4. \A i \in 1 .. N : \A k \in 1 .. Len(q.sort) : Get(M[i].row, q.sort[k].field) \in Nat
  BY <1>2, <1>3, ElementsCompare
<1>5. \A i, j \in 1 .. N : Before(q.sort, M[i].row, M[j].row) <=> B(PlaceOf(L[i]), PlaceOf(L[j]))
  <2>. TAKE i, j \in 1 .. N
  <2>1. Before(q.sort, M[i].row, M[j].row) <=> B(PlaceOf(M[i]), PlaceOf(M[j]))
    BY <1>2, ElementsCompare
  <2>. QED  BY <1>2, <2>1
<1>. HIDE DEF B
<1>6. PICK g : IsStable(q.sort, M, N, g)
  BY <1>1, <1>3, <1>4, StableSorts
<1>7. S = [k \in 1 .. N |-> M[g[k]]] /\ \A k \in 1 .. N : g[k] \in 1 .. N
  BY <1>6 DEF IsStable
<1>. HIDE DEF S
<1>8. \A k \in 1 .. N : S[k] = M[g[k]] /\ PlaceOf(S[k]) = PlaceOf(L[g[k]])
  BY <1>2, <1>7
<1>9. \A k \in 1 .. N : IsElement(q, tab, pls, inc, S[k]) /\ IsListed(N, L, PlaceOf(S[k]))
  BY <1>2, <1>7, <1>8 DEF IsListed
<1>10. \A j, k \in 1 .. N : PlaceOf(S[j]) = PlaceOf(S[k]) => j = k
  <2>. SUFFICES ASSUME NEW j \in 1 .. N, NEW k \in 1 .. N, PlaceOf(S[j]) = PlaceOf(S[k])
                PROVE  j = k
    OBVIOUS
  <2>1. g[j] \in 1 .. N /\ g[k] \in 1 .. N /\ PlaceOf(L[g[j]]) = PlaceOf(L[g[k]])
    BY <1>7, <1>8
  <2>2. g[j] = g[k]
    BY <2>1 DEF MergeInput
  <2>. QED  BY <1>6, <2>2 DEF IsStable, Distinct
<1>11. \A k \in 1 .. N : IsListed(N, S, PlaceOf(L[k]))
  <2>. TAKE k \in 1 .. N
  <2>1. PICK i \in 1 .. N : g[i] = k
    BY <1>6 DEF IsStable
  <2>2. PlaceOf(S[i]) = PlaceOf(L[k])
    BY <1>8, <2>1
  <2>. QED  BY <2>2 DEF IsListed
<1>12. \A j, k \in 1 .. N : j < k => ~ Prec(q, tab, pls, PlaceOf(S[k]), PlaceOf(S[j]))
  <2>. SUFFICES ASSUME NEW j \in 1 .. N, NEW k \in 1 .. N, j < k
                PROVE  ~ Prec(q, tab, pls, PlaceOf(L[g[k]]), PlaceOf(L[g[j]]))
    BY <1>8
  <2>1. ~ B(PlaceOf(L[g[k]]), PlaceOf(L[g[j]])) /\ (g[j] <= g[k] \/ Before(q.sort, M[g[j]].row, M[g[k]].row))
    BY <1>5, <1>6, <1>7 DEF IsStable
  <2>2. CASE q.sort # <<>>
    BY <2>1, <2>2 DEF Prec, B
  <2>3. CASE q.sort = <<>>
    <3>1. ~ Before(q.sort, M[g[j]].row, M[g[k]].row)
      BY <2>3 DEF Before
    <3>2. g[j] # g[k] /\ g[j] \in 1 .. N /\ g[k] \in 1 .. N
      BY <1>6, SMTT(30) DEF IsStable, Distinct
    <3>3. g[j] < g[k]
      BY <2>1, <3>1, <3>2
    <3>4. Prec(q, tab, pls, PlaceOf(L[g[j]]), PlaceOf(L[g[k]]))
      BY <2>3, <3>2, <3>3 DEF MergeInput
    <3>5. ASSUME NEW x \in 1 .. N PROVE PlaceOf(L[x])[1] \in Nat /\ PlaceOf(L[x])[2] \in Nat
      <4>1. L[x].source \in inc /\ L[x].at \in DOMAIN tab[L[x].source]
        BY DEF MergeInput, IsElement, Wanted
      <4>2. \A s \in inc : s \in Nat /\ Len(tab[s]) \in Nat /\ DOMAIN tab[s] = 1 .. Len(tab[s])
        BY DEF Sound
      <4>3. L[x].source \in Nat /\ L[x].at \in Nat
        BY <4>1, <4>2
      <4>. QED  BY <4>3 DEF PlaceOf
    <3>. QED  BY <2>3, <3>2, <3>4, <3>5, SMTT(30) DEF Prec
  <2>. QED  BY <2>2, <2>3
<1>. QED
  <2>1. S = [k \in 1 .. N |-> S[k]]
    BY <1>7
  <2>2. SortedList(q, tab, pls, inc, N, L, S)
    BY <1>9, <1>10, <1>11, <1>12, <2>1 DEF SortedList
  <2>. QED  BY <2>2 DEF S, M

(* A difference, or 0 where it is negative.                                *)
LEMMA MaxWithZero ==
  ASSUME NEW n \in Int
  PROVE  Max({0, n}) = IF 0 <= n THEN n ELSE 0
<1>. DEFINE m == IF 0 <= n THEN n ELSE 0
<1>1. m \in {0, n} /\ \A y \in {0, n} : m >= y
  OBVIOUS
<1>2. \A x \in {0, n} : (\A y \in {0, n} : x >= y) => x = m
  OBVIOUS
<1>. HIDE DEF m
<1>3. Max({0, n}) = m
  BY <1>1, <1>2 DEF Max
<1>. QED  BY <1>3 DEF m

(* The rows of the merged list stand where they would stand among all      *)
(* rows that were asked for.                                               *)
StandInPlace(q, tab, pls, A, N, S) ==
  /\ N <= Cardinality(A)
  /\ N = Cardinality(A) \/ (q.limit > 0 /\ q.offset + q.limit <= N)
  /\ \A k \in 1 .. N : q.limit = 0 \/ k <= q.offset + q.limit =>
       /\ Cardinality({x \in A : Prec(q, tab, pls, x, PlaceOf(S[k]))}) < k
       /\ Cardinality({x \in A : ~ Prec(q, tab, pls, PlaceOf(S[k]), x)}) >= k

(* The sorted list satisfies what PageOfAll asks for.                      *)
LEMMA MergedPlaces ==
  ASSUME NEW q \in Query(Name), NEW tab, NEW pls, NEW inc, Sound(q, tab, pls, inc),
         NEW N \in Nat, NEW L, MergeInput(q, tab, pls, inc, N, L),
         NEW S, SortedList(q, tab, pls, inc, N, L, S), NEW A, A = AskedOf(q, tab, pls, inc)
  PROVE  StandInPlace(q, tab, pls, A, N, S)
<1>. DEFINE P == PrecSet(q, tab, pls, A)
            w == [k \in 1 .. N |-> PlaceOf(S[k])]
            U == {PlaceOf(S[k]) : k \in 1 .. N}
<1>0. q.limit \in Nat /\ q.offset \in Nat
  BY QueryParts
<1>1. IsFiniteSet(A)
  BY AskedIsFinite
<1>2. \A k \in 1 .. N : PlaceOf(S[k]) \in A
  <2>. TAKE k \in 1 .. N
  <2>1. S[k].source \in inc /\ S[k].at \in Wanted(q, tab[S[k].source], pls[S[k].source].mapping)
    BY DEF SortedList, IsElement
  <2>2. <<S[k].source, S[k].at>> \in A
    BY <2>1, AskedIsFinite
  <2>. QED  BY <2>2 DEF PlaceOf
<1>3. U \subseteq A
  BY <1>2
<1>4. \A x, y \in A : <<x, y>> \in P <=> Prec(q, tab, pls, x, y)
  BY DEF PrecSet
<1>. HIDE DEF P
<1>5. /\ \A x \in A : <<x, x>> \notin P
      /\ \A x, y, z \in A : <<x, z>> \in P => <<x, y>> \in P \/ <<y, z>> \in P
  <2>1. /\ \A x \in A : ~ Prec(q, tab, pls, x, x)
        /\ \A x, y, z \in A : Prec(q, tab, pls, x, z) =>
                                Prec(q, tab, pls, x, y) \/ Prec(q, tab, pls, y, z)
    BY PrecOrders
  <2>. QED  BY <1>4, <2>1
<1>6. w \in [1 .. N -> U] /\ \A x \in U : \E i \in 1 .. N : w[i] = x
  OBVIOUS
<1>7. Distinct(w, N)
  BY DEF Distinct, SortedList
<1>8. \A i, j \in 1 .. N : i < j => <<w[j], w[i]>> \notin P
  BY <1>2, <1>4 DEF SortedList
<1>9. \A x \in A \ U : /\ q.limit > 0
                       /\ \E T \in SUBSET U : /\ Cardinality(T) = q.offset + q.limit
                                              /\ \A y \in T : <<x, y>> \notin P
  <2>. SUFFICES ASSUME NEW x \in A, x \notin U
                PROVE  /\ q.limit > 0
                       /\ \E T \in SUBSET U : /\ Cardinality(T) = q.offset + q.limit
                                              /\ \A y \in T : <<x, y>> \notin P
    OBVIOUS
  <2>1. \A y : IsListed(N, L, y) => y \in U
    BY DEF IsListed, SortedList
  <2>. HIDE DEF U, w
  <2>2. IsCut(q, tab, pls, N, L, x)
    BY <2>1 DEF MergeInput
  <2>3. PICK T : /\ Cardinality(T) = q.offset + q.limit
                 /\ \A y \in T : IsListed(N, L, y) /\ ~ Prec(q, tab, pls, x, y)
    BY <2>2 DEF IsCut
  <2>4. T \in SUBSET U /\ \A y \in T : <<x, y>> \notin P
    BY <1>3, <1>4, <2>1, <2>3
  <2>. QED  BY <2>2, <2>3, <2>4 DEF IsCut
<1>10. \A k \in 1 .. N : w[k] = PlaceOf(S[k])
  OBVIOUS
<1>. HIDE DEF U, w
<1>11. ListsPage(A, P, N, w, q.offset, q.limit)
  <2>1. IsWeakOrder(A, P)
    BY <1>5 DEF IsWeakOrder
  <2>2. Lists(U, P, N, w)
    BY <1>6, <1>7, <1>8 DEF Lists
  <2>3. SentEnough(A, U, P, q.offset, q.limit)
    BY <1>9 DEF SentEnough
  <2>. QED  BY <1>0, <1>1, <1>3, <2>1, <2>2, <2>3, PageOfAll
<1>12. \A k \in 1 .. N :
         /\ {x \in A : <<x, w[k]>> \in P} = {x \in A : Prec(q, tab, pls, x, PlaceOf(S[k]))}
         /\ {x \in A : <<w[k], x>> \notin P} = {x \in A : ~ Prec(q, tab, pls, PlaceOf(S[k]), x)}
  BY <1>2, <1>4, <1>10
<1>. QED  BY <1>11, <1>12 DEF ListsPage, StandInPlace

(* The elements of s from m to n.                                          *)
AreFrom(s, m, n, T) == \A i \in m .. n : s[i] \in T
IsSlice(r, s, m, n, T) ==
  /\ r \in Seq(T)
  /\ Len(r) = IF m <= n THEN n - m + 1 ELSE 0
  /\ \A i \in 1 .. n - m + 1 : r[i] = s[m + i - 1]

(* What SubSeq returns.                                                    *)
LEMMA SliceOf ==
  ASSUME NEW T, NEW s, NEW m \in Int, NEW n \in Int, AreFrom(s, m, n, T)
  PROVE  IsSlice(SubSeq(s, m, n), s, m, n, T)
  BY SubSeqProperties DEF AreFrom, IsSlice

(* The slice of a page: what the cut leaves of a list of N elements.       *)
LEMMA Slice ==
  ASSUME NEW q \in Query(Name), NEW N \in Nat, NEW S, S = [k \in 1 .. N |-> S[k]],
         NEW n \in Nat, N <= n, N = n \/ (q.limit > 0 /\ q.offset + q.limit <= N)
  PROVE  /\ Len(Paginate(q, S)) = PageLength(q, n)
         /\ Len(Paginate(q, S)) \in Nat /\ DOMAIN Paginate(q, S) = 1 .. Len(Paginate(q, S))
         /\ \A k \in DOMAIN Paginate(q, S) :
              /\ k \in Nat /\ k >= 1 /\ q.offset + k \in 1 .. N
              /\ q.limit = 0 \/ q.offset + k <= q.offset + q.limit
              /\ Paginate(q, S)[k] = S[q.offset + k]
<1>0. q.limit \in Nat /\ q.offset \in Nat
  BY QueryParts
<1>. DEFINE hi == IF q.limit = 0 THEN N ELSE IF N <= q.offset + q.limit THEN N ELSE q.offset + q.limit
            R == Paginate(q, S)
<1>1. Len(S) = N
  OBVIOUS
<1>2. R = SubSeq(S, q.offset + 1, hi)
  <2>1. Min({N, q.offset + q.limit}) = IF N <= q.offset + q.limit THEN N ELSE q.offset + q.limit
    BY <1>0, MinOfTwo
  <2>. QED  BY <1>1, <2>1 DEF Paginate
<1>3. hi \in Nat /\ hi <= N /\ (q.limit > 0 => hi <= q.offset + q.limit)
  BY <1>0
<1>. HIDE DEF hi, R
<1>4. /\ Len(R) = IF q.offset <= hi THEN hi - q.offset ELSE 0
      /\ Len(R) \in Nat /\ DOMAIN R = 1 .. Len(R)
      /\ \A k \in 1 .. (hi - q.offset) : R[k] = S[q.offset + k]
  <2>. DEFINE T == {S[k] : k \in 1 .. N}
              lo == q.offset + 1
  <2>1. lo \in Int /\ hi \in Int /\ lo >= 1 /\ \A i \in lo .. hi : S[i] \in T
    BY <1>0, <1>3
  <2>2. \A k \in 1 .. (hi - q.offset) : k \in 1 .. hi - lo + 1 /\ lo + k - 1 = q.offset + k
    BY <1>0, <1>3
  <2>3. (lo <= hi <=> q.offset < hi) /\ hi - lo + 1 = hi - q.offset
    BY <1>0, <1>3
  <2>. HIDE DEF lo, T
  <2>4. /\ R \in Seq(T) /\ Len(R) = IF lo <= hi THEN hi - lo + 1 ELSE 0
        /\ \A i \in 1 .. hi - lo + 1 : R[i] = S[lo + i - 1]
    <3>1. R = SubSeq(S, lo, hi)
      BY <1>2 DEF lo
    <3>2. AreFrom(S, lo, hi, T)
      BY <2>1 DEF AreFrom
    <3>3. IsSlice(R, S, lo, hi, T)
      BY <2>1, <3>1, <3>2, SliceOf
    <3>. QED  BY <3>3 DEF IsSlice
  <2>5. Len(R) \in Nat /\ DOMAIN R = 1 .. Len(R)
    BY <2>4
  <2>6. Len(R) = IF q.offset <= hi THEN hi - q.offset ELSE 0
    BY <1>0, <1>3, <2>3, <2>4
  <2>. QED  BY <2>2, <2>4, <2>5, <2>6
<1>5. DOMAIN R \subseteq 1 .. (hi - q.offset)
  BY <1>0, <1>3, <1>4
<1>6. PageLength(q, n) = IF q.offset <= hi THEN hi - q.offset ELSE 0
  <2>. DEFINE rest == IF 0 <= n - q.offset THEN n - q.offset ELSE 0
  <2>1. Max({0, n - q.offset}) = rest
    <3>1. n - q.offset \in Int
      BY <1>0
    <3>. QED  BY <3>1, MaxWithZero
  <2>2. rest \in Nat
    BY <1>0
  <2>3. PageLength(q, n) = IF q.limit = 0 THEN rest ELSE Min({q.limit, rest})
    BY <2>1 DEF PageLength
  <2>4. PageLength(q, n) = IF q.limit = 0 THEN rest ELSE IF q.limit <= rest THEN q.limit ELSE rest
    <3>. HIDE DEF rest
    <3>. QED  BY <1>0, <2>2, <2>3, MinOfTwo
  <2>. QED  BY <1>0, <2>4 DEF hi
<1>7. \A k \in DOMAIN R : /\ k \in Nat /\ k >= 1 /\ q.offset + k \in 1 .. N
                          /\ q.limit = 0 \/ q.offset + k <= q.offset + q.limit
                          /\ R[k] = S[q.offset + k]
  <2>. SUFFICES ASSUME NEW k \in DOMAIN R
                PROVE  /\ k \in Nat /\ k >= 1 /\ q.offset + k \in 1 .. N
                       /\ q.limit = 0 \/ q.offset + k <= q.offset + q.limit
                       /\ R[k] = S[q.offset + k]
    OBVIOUS
  <2>1. k \in 1 .. (hi - q.offset)
    BY <1>5
  <2>2. R[k] = S[q.offset + k]
    BY <1>4, <2>1
  <2>3. k \in Nat /\ k >= 1 /\ q.offset + k <= hi
    BY <1>0, <1>3, <2>1
  <2>4. q.offset + k \in 1 .. N
    BY <1>0, <1>3, <2>3
  <2>5. q.limit = 0 \/ q.offset + k <= q.offset + q.limit
    BY <1>0, <1>3, <2>3
  <2>. QED  BY <2>2, <2>3, <2>4, <2>5
<1>. QED  BY <1>4, <1>6, <1>7 DEF R

(* The merge of a list as above is the page.                               *)
LEMMA MergeIsPage ==
  ASSUME NEW q \in Query(Name), SortIsProjected(q), NEW tab, NEW pls, NEW inc,
         Sound(q, tab, pls, inc), NEW N \in Nat, NEW L, DOMAIN L = 1 .. N,
         MergeInput(q, tab, pls, inc, N, L)
  PROVE  PageIs(q, tab, pls, inc, MergeRows(q, L))
<1>. DEFINE S == StableSort(q.sort, ProjectedList(q, L))
            A == AskedOf(q, tab, pls, inc)
            R == Paginate(q, S)
<1>0. q.limit \in Nat /\ q.offset \in Nat
  BY QueryParts
<1>1. MergeRows(q, L) = R
  BY DEF MergeRows, ProjectedList
<1>2. SortedList(q, tab, pls, inc, N, L, S)
  BY MergeSorts
<1>. HIDE DEF S
<1>3. /\ N <= Cardinality(A)
      /\ N = Cardinality(A) \/ (q.limit > 0 /\ q.offset + q.limit <= N)
      /\ \A k \in 1 .. N : q.limit = 0 \/ k <= q.offset + q.limit =>
              /\ Cardinality({x \in A : Prec(q, tab, pls, x, PlaceOf(S[k]))}) < k
              /\ Cardinality({x \in A : ~ Prec(q, tab, pls, PlaceOf(S[k]), x)}) >= k
  <2>1. A = AskedOf(q, tab, pls, inc)
    OBVIOUS
  <2>. HIDE DEF A
  <2>2. StandInPlace(q, tab, pls, A, N, S)
    BY <1>2, <2>1, MergedPlaces
  <2>. QED  BY <2>2 DEF StandInPlace
<1>4. Cardinality(A) \in Nat
  BY AskedIsFinite, FS_CardinalityType
<1>5. S = [k \in 1 .. N |-> S[k]]
  BY <1>2 DEF SortedList
<1>6. /\ Len(R) = PageLength(q, Cardinality(A))
      /\ \A k \in DOMAIN R : /\ k \in Nat /\ k >= 1 /\ q.offset + k \in 1 .. N
                             /\ q.limit = 0 \/ q.offset + k <= q.offset + q.limit
                             /\ R[k] = S[q.offset + k]
  <2>. HIDE DEF A
  <2>. QED  BY <1>3, <1>4, <1>5, Slice, SMTT(30)
<1>. HIDE DEF R
<1>7. ASSUME NEW k \in DOMAIN R
      PROVE  /\ Stands(q, tab, pls, inc, <<R[k].source, R[k].at>>, k)
             /\ \A j \in DOMAIN R : <<R[j].source, R[j].at>> = <<R[k].source, R[k].at>> => j = k
             /\ q.fields \subseteq DOMAIN R[k].row
             /\ \A f \in DOMAIN R[k].row :
                  R[k].row[f] = Val(tab[R[k].source], pls[R[k].source].mapping, R[k].at, f)
  <2>1. /\ q.offset + k \in 1 .. N /\ R[k] = S[q.offset + k]
        /\ q.limit = 0 \/ q.offset + k <= q.offset + q.limit
    BY <1>6
  <2>2. IsElement(q, tab, pls, inc, R[k])
    BY <1>2, <2>1 DEF SortedList
  <2>3. <<R[k].source, R[k].at>> \in A
    BY <2>2, AskedIsFinite DEF IsElement
  <2>4. Stands(q, tab, pls, inc, <<R[k].source, R[k].at>>, k)
    BY <1>3, <2>1, <2>3 DEF Stands, PlaceOf
  <2>5. ASSUME NEW j \in DOMAIN R, <<R[j].source, R[j].at>> = <<R[k].source, R[k].at>>
        PROVE  j = k
    <3>1. q.offset + j \in 1 .. N /\ R[j] = S[q.offset + j] /\ j \in Nat /\ k \in Nat
      BY <1>6
    <3>2. PlaceOf(S[q.offset + j]) = PlaceOf(S[q.offset + k])
      BY <2>1, <2>5, <3>1 DEF PlaceOf
    <3>3. q.offset + j = q.offset + k
      BY <1>2, <2>1, <3>1, <3>2 DEF SortedList
    <3>. QED  BY <1>0, <3>1, <3>3
  <2>6. RowMeans(q, tab[R[k].source], pls[R[k].source].mapping, R[k].at, R[k].row)
    BY <2>2 DEF IsElement
  <2>. QED  BY <2>4, <2>5, <2>6 DEF RowMeans
<1>8. PageIs(q, tab, pls, inc, R)
  BY <1>6, <1>7 DEF PageIs
<1>. QED  BY <1>1, <1>8

(* The results the merge waits for.                                        *)
AnswersAreGood ==
  \A s \in Planned :
    /\ s \in Succeeded => GoodAnswer(query, table[s], plans[s].mapping, s, result[s].rows)
    /\ s \notin Succeeded => result[s].rows = <<>>

SentOrder == {z \in Sent \X Sent : NotAfter(z[1], z[2])}

(* What a source answered is a list of rows, or none.                      *)
AnswersAreLists ==
  \A s \in Planned : Len(result[s].rows) \in Nat /\ DOMAIN result[s].rows = 1 .. Len(result[s].rows)

LEMMA GoodAnswersAreLists ==
  ASSUME AnswersAreGood
  PROVE  AnswersAreLists
<1>. SUFFICES ASSUME NEW s \in Planned
              PROVE  /\ Len(result[s].rows) \in Nat
                     /\ DOMAIN result[s].rows = 1 .. Len(result[s].rows)
  BY DEF AnswersAreLists
<1>1. CASE s \in Succeeded
  BY <1>1 DEF AnswersAreGood, GoodAnswer
<1>2. CASE s \notin Succeeded
  <2>1. result[s].rows = <<>>
    BY <1>2 DEF AnswersAreGood
  <2>. QED  BY <2>1
<1>. QED  BY <1>1, <1>2

(* The rows that were sent are finitely many.                              *)
LEMMA SentPairs ==
  ASSUME Planned \subseteq Source, AnswersAreLists
  PROVE  /\ IsFiniteSet(Sent)
         /\ \A x \in Sent : /\ x = <<x[1], x[2]>> /\ x[1] \in Planned /\ x[2] \in DOMAIN result[x[1]].rows
                            /\ x[1] \in Nat /\ x[2] \in Nat
<1>. DEFINE D == [s \in Planned |-> DOMAIN result[s].rows]
<1>1. Source \subseteq Nat /\ IsFiniteSet(Planned)
  BY FederatedAssumption, FS_Subset DEF FederatedAssumption
<1>2. ASSUME NEW s \in Planned
      PROVE  IsFiniteSet(DOMAIN result[s].rows) /\ DOMAIN result[s].rows \subseteq Nat
  <2>1. Len(result[s].rows) \in Nat /\ DOMAIN result[s].rows = 1 .. Len(result[s].rows)
    BY DEF AnswersAreLists
  <2>. QED  BY <2>1, UpTo
<1>3. FiniteEach(Planned, D)
  BY <1>2 DEF FiniteEach
<1>4. Sent = Pairs(Planned, D)
  BY DEF Sent, Pairs
<1>5. IsFiniteSet(Sent)
  <2>. HIDE DEF D
  <2>. QED  BY <1>1, <1>3, <1>4, FinitePairs
<1>6. \A x \in Sent : x = <<x[1], x[2]>> /\ x[1] \in Planned /\ x[2] \in DOMAIN result[x[1]].rows
  BY DEF Sent
<1>. QED  BY <1>1, <1>2, <1>5, <1>6

(* A source that did not answer sent none.                                 *)
LEMMA SentRows ==
  ASSUME Planned \subseteq Source, AnswersAreGood
  PROVE  /\ IsFiniteSet(Sent)
         /\ \A x \in Sent : /\ x = <<x[1], x[2]>> /\ x[1] \in Succeeded /\ x[2] \in DOMAIN result[x[1]].rows
                            /\ x[1] \in Nat /\ x[2] \in Nat
         /\ \A s \in Succeeded : \A i \in DOMAIN result[s].rows : <<s, i>> \in Sent
<1>1. AnswersAreLists
  BY GoodAnswersAreLists
<1>2. \A s \in Planned : s \notin Succeeded => DOMAIN result[s].rows = {}
  BY DEF AnswersAreGood
<1>3. \A s \in Succeeded : \A i \in DOMAIN result[s].rows : <<s, i>> \in Sent
  BY DEF Sent, Succeeded
<1>4. /\ IsFiniteSet(Sent)
      /\ \A x \in Sent : /\ x = <<x[1], x[2]>> /\ x[1] \in Planned /\ x[2] \in DOMAIN result[x[1]].rows
                         /\ x[1] \in Nat /\ x[2] \in Nat
  BY <1>1, SentPairs
<1>. QED  BY <1>2, <1>3, <1>4

(* Source by source, then row by row, is a total order of them.            *)
LEMMA SentIsOrdered ==
  ASSUME Planned \subseteq Source, AnswersAreLists
  PROVE  IsOrder(Sent, SentOrder)
<1>1. \A x \in Sent : x = <<x[1], x[2]>> /\ x[1] \in Nat /\ x[2] \in Nat
  BY SentPairs
<1>2. \A x, y \in Sent : <<x, y>> \in SentOrder <=> NotAfter(x, y)
  BY DEF SentOrder
<1>3. \A x \in Sent : <<x, x>> \in SentOrder
  BY <1>1, <1>2 DEF NotAfter
<1>4. ASSUME NEW x \in Sent, NEW y \in Sent
      PROVE  <<x, y>> \in SentOrder \/ <<y, x>> \in SentOrder
  <2>1. NotAfter(x, y) \/ NotAfter(y, x)
    BY <1>1 DEF NotAfter
  <2>. QED  BY <1>2, <2>1
<1>5. ASSUME NEW x \in Sent, NEW y \in Sent, <<x, y>> \in SentOrder, <<y, x>> \in SentOrder
      PROVE  x = y
  <2>1. x[1] = y[1] /\ x[2] = y[2]
    BY <1>1, <1>2, <1>5 DEF NotAfter
  <2>. QED  BY <1>1, <2>1
<1>6. ASSUME NEW x \in Sent, NEW y \in Sent, NEW z \in Sent,
             <<x, y>> \in SentOrder, <<y, z>> \in SentOrder
      PROVE  <<x, z>> \in SentOrder
  <2>1. NotAfter(x, z)
    BY <1>1, <1>2, <1>6 DEF NotAfter
  <2>. QED  BY <1>2, <2>1
<1>. QED  BY <1>3, <1>4, <1>5, <1>6 DEF IsOrder

(* The list is that of the rows that were sent, source by source.          *)
LEMMA AllRowsListed ==
  ASSUME Planned \subseteq Source, AnswersAreLists
  PROVE  \E e : /\ Arranged(Sent, SentOrder, Cardinality(Sent), e)
                /\ AllRows = [k \in 1 .. Cardinality(Sent) |-> result[e[k][1]].rows[e[k][2]]]
<1>. DEFINE N == Cardinality(Sent)
            place(x) == Cardinality({y \in Sent : NotAfter(y, x)})
            e == [k \in 1 .. N |-> CHOOSE x \in Sent : place(x) = k]
<1>1. IsFiniteSet(Sent) /\ IsOrder(Sent, SentOrder)
  BY SentPairs, SentIsOrdered
<1>2. AllRows = [k \in 1 .. N |-> result[e[k][1]].rows[e[k][2]]]
  BY DEF AllRows
<1>3. \A x \in Sent : place(x) = Place(Sent, SentOrder, x)
  <2>. TAKE x \in Sent
  <2>1. {y \in Sent : NotAfter(y, x)} = {y \in Sent : <<y, x>> \in SentOrder}
    BY DEF SentOrder
  <2>. QED  BY <2>1 DEF Place
<1>4. Filled(Sent, SentOrder, N)
  BY <1>1, PlacesAreFilled
<1>. HIDE DEF N, place
<1>5. \A k \in 1 .. N : \E x \in Sent : place(x) = k
  BY <1>3, <1>4 DEF Filled
<1>6. \A k \in 1 .. N : e[k] \in Sent /\ place(e[k]) = k
  BY <1>5
<1>. HIDE DEF e
<1>7. Placed(Sent, SentOrder, N, e)
  BY <1>3, <1>6 DEF Placed
<1>8. Arranged(Sent, SentOrder, N, e)
  BY <1>1, <1>7, Enumerates DEF N
<1>. QED  BY <1>2, <1>8 DEF N

(* What the merge starts from is what the sources were asked for, up to    *)
(* what a source cut off.                                                  *)
LEMMA MergeGetsInput ==
  ASSUME query \in Query(Name), Planned \subseteq Source, AnswersAreGood,
         Sound(query, table, plans, Succeeded)
  PROVE  \E N \in Nat : /\ DOMAIN AllRows = 1 .. N
                        /\ MergeInput(query, table, plans, Succeeded, N, AllRows)
<1>. DEFINE N == Cardinality(Sent)
            L == AllRows
            rows(s) == result[s].rows
<1>1. PICK e : /\ Arranged(Sent, SentOrder, N, e)
               /\ L = [k \in 1 .. N |-> rows(e[k][1])[e[k][2]]]
  BY GoodAnswersAreLists, AllRowsListed
<1>2. N \in Nat
  BY SentRows, FS_CardinalityType
<1>. HIDE DEF N, L
<1>3. DOMAIN L = 1 .. N /\ \A k \in 1 .. N : L[k] = rows(e[k][1])[e[k][2]]
  BY <1>1
<1>4. \A x \in Sent : /\ x = <<x[1], x[2]>> /\ x[1] \in Succeeded /\ x[2] \in DOMAIN rows(x[1])
                      /\ x[1] \in Nat /\ x[2] \in Nat
  BY SentRows
<1>5. \A k \in 1 .. N : e[k] \in Sent
  BY <1>1 DEF Arranged
<1>6. \A s \in Succeeded : GoodAnswer(query, table[s], plans[s].mapping, s, rows(s))
  BY DEF AnswersAreGood, Succeeded
<1>. HIDE DEF rows
<1>7. \A s \in Succeeded : \A i \in DOMAIN rows(s) :
        /\ rows(s)[i] = [source |-> s, at |-> rows(s)[i].at, row |-> rows(s)[i].row]
        /\ rows(s)[i].at \in Wanted(query, table[s], plans[s].mapping)
        /\ RowMeans(query, table[s], plans[s].mapping, rows(s)[i].at, rows(s)[i].row)
  BY <1>6 DEF GoodAnswer
<1>8. \A s \in Succeeded : \A i \in DOMAIN rows(s) : rows(s)[i].source = s
  BY <1>7
<1>9. \A s \in Succeeded : \A i \in DOMAIN rows(s) :
        /\ IsElement(query, table, plans, Succeeded, rows(s)[i])
        /\ PlaceOf(rows(s)[i]) = <<s, rows(s)[i].at>>
  BY <1>7, <1>8 DEF IsElement, PlaceOf
<1>10. ASSUME NEW k \in 1 .. N
       PROVE  /\ e[k][1] \in Succeeded /\ e[k][2] \in DOMAIN rows(e[k][1])
              /\ IsElement(query, table, plans, Succeeded, L[k])
              /\ PlaceOf(L[k]) = <<e[k][1], rows(e[k][1])[e[k][2]].at>>
  BY <1>3, <1>4, <1>5, <1>9
<1>11. \A s \in Succeeded : \A i, j \in DOMAIN rows(s) :
         /\ i \in Nat /\ j \in Nat
         /\ i < j => /\ rows(s)[i].at # rows(s)[j].at
                     /\ KeepsOrder(query, table[s], plans[s].mapping, rows(s)[i].at, rows(s)[j].at)
  BY <1>6 DEF GoodAnswer
<1>12. ASSUME NEW j \in 1 .. N, NEW k \in 1 .. N, PlaceOf(L[j]) = PlaceOf(L[k])
       PROVE  j = k
  <2>1. e[j][1] = e[k][1] /\ rows(e[j][1])[e[j][2]].at = rows(e[j][1])[e[k][2]].at
    BY <1>10, <1>12
  <2>2. e[j][2] \in Nat /\ e[k][2] \in Nat /\ e[j][2] = e[k][2]
    BY <1>4, <1>5, <1>10, <1>11, <2>1
  <2>3. e[j] = e[k]
    BY <1>4, <1>5, <2>1, <2>2
  <2>. QED  BY <1>1, <2>3 DEF Arranged, Distinct
<1>13. ASSUME query.sort = <<>>, NEW j \in 1 .. N, NEW k \in 1 .. N, j < k
       PROVE  Prec(query, table, plans, PlaceOf(L[j]), PlaceOf(L[k]))
  <2>1. <<e[j], e[k]>> \in SentOrder
    BY <1>1, <1>13 DEF Arranged
  <2>2. NotAfter(e[j], e[k])
    BY <2>1 DEF SentOrder
  <2>3. e[j] # e[k]
    BY <1>1, <1>13 DEF Arranged, Distinct
  <2>4. CASE e[j][1] < e[k][1]
    BY <1>10, <1>13, <2>4 DEF Prec
  <2>5. CASE e[j][1] = e[k][1] /\ e[j][2] <= e[k][2]
    <3>1. e[j][2] < e[k][2]
      BY <1>4, <1>5, <2>3, <2>5
    <3>2. rows(e[j][1])[e[j][2]].at < rows(e[j][1])[e[k][2]].at
      BY <1>10, <1>11, <1>13, <2>5, <3>1 DEF KeepsOrder
    <3>. QED  BY <1>10, <1>13, <2>5, <3>2 DEF Prec
  <2>. QED  BY <2>2, <2>4, <2>5 DEF NotAfter
<1>14. \A s \in Succeeded : \A i \in DOMAIN rows(s) : IsListed(N, L, <<s, rows(s)[i].at>>)
  <2>. TAKE s \in Succeeded
  <2>. TAKE i \in DOMAIN rows(s)
  <2>1. <<s, i>> \in Sent
    BY SentRows DEF rows
  <2>2. PICK k \in 1 .. N : e[k] = <<s, i>>
    BY <1>1, <2>1 DEF Arranged
  <2>3. PlaceOf(L[k]) = <<s, rows(s)[i].at>>
    BY <1>10, <2>2
  <2>. QED  BY <2>3 DEF IsListed
<1>15. ASSUME NEW x \in AskedOf(query, table, plans, Succeeded), ~ IsListed(N, L, x)
       PROVE  IsCut(query, table, plans, N, L, x)
  <2>. DEFINE s == x[1]
              n == Len(rows(s))
              T == {<<s, rows(s)[i].at>> : i \in 1 .. n}
  <2>1. x = <<s, x[2]>> /\ s \in Succeeded /\ x[2] \in Wanted(query, table[s], plans[s].mapping)
    BY AskedIsFinite
  <2>. HIDE DEF s
  <2>2. ~ \E i \in DOMAIN rows(s) : rows(s)[i].at = x[2]
    BY <1>14, <1>15, <2>1
  <2>3. /\ n \in Nat /\ DOMAIN rows(s) = 1 .. n
        /\ PushedLimit(query) > 0 /\ n = PushedLimit(query)
        /\ \A i \in DOMAIN rows(s) : KeepsOrder(query, table[s], plans[s].mapping, rows(s)[i].at, x[2])
    BY <1>6, <2>1, <2>2 DEF GoodAnswer
  <2>4. query.sort # <<>> /\ query.limit > 0 /\ n = query.offset + query.limit
    BY <2>3 DEF PushedLimit
  <2>. HIDE DEF n
  <2>5. Cardinality(T) = n
    <3>. DEFINE w == [i \in 1 .. n |-> <<s, rows(s)[i].at>>]
    <3>1. \A i, j \in 1 .. n : rows(s)[i].at = rows(s)[j].at => i = j
      <4>. SUFFICES ASSUME NEW i \in 1 .. n, NEW j \in 1 .. n, rows(s)[i].at = rows(s)[j].at
                    PROVE  i = j
        OBVIOUS
      <4>1. ~ (i < j) /\ ~ (j < i)
        BY <1>11, <2>1, <2>3
      <4>. QED  BY <4>1
    <3>2. Distinct(w, n)
      BY <3>1 DEF Distinct
    <3>3. T = Entries(w, n)
      BY DEF Entries
    <3>4. n \in 0 .. n
      BY <2>3
    <3>. HIDE DEF T, w
    <3>. QED  BY <2>3, <3>2, <3>3, <3>4, FirstEntries
  <2>6. \A y \in T : IsListed(N, L, y) /\ ~ Prec(query, table, plans, x, y)
    <3>. SUFFICES ASSUME NEW i \in 1 .. n
                  PROVE  /\ IsListed(N, L, <<s, rows(s)[i].at>>)
                         /\ ~ Prec(query, table, plans, x, <<s, rows(s)[i].at>>)
      OBVIOUS
    <3>1. ~ Before(query.sort, SortRow(query, table[s], plans[s].mapping, x[2]),
                               SortRow(query, table[s], plans[s].mapping, rows(s)[i].at))
      BY <2>3, <2>4 DEF KeepsOrder
    <3>2. x[1] = s
      BY DEF s
    <3>. QED  BY <1>14, <2>1, <2>3, <2>4, <3>1, <3>2 DEF Prec, RowAt
  <2>. HIDE DEF T
  <2>. QED  BY <2>4, <2>5, <2>6 DEF IsCut
<1>16. MergeInput(query, table, plans, Succeeded, N, L)
  BY <1>10, <1>12, <1>13, <1>15 DEF MergeInput
<1>. QED  BY <1>2, <1>3, <1>16 DEF L

(* gather has all results: the merge answers with the page.                *)
LEMMA MergedPage ==
  ASSUME query \in Query(Name), SortIsProjected(query), Planned \subseteq Source, AnswersAreGood,
         Sound(query, table, plans, Succeeded)
  PROVE  PageIs(query, table, plans, Succeeded, MergeRows(query, AllRows))
<1>1. PICK N \in Nat : /\ DOMAIN AllRows = 1 .. N
                       /\ MergeInput(query, table, plans, Succeeded, N, AllRows)
  BY MergeGetsInput
<1>. QED  BY <1>1, MergeIsPage

-----------------------------------------------------------------------------
(* The ephemeral mapping of path B *)

(* There are finitely many names: ColumnOrder has them all.                *)
LEMMA NameIsFinite == IsFiniteSet(Name)
<1>. DEFINE I == 1 .. Len(ColumnOrder)
<1>1. Len(ColumnOrder) \in Nat /\ DOMAIN ColumnOrder = I /\ ColumnOrder \in [I -> Name]
      /\ \A c \in Name : \E i \in I : ColumnOrder[i] = c
  BY FederatedAssumption DEF Range
<1>2. ColumnOrder \in Surjection(I, Name)
  BY <1>1 DEF Surjection
<1>. QED  BY <1>1, <1>2, UpTo, FS_Surjection

(* SetToSeq lists the elements of a finite set, each once.                 *)
LEMMA SetIsListed ==
  ASSUME NEW S, IsFiniteSet(S)
  PROVE  /\ Cardinality(S) \in Nat /\ SetToSeq(S) \in [1 .. Cardinality(S) -> S]
         /\ Distinct(SetToSeq(S), Cardinality(S))
         /\ \A x \in S : \E i \in 1 .. Cardinality(S) : SetToSeq(S)[i] = x
<1>. DEFINE n == Cardinality(S)
            I == 1 .. n
            f == SetToSeq(S)
<1>1. n \in Nat /\ ExistsBijection(I, S)
  BY FS_CardinalityType
<1>. HIDE DEF I
<1>2. \E g \in [I -> S] : IsInjective(g)
  <2>1. PICK g : g \in Bijection(I, S)
    BY <1>1 DEF ExistsBijection
  <2>. QED  BY <2>1 DEF Bijection, Injection
<1>3. f \in [I -> S] /\ IsInjective(f)
  BY <1>2 DEF SetToSeq, I
<1>. HIDE DEF f
<1>4. f \in Injection(I, S)
  BY <1>3 DEF Injection
<1>5. f \in Surjection(I, S)
  <2>1. Cardinality(I) = Cardinality(S)
    BY <1>1, UpTo DEF I
  <2>. HIDE DEF n
  <2>. QED  BY <1>4, <2>1, FS_Injection
<1>6. \A x \in S : \E i \in I : f[i] = x
  BY <1>5 DEF Surjection
<1>7. Distinct(f, n)
  BY <1>3 DEF IsInjective, Distinct, I
<1>. QED  BY <1>1, <1>3, <1>6, <1>7 DEF f, I

(* A mapping that renames nothing.                                         *)
RenamesNothing(m) == \A i \in DOMAIN m : m[i].logical = m[i].physical

(* The ephemeral mapping has the canonical fields, each under its own      *)
(* name.                                                                   *)
LEMMA EphemeralIsApart ==
  ASSUME query \in Query(Name)
  PROVE  /\ EphemeralMapping \in Mappings
         /\ NamesAreApart(EphemeralMapping)
         /\ RenamesNothing(EphemeralMapping)
         /\ LogicalNames(EphemeralMapping) = CanonicalFields
<1>. DEFINE C == CanonicalFields
            n == Cardinality(C)
            F == SetToSeq(C)
            m == EphemeralMapping
<1>1. C \subseteq Name
  BY QueryParts DEF CanonicalFields
<1>2. IsFiniteSet(C)
  BY <1>1, NameIsFinite, FS_Subset
<1>. HIDE DEF C
<1>3. /\ n \in Nat /\ F \in [1 .. n -> C] /\ Distinct(F, n)
      /\ \A x \in C : \E i \in 1 .. n : F[i] = x
  BY <1>2, SetIsListed
<1>4. m = [i \in DOMAIN F |-> [logical |-> F[i], physical |-> F[i]]]
  BY DEF EphemeralMapping, C
<1>. HIDE DEF F, m, n
<1>5. /\ m = [i \in 1 .. n |-> [logical |-> F[i], physical |-> F[i]]]
      /\ DOMAIN m = 1 .. n
      /\ \A i \in 1 .. n : /\ m[i] = [logical |-> F[i], physical |-> F[i]]
                           /\ m[i].logical = F[i] /\ m[i].physical = F[i] /\ F[i] \in C
  BY <1>3, <1>4
<1>6. m \in Mappings
  <2>. DEFINE M == FieldMapping(Name)
  <2>1. \A i \in 1 .. n : m[i] \in M
    BY <1>1, <1>5 DEF FieldMapping
  <2>. HIDE DEF M
  <2>2. m \in [1 .. n -> M]
    BY <1>5, <2>1
  <2>3. m \in Seq(M)
    BY <1>3, <2>2
  <2>. QED  BY <2>3 DEF Mappings, M
<1>7. NamesAreApart(m) /\ RenamesNothing(m)
  BY <1>3, <1>5 DEF NamesAreApart, RenamesNothing, Distinct
<1>8. LogicalNames(m) = C
  BY <1>3, <1>5 DEF LogicalNames
<1>. QED  BY <1>6, <1>7, <1>8 DEF m, C

(* Under such a mapping every name resolves to itself.                     *)
LEMMA RenamesNone ==
  ASSUME NEW m \in Mappings, NamesAreApart(m), RenamesNothing(m)
  PROVE  /\ PhysicalNames(m) = LogicalNames(m)
         /\ \A f : ResolveFieldPath(m, f) = f
<1>1. PhysicalNames(m) = LogicalNames(m)
  BY DEF PhysicalNames, LogicalNames, RenamesNothing
<1>2. ASSUME NEW f PROVE ResolveFieldPath(m, f) = f
  <2>1. CASE f \in LogicalNames(m)
    <3>1. PICK i \in DOMAIN m : m[i].logical = f
      BY <2>1 DEF LogicalNames
    <3>2. ResolveFieldPath(m, m[i].logical) = m[i].physical
      BY EntryIsUnique
    <3>. QED  BY <3>1, <3>2 DEF RenamesNothing
  <2>2. CASE f \notin LogicalNames(m)
    <3>1. {i \in DOMAIN m : f \in {m[i].logical, m[i].physical}} = {}
      BY <1>1, <2>2 DEF LogicalNames, PhysicalNames
    <3>. QED  BY <3>1 DEF ResolveFieldPath
  <2>. QED  BY <2>1, <2>2
<1>. QED  BY <1>1, <1>2

(* The plan of path B means what the query means.                          *)
LEMMA EphemeralClear ==
  ASSUME query \in Query(Name), SortIsProjected(query),
         NEW p, p = Lower(EphemeralMapping, query),
         \A s \in Participating : PlanColumns(p) \subseteq snapshot[s]
  PROVE  /\ ClearPlan(query, p)
         /\ LogicalNames(p.mapping) \subseteq PhysicalNames(p.mapping)
<1>. DEFINE m == EphemeralMapping
<1>1. /\ m \in Mappings /\ NamesAreApart(m) /\ LogicalNames(m) = CanonicalFields
      /\ PhysicalNames(m) = LogicalNames(m) /\ \A f : ResolveFieldPath(m, f) = f
  BY EphemeralIsApart, RenamesNone
<1>. HIDE DEF m
<1>2. p = Lower(m, query) /\ p.mapping = m
  BY DEF Lower, m
<1>3. NamesFields(query, m)
  BY <1>1 DEF NamesFields
<1>4. CASE ~ IsWildcard(query)
  <2>1. CanonicalFields = query.fields /\ SortFields(query) \subseteq query.fields
    BY <1>4 DEF CanonicalFields, SortIsProjected
  <2>. QED  BY <1>1, <1>2, <1>3, <2>1 DEF ClearPlan
<1>5. CASE IsWildcard(query)
  <2>1. query.fields = {} /\ CanonicalFields = {n \in Name : \A s \in Matching : n \in snapshot[s]}
    BY <1>5 DEF IsWildcard, CanonicalFields
  <2>2. \A s \in Matching : PlanColumns(p) \subseteq snapshot[s]
    BY <2>1 DEF Participating
  <2>3. ASSUME NEW f \in SortFields(query) PROVE f \in CanonicalFields
    <3>1. f \in Name
      BY QueryParts
    <3>2. PICK k \in DOMAIN query.sort : query.sort[k].field = f
      BY DEF SortFields
    <3>3. p.sort = [i \in DOMAIN query.sort |->
                      [query.sort[i] EXCEPT !.field = ResolveFieldPath(m, query.sort[i].field)]]
      BY <1>2 DEF Lower
    <3>4. query.sort[k] = [field |-> f, desc |-> query.sort[k].desc]
      BY <3>2, QueryParts
    <3>5. k \in DOMAIN p.sort /\ p.sort[k].field = f
      BY <1>1, <3>2, <3>3, <3>4
    <3>6. f \in PlanColumns(p)
      BY <3>5 DEF PlanColumns, SortFields
    <3>. QED  BY <2>1, <2>2, <3>1, <3>6
  <2>. QED  BY <1>1, <1>2, <1>3, <2>1, <2>3 DEF ClearPlan
<1>. QED  BY <1>4, <1>5, <1>1, <1>2

-----------------------------------------------------------------------------
(* The invariant *)

(* What the registry and the databases hold, whatever others change.       *)
IsClear(m, c, t) ==
  /\ m \in Mappings /\ NamesAreApart(m)
  /\ c \subseteq Name
  /\ \A d \in Altered \cup {c} : ColumnsAreApart(m, d)
  /\ \A q \in Queries : NamesFields(q, m)
  /\ t \in Seq([Name -> Nat])
RegistryIsClear ==
  /\ DOMAIN columns = Source
  /\ \A s \in Source : IsClear(mapping[s], columns[s], table[s])

(* How far the planner is: a query from the first step on, candidates that *)
(* know its names, and nothing planned before there are candidates.        *)
PlanningGoesOn ==
  /\ pc # "idle" => query \in Queries
  /\ pc \in {"idle", "resolve", "discover"} => todo = {} /\ Planned = {}
  /\ \A s \in todo : Eligible(s)

(* A plan means what the query means, and was made with the mapping of its *)
(* source or with one that renames nothing.                                *)
PlansAreClear ==
  \A s \in Planned :
    /\ ClearPlan(query, plans[s])
    /\ \/ plans[s].mapping = mapping[s]
       \/ LogicalNames(plans[s].mapping) \subseteq PhysicalNames(plans[s].mapping)

AnsweredLast == response.state = "ok" => pc = "done"

PageInv ==
  /\ IsolationInv /\ RegistryIsClear /\ PlanningGoesOn /\ PlansAreClear
  /\ AnswersAreGood /\ AnsweredLast /\ AnswerIsPage

(* The states a request starts in.                                         *)
LEMMA InitPage == NamesAreClear /\ Init => PageInv
<1>. SUFFICES ASSUME NamesAreClear, Init PROVE PageInv
  OBVIOUS
<1>1. IsolationInv
  BY InitIsolation
<1>2. RegistryIsClear
  <2>. SUFFICES ASSUME NEW s \in Source PROVE IsClear(mapping[s], columns[s], table[s])
    BY DEF RegistryIsClear, Init
  <2>1. PICK u \in Setups : mapping[s] = u.mapping /\ columns[s] = u.columns /\ table[s] = u.table
    BY DEF Init
  <2>2. u.mapping \in Mappings /\ u.columns \in Schemas /\ u.table \in Seq([Name -> Nat])
    <3>. DEFINE M == Seq(FieldMapping(Name))
                T == Seq([Name -> Nat])
    <3>1. Setups \subseteq [mapping : M, status : {"ACTIVE", "OTHER"},
                            columns : Schemas, table : T, discovered : BOOLEAN]
      BY FederatedAssumption
    <3>. HIDE DEF M, T
    <3>2. u.mapping \in M /\ u.columns \in Schemas /\ u.table \in T
      BY <3>1
    <3>. QED  BY <3>2 DEF M, T, Mappings
  <2>3. u.columns \subseteq Name
    BY <2>2, FederatedAssumption
  <2>4. /\ NamesAreApart(u.mapping)
        /\ \A c \in Altered \cup {u.columns} : ColumnsAreApart(u.mapping, c)
        /\ \A q \in Queries : NamesFields(q, u.mapping)
    BY DEF NamesAreClear
  <2>5. IsClear(u.mapping, u.columns, u.table)
    BY <2>2, <2>3, <2>4 DEF IsClear
  <2>. QED  BY <2>1, <2>5
<1>3. Planned = {} /\ todo = {} /\ pc = "idle" /\ response.state = "none"
  BY DEF Init, Planned, NoResponse
<1>4. PlanningGoesOn /\ PlansAreClear /\ AnswersAreGood /\ AnsweredLast /\ AnswerIsPage
  BY <1>3 DEF PlanningGoesOn, PlansAreClear, AnswersAreGood, AnsweredLast, AnswerIsPage
<1>. QED  BY <1>1, <1>2, <1>4 DEF PageInv

(* Until a request is answered, no step but the merge answers it.          *)
LEMMA NotYetAnswered ==
  ASSUME response'.state # "ok" PROVE AnsweredLast' /\ AnswerIsPage'
  BY DEF AnsweredLast, AnswerIsPage

(* What others do: a table gets columns that no mapping mistakes.          *)
LEMMA EnvironmentPage ==
  ASSUME PageInv, Environment
  PROVE  PageInv'
<1>1. IsolationInv'
  BY EnvironmentIsolation DEF PageInv
<1>2. /\ mapping' = mapping /\ table' = table /\ pc' = pc /\ query' = query /\ todo' = todo
      /\ plans' = plans /\ result' = result /\ response' = response /\ pc # "done"
  BY DEF Environment, dataVars, requestVars
<1>3. /\ DOMAIN columns' = Source
      /\ \A s \in Source : columns'[s] = columns[s] \/ columns'[s] \in Altered
  <2>0. DOMAIN columns = Source
    BY DEF PageInv, RegistryIsClear
  <2>1. PICK s \in Source : \/ SetStatus(s) \/ DeleteSource(s) \/ TestSource(s)
                            \/ AlterTable(s) \/ DiscoverSchema(s)
    BY DEF Environment
  <2>2. CASE AlterTable(s)
    <3>1. PICK c \in Altered : columns' = [columns EXCEPT ![s] = c]
      BY <2>2 DEF AlterTable
    <3>. QED  BY <2>0, <3>1
  <2>3. CASE SetStatus(s) \/ DeleteSource(s) \/ TestSource(s) \/ DiscoverSchema(s)
    BY <2>0, <2>3 DEF SetStatus, DeleteSource, TestSource, DiscoverSchema
  <2>. QED  BY <2>1, <2>2, <2>3
<1>4. RegistryIsClear'
  <2>. SUFFICES ASSUME NEW s \in Source PROVE IsClear(mapping[s], columns'[s], table[s])
    BY <1>2, <1>3 DEF RegistryIsClear
  <2>1. IsClear(mapping[s], columns[s], table[s])
    BY DEF PageInv, RegistryIsClear
  <2>2. Altered \subseteq SUBSET Name
    BY FederatedAssumption
  <2>. QED  BY <1>3, <2>1, <2>2 DEF IsClear
<1>5. PlanningGoesOn' /\ PlansAreClear' /\ AnswersAreGood'
  BY <1>2 DEF PageInv, PlanningGoesOn, PlansAreClear, AnswersAreGood, Planned, Succeeded, Eligible
<1>6. response'.state # "ok"
  BY <1>2 DEF PageInv, AnsweredLast
<1>. QED  BY <1>1, <1>4, <1>5, <1>6, NotYetAnswered DEF PageInv

(* The request begins; the candidates are chosen.                          *)
LEMMA StartPage ==
  ASSUME PageInv, UNCHANGED <<mapping, table, columns>>,
         \/ \E q \in Queries : Submit(q)
         \/ \E s \in Source : ResolveRaises(s)
         \/ Resolve \/ ReadMapping \/ FinishPlan
  PROVE  PageInv'
<1>1. IsolationInv'
  BY PlanningIsolation DEF PageInv
<1>2. RegistryIsClear'
  BY DEF PageInv, RegistryIsClear
<1>3. plans' = plans /\ result' = result /\ pc # "done"
  BY DEF Submit, ResolveRaises, Resolve, ReadMapping, FinishPlan
<1>4. response.state # "ok"
  BY <1>3 DEF PageInv, AnsweredLast
<1>5. response'.state # "ok"
  <2>1. Error.state = "error"
    BY DEF Error, NoResponse
  <2>. QED  BY <1>4, <2>1 DEF Submit, ResolveRaises, Resolve, ReadMapping, FinishPlan, Respond
<1>6. PlanningGoesOn'
  <2>1. CASE \E q \in Queries : Submit(q)
    BY <2>1 DEF Submit, PageInv, PlanningGoesOn, Planned, Eligible
  <2>2. CASE \E s \in Source : ResolveRaises(s)
    BY <2>2 DEF ResolveRaises, PageInv, PlanningGoesOn, Planned, Eligible
  <2>3. CASE Resolve
    BY <2>3 DEF Resolve, Respond, PageInv, PlanningGoesOn, Planned, Eligible, EligibleCandidates
  <2>4. CASE ReadMapping
    BY <2>4 DEF ReadMapping, Respond, PageInv, PlanningGoesOn, Planned, Eligible
  <2>5. CASE FinishPlan
    BY <2>5 DEF FinishPlan, Respond, PageInv, PlanningGoesOn, Planned, Eligible
  <2>. QED  BY <2>1, <2>2, <2>3, <2>4, <2>5
<1>7. PlansAreClear' /\ AnswersAreGood'
  <2>1. CASE \E q \in Queries : Submit(q)
    <3>1. Planned = {} /\ Planned' = {}
      BY <1>3, <2>1 DEF Submit, PageInv, PlanningGoesOn, Planned
    <3>. QED  BY <3>1 DEF PlansAreClear, AnswersAreGood
  <2>2. CASE ~ \E q \in Queries : Submit(q)
    <3>1. query' = query
      BY <2>2 DEF ResolveRaises, Resolve, ReadMapping, FinishPlan
    <3>. QED  BY <1>3, <3>1 DEF PageInv, PlansAreClear, AnswersAreGood, Planned, Succeeded
  <2>. QED  BY <2>1, <2>2
<1>. QED  BY <1>1, <1>2, <1>5, <1>6, <1>7, NotYetAnswered DEF PageInv

(* The next candidate is compiled: it knows every name of the query, and   *)
(* clients name fields, so its plan means what the query means.            *)
LEMMA BindPage ==
  ASSUME PageInv, UNCHANGED <<mapping, table, columns>>, BindAndLower
  PROVE  PageInv'
<1>1. IsolationInv'
  BY PlanningIsolation DEF PageInv
<1>2. RegistryIsClear'
  BY DEF PageInv, RegistryIsClear
<1>3. result' = result /\ query' = query /\ pc = "bind" /\ pc' \in {"plan", "done"} /\ todo' \subseteq todo
  BY DEF BindAndLower, Respond
<1>4. response.state # "ok" /\ Error.state = "error"
  BY <1>3 DEF PageInv, AnsweredLast, Error, NoResponse
<1>5. response'.state # "ok"
  BY <1>4 DEF BindAndLower, Respond
<1>6. PlanningGoesOn'
  BY <1>3 DEF PageInv, PlanningGoesOn, Eligible
<1>7. \/ plans' = plans
      \/ \E s \in todo : plans' = [t \in Planned \cup {s} |->
                                     IF t = s THEN Lower(mapping[s], query) ELSE plans[t]]
  BY DEF BindAndLower
<1>8. CASE plans' = plans
  BY <1>1, <1>2, <1>3, <1>5, <1>6, <1>8, NotYetAnswered
     DEF PageInv, PlansAreClear, AnswersAreGood, Planned, Succeeded
<1>9. ASSUME NEW s \in todo,
             plans' = [t \in Planned \cup {s} |-> IF t = s THEN Lower(mapping[s], query) ELSE plans[t]]
      PROVE  PlansAreClear' /\ AnswersAreGood'
  <2>1. s \in Source /\ Eligible(s) /\ query \in Queries /\ IsClear(mapping[s], columns[s], table[s])
    BY <1>3 DEF PageInv, IsolationInv, PlansAreSources, PlanningGoesOn, RegistryIsClear
  <2>2. ClearPlan(query, Lower(mapping[s], query)) /\ Lower(mapping[s], query).mapping = mapping[s]
    <3>1. AllReferencedFields(query) \subseteq LogicalNames(mapping[s])
      BY <2>1 DEF Eligible, IsClear, NamesFields
    <3>2. query.fields \cup SortFields(query) \subseteq LogicalNames(mapping[s])
      BY <3>1 DEF AllReferencedFields
    <3>3. Lower(mapping[s], query).mapping = mapping[s]
      BY DEF Lower
    <3>. QED  BY <2>1, <3>2, <3>3 DEF ClearPlan, IsClear
  <2>3. /\ Planned' = Planned \cup {s} /\ plans'[s] = Lower(mapping[s], query)
        /\ \A t \in Planned : t # s => plans'[t] = plans[t]
    BY <1>9 DEF Planned
  <2>4. PlansAreClear'
    BY <1>3, <2>2, <2>3 DEF PageInv, PlansAreClear
  <2>5. \A t \in Planned' : result'[t] = Pending
    BY <1>1, <1>3 DEF PageInv, IsolationInv, NothingRuns, PlansAreSources
  <2>6. AnswersAreGood'
    BY <2>5 DEF AnswersAreGood, Succeeded, Pending
  <2>. QED  BY <2>4, <2>6
<1>. QED  BY <1>1, <1>2, <1>5, <1>6, <1>7, <1>8, <1>9, NotYetAnswered DEF PageInv

(* Path B.                                                                 *)
LEMMA DiscoverPage ==
  ASSUME NamesAreClear, PageInv, UNCHANGED <<mapping, table, columns>>, Discover
  PROVE  PageInv'
<1>. DEFINE p == Lower(EphemeralMapping, query)
<1>1. IsolationInv'
  BY PlanningIsolation DEF PageInv
<1>2. RegistryIsClear'
  BY DEF PageInv, RegistryIsClear
<1>3. /\ result' = result /\ query' = query /\ todo' = todo
      /\ pc = "discover" /\ pc' \in {"execute", "done"}
  BY DEF Discover, Respond
<1>4. response.state # "ok" /\ Error.state = "error"
  BY <1>3 DEF PageInv, AnsweredLast, Error, NoResponse
<1>5. response'.state # "ok"
  BY <1>4 DEF Discover, Respond
<1>6. PlanningGoesOn' /\ query \in Queries
  BY <1>3 DEF PageInv, PlanningGoesOn, Eligible
<1>7. \/ plans' = plans
      \/ /\ plans' = [s \in Participating |-> p]
         /\ \A s \in Participating : PlanColumns(p) \subseteq snapshot[s]
  BY DEF Discover
<1>8. PlansAreClear'
  <2>1. CASE plans' = plans
    BY <1>3, <2>1 DEF PageInv, PlansAreClear, Planned
  <2>2. CASE /\ plans' = [s \in Participating |-> p]
             /\ \A s \in Participating : PlanColumns(p) \subseteq snapshot[s]
    <3>. HIDE DEF p
    <3>1. query \in Query(Name) /\ SortIsProjected(query)
      BY <1>6, FederatedAssumption DEF NamesAreClear
    <3>2. ClearPlan(query, p) /\ LogicalNames(p.mapping) \subseteq PhysicalNames(p.mapping)
      BY <2>2, <3>1, EphemeralClear DEF p
    <3>3. \A s \in Planned' : plans'[s] = p
      BY <2>2 DEF Planned
    <3>. QED  BY <1>3, <3>2, <3>3 DEF PlansAreClear
  <2>. QED  BY <1>7, <2>1, <2>2
<1>9. \A t \in Planned' : result'[t] = Pending
  BY <1>1, <1>3 DEF PageInv, IsolationInv, NothingRuns, PlansAreSources
<1>10. AnswersAreGood'
  BY <1>9 DEF AnswersAreGood, Succeeded, Pending
<1>. QED  BY <1>1, <1>2, <1>5, <1>6, <1>8, <1>10, NotYetAnswered DEF PageInv

(* A source answers, or fails.                                             *)
LEMMA AnswerPage ==
  ASSUME NamesAreClear, PageInv, UNCHANGED <<mapping, table, columns>>,
         NEW s \in Source, Execute(s) \/ Fail(s)
  PROVE  PageInv'
<1>1. IsolationInv'
  BY AnswerIsolation DEF PageInv
<1>2. RegistryIsClear'
  BY DEF PageInv, RegistryIsClear
<1>3. /\ pc = "execute" /\ s \in Planned
      /\ pc' = pc /\ query' = query /\ todo' = todo /\ plans' = plans /\ response' = response
  BY DEF Execute, Fail
<1>4. response'.state # "ok"
  BY <1>3 DEF PageInv, AnsweredLast
<1>5. PlanningGoesOn' /\ PlansAreClear' /\ query \in Queries
  BY <1>3 DEF PageInv, PlanningGoesOn, PlansAreClear, Planned, Eligible
<1>6. DOMAIN result = Source /\ \A t \in Source : t # s => result'[t] = result[t]
  <2>1. DOMAIN result = Source
    BY DEF PageInv, IsolationInv, NothingRuns
  <2>. QED  BY <2>1 DEF Execute, Fail
<1>7. /\ result'[s].state = "ok" => GoodAnswer(query, table[s], plans[s].mapping, s, result'[s].rows)
      /\ result'[s].state # "ok" => result'[s].rows = <<>>
  <2>1. CASE Execute(s)
    <3>1. query \in Query(Name) /\ SortIsProjected(query)
      BY <1>5, FederatedAssumption DEF NamesAreClear
    <3>2. ClearPlan(query, plans[s])
      BY <1>3 DEF PageInv, PlansAreClear
    <3>3. IsClear(mapping[s], columns[s], table[s])
      BY DEF PageInv, RegistryIsClear
    <3>4. columns[s] \subseteq Name /\ table[s] \in Seq([Name -> Nat])
      BY <3>3 DEF IsClear
    <3>5. ColumnsAreApart(plans[s].mapping, columns[s])
      BY <1>3, <3>3 DEF PageInv, PlansAreClear, IsClear, ColumnsAreApart
    <3>. QED  BY <1>6, <2>1, <3>1, <3>2, <3>4, <3>5, ExecuteAnswers
  <2>2. CASE Fail(s)
    <3>1. result'[s] = Failed
      BY <1>6, <2>2 DEF Fail
    <3>. QED  BY <3>1 DEF Failed
  <2>. QED  BY <2>1, <2>2
<1>8. AnswersAreGood'
  <2>. SUFFICES ASSUME NEW t \in Planned
                PROVE  /\ result'[t].state = "ok" => GoodAnswer(query, table[t], plans[t].mapping, t, result'[t].rows)
                       /\ result'[t].state # "ok" => result'[t].rows = <<>>
    BY <1>3 DEF AnswersAreGood, Succeeded, Planned
  <2>1. CASE t = s
    BY <1>7, <2>1
  <2>2. CASE t # s
    <3>1. result'[t] = result[t]
      BY <1>6, <2>2 DEF PageInv, IsolationInv, PlansAreSources
    <3>. QED  BY <3>1 DEF PageInv, AnswersAreGood, Succeeded
  <2>. QED  BY <2>1, <2>2
<1>. QED  BY <1>1, <1>2, <1>4, <1>5, <1>8, NotYetAnswered DEF PageInv

(* The merge.                                                              *)
LEMMA MergePage ==
  ASSUME NamesAreClear, PageInv, UNCHANGED <<mapping, table, columns>>, Merge
  PROVE  PageInv'
<1>1. IsolationInv'
  BY MergeIsolation DEF PageInv
<1>2. RegistryIsClear'
  BY DEF PageInv, RegistryIsClear
<1>3. /\ pc = "execute" /\ pc' = "done"
      /\ query' = query /\ todo' = todo /\ plans' = plans /\ result' = result
  BY DEF Merge, Respond
<1>4. PlanningGoesOn' /\ PlansAreClear' /\ AnswersAreGood' /\ query \in Queries
  BY <1>3 DEF PageInv, PlanningGoesOn, PlansAreClear, AnswersAreGood, Planned, Succeeded, Eligible
<1>5. AnsweredLast'
  BY <1>3 DEF AnsweredLast
<1>6. AnswerIsPage'
  <2>1. CASE Succeeded = {}
    <3>1. response' = Error /\ Error.state = "error"
      BY <2>1 DEF Merge, Respond, Error, NoResponse
    <3>. QED  BY <3>1, NotYetAnswered
  <2>2. CASE Succeeded # {}
    <3>1. /\ response'.included = Succeeded
          /\ response'.rows = MergeRows(query, AllRows)
      BY <2>2 DEF Merge, Respond
    <3>2. query \in Query(Name) /\ SortIsProjected(query)
      BY <1>4, FederatedAssumption DEF NamesAreClear
    <3>3. Planned \subseteq Source /\ AnswersAreGood
      BY DEF PageInv, IsolationInv, PlansAreSources
    <3>4. Sound(query, table, plans, Succeeded)
      <4>1. Succeeded \subseteq Source /\ Succeeded \subseteq Nat /\ IsFiniteSet(Succeeded)
        BY <3>3, FederatedAssumption, FS_Subset DEF Succeeded
      <4>2. ASSUME NEW s \in Succeeded
            PROVE  /\ Len(table[s]) \in Nat /\ DOMAIN table[s] = 1 .. Len(table[s])
                   /\ \A i \in DOMAIN table[s] : \A f \in SortFields(query) :
                        Val(table[s], plans[s].mapping, i, f) \in Nat
        <5>. DEFINE T == [Name -> Nat]
        <5>1. table[s] \in Seq(T)
          BY <4>1 DEF PageInv, RegistryIsClear, IsClear
        <5>2. ClearPlan(query, plans[s])
          BY DEF PageInv, PlansAreClear, Succeeded
        <5>3. \A f \in SortFields(query) : Denotes(plans[s].mapping, f) \in Name
          BY <3>2, <5>2, PlanMeans DEF AllReferencedFields
        <5>4. \A r \in T : \A n \in Name : r[n] \in Nat
          OBVIOUS
        <5>. HIDE DEF T
        <5>. QED  BY <5>1, <5>3, <5>4 DEF Val
      <4>. QED  BY <4>1, <4>2 DEF Sound
    <3>5. PageIs(query, table, plans, Succeeded, MergeRows(query, AllRows))
      BY <3>2, <3>3, <3>4, MergedPage
    <3>. QED  BY <1>3, <3>1, <3>5, PageMeans
  <2>. QED  BY <2>1, <2>2
<1>. QED  BY <1>1, <1>2, <1>4, <1>5, <1>6 DEF PageInv

(* No step, whoever takes it, breaks the invariant.                        *)
LEMMA NextPage == NamesAreClear /\ PageInv /\ [Next]_vars => PageInv'
<1>. SUFFICES ASSUME NamesAreClear, PageInv, [Next]_vars PROVE PageInv'
  OBVIOUS
<1>1. CASE UNCHANGED vars
  <2>1. IsolationInv'
    BY <1>1, EnvironmentIsolation DEF PageInv
  <2>2. RegistryIsClear' /\ PlanningGoesOn' /\ PlansAreClear' /\ AnswersAreGood' /\ AnsweredLast'
    BY <1>1 DEF vars, PageInv, RegistryIsClear, PlanningGoesOn, PlansAreClear, AnswersAreGood,
                AnsweredLast, Planned, Succeeded, Eligible
  <2>3. AnswerIsPage'
    BY <1>1, PageMeans DEF vars, PageInv
  <2>. QED  BY <2>1, <2>2, <2>3 DEF PageInv
<1>2. CASE Environment
  BY <1>2, EnvironmentPage
<1>3. CASE \E q \in Queries : Submit(q) /\ UNCHANGED <<dataVars, registryVars>>
  BY <1>3, StartPage DEF dataVars, registryVars
<1>4. CASE \E s \in Source : ResolveRaises(s)
  BY <1>4, StartPage DEF ResolveRaises, dataVars
<1>5. CASE Handler
  <2>1. UNCHANGED <<mapping, table, columns>>
    BY <1>5 DEF Handler, dataVars, registryVars
  <2>. QED  BY <1>5, <2>1, StartPage, BindPage, DiscoverPage, MergePage DEF Handler
<1>6. CASE \E s \in Source : Answer(s)
  BY <1>6, AnswerPage DEF Answer, dataVars, registryVars
<1>. QED  BY <1>1, <1>2, <1>3, <1>4, <1>5, <1>6 DEF Next

(* Where names are clear, what merge_federated_results answers is the page *)
(* of all rows of the sources that answered: for every set of sources,     *)
(* every mapping, table and query, whatever is changed meanwhile and       *)
(* whichever sources fail, pushing OFFSET + LIMIT down loses no row of the *)
(* page, and renaming rows back mistakes no column.                        *)
THEOREM AnswersArePages == NamesAreClear => (Spec => []AnswerIsPage)
<1>. SUFFICES ASSUME NamesAreClear PROVE Spec => []AnswerIsPage
  OBVIOUS
<1>1. Init => PageInv
  BY InitPage
<1>2. PageInv /\ [Next]_vars => PageInv'
  BY NextPage
<1>3. PageInv => AnswerIsPage
  BY DEF PageInv
<1>. QED  BY <1>1, <1>2, <1>3, PTL DEF Spec

-----------------------------------------------------------------------------
(* Types *)

(* A row of any names, with natural numbers as values.                     *)
IsRow(row) == DOMAIN row \subseteq Name /\ row \in [DOMAIN row -> Nat]

(* Names resolve to names, and columns are renamed to names.               *)
LEMMA ResolvesToName ==
  ASSUME NEW m \in Mappings, NEW f \in Name
  PROVE  ResolveFieldPath(m, f) \in Name
<1>. DEFINE E == {i \in DOMAIN m : f \in {m[i].logical, m[i].physical}}
<1>1. /\ Len(m) \in Nat /\ DOMAIN m = 1 .. Len(m)
      /\ \A i \in DOMAIN m : m[i].physical \in Name
  BY MappingEntries
<1>2. E \subseteq 1 .. Len(m)
  BY <1>1
<1>3. ResolveFieldPath(m, f) = IF E = {} THEN f ELSE m[Max(E)].physical
  BY DEF ResolveFieldPath
<1>4. E # {} => Max(E) \in DOMAIN m
  <2>. HIDE DEF E
  <2>. QED  BY <1>1, <1>2, GreatestNumber
<1>. HIDE DEF E
<1>. QED  BY <1>1, <1>3, <1>4

LEMMA RenamesToName ==
  ASSUME NEW m \in Mappings, NEW c
  PROVE  NormalName(m, c) \subseteq Name
<1>. DEFINE p2l == PhysicalToLogical(m)
            E(p) == {i \in DOMAIN m : m[i].physical = p}
<1>1. /\ Len(m) \in Nat /\ DOMAIN m = 1 .. Len(m)
      /\ \A i \in DOMAIN m : m[i].logical \in Name
  BY MappingEntries
<1>2. p2l = [p \in PhysicalNames(m) |-> m[Max(E(p))].logical]
  BY DEF PhysicalToLogical
<1>3. ASSUME NEW p \in DOMAIN p2l PROVE p2l[p] \in Name
  <2>1. p \in PhysicalNames(m) /\ p2l[p] = m[Max(E(p))].logical
    BY <1>2
  <2>2. E(p) \subseteq 1 .. Len(m) /\ E(p) # {}
    BY <1>1, <2>1 DEF PhysicalNames
  <2>3. Max(E(p)) \in E(p)
    <3>. HIDE DEF E
    <3>. QED  BY <1>1, <2>2, GreatestNumber
  <2>4. Max(E(p)) \in DOMAIN m
    BY <2>3
  <2>. HIDE DEF E
  <2>. QED  BY <1>1, <2>1, <2>4
<1>4. NormalName(m, c) = IF c \in DOMAIN p2l THEN {p2l[c]}
                        ELSE {c} \cap {p2l[p] : p \in DOMAIN p2l}
  BY DEF NormalName
<1>. HIDE DEF p2l
<1>. QED  BY <1>3, <1>4

(* A renamed row is a row, whatever columns get one name.                  *)
LEMMA NormalizeTyped ==
  ASSUME NEW m \in Mappings, NEW row, IsRow(row)
  PROVE  IsRow(NormalizeRow(m, ColumnOrder, row))
<1>. DEFINE order == ColumnOrder
            Cols(n) == {i \in DOMAIN order : order[i] \in DOMAIN row /\ n \in NormalName(m, order[i])}
            names == UNION {NormalName(m, c) : c \in DOMAIN row}
            r == NormalizeRow(m, order, row)
<1>1. Len(order) \in Nat /\ DOMAIN order = 1 .. Len(order)
      /\ \A c \in Name : \E i \in DOMAIN order : order[i] = c
  BY FederatedAssumption DEF Range
<1>2. r = [n \in names |-> row[order[Max(Cols(n))]]]
  BY DEF NormalizeRow
<1>3. names \subseteq Name
  BY RenamesToName
<1>4. ASSUME NEW n \in names PROVE row[order[Max(Cols(n))]] \in Nat
  <2>1. PICK c \in DOMAIN row : n \in NormalName(m, c)
    OBVIOUS
  <2>2. Cols(n) \subseteq 1 .. Len(order) /\ Cols(n) # {}
    BY <1>1, <2>1 DEF IsRow
  <2>3. Max(Cols(n)) \in Cols(n)
    <3>. HIDE DEF Cols
    <3>. QED  BY <1>1, <2>2, GreatestNumber
  <2>4. order[Max(Cols(n))] \in DOMAIN row
    BY <2>3
  <2>. HIDE DEF Cols, order
  <2>. QED  BY <2>4 DEF IsRow
<1>. HIDE DEF Cols, order, names
<1>5. DOMAIN r = names /\ \A n \in names : r[n] \in Nat
  BY <1>2, <1>4
<1>6. r = [n \in DOMAIN r |-> r[n]]
  BY <1>2
<1>. HIDE DEF r
<1>7. r \in [DOMAIN r -> Nat]
  BY <1>5, <1>6
<1>. QED  BY <1>3, <1>5, <1>7 DEF IsRow, r, order

(* The planner makes plans.                                                *)
LEMMA LowerTyped ==
  ASSUME NEW m \in Mappings, NEW q \in Query(Name)
  PROVE  Lower(m, q) \in Plan
<1>. DEFINE p == Lower(m, q)
            C == SortClause(Name)
<1>1. /\ q.fields \subseteq Name /\ q.where \subseteq Name
      /\ Len(q.sort) \in Nat /\ DOMAIN q.sort = 1 .. Len(q.sort)
      /\ q.limit \in Nat /\ q.offset \in Nat
  BY QueryParts
<1>2. \A k \in DOMAIN q.sort : q.sort[k] \in C
  <2>1. q.sort \in Seq(C)
    BY DEF Query
  <2>. HIDE DEF C
  <2>. QED  BY <2>1
<1>3. \A f \in Name : ResolveFieldPath(m, f) \in Name
  BY ResolvesToName
<1>4. {[column |-> ResolveFieldPath(m, f), as |-> f] : f \in q.fields} \in SUBSET [column : Name, as : Name]
  BY <1>1, <1>3
<1>5. {ResolveFieldPath(m, f) : f \in q.where} \in SUBSET Name
  BY <1>1, <1>3
<1>6. [i \in DOMAIN q.sort |-> [q.sort[i] EXCEPT !.field = ResolveFieldPath(m, q.sort[i].field)]] \in Seq(C)
  <2>. DEFINE e(i) == [q.sort[i] EXCEPT !.field = ResolveFieldPath(m, q.sort[i].field)]
  <2>1. \A i \in DOMAIN q.sort : e(i) \in C
    BY <1>2, <1>3 DEF SortClause
  <2>. HIDE DEF C, e
  <2>2. [i \in 1 .. Len(q.sort) |-> e(i)] \in [1 .. Len(q.sort) -> C]
    BY <1>1, <2>1
  <2>3. [i \in 1 .. Len(q.sort) |-> e(i)] \in Seq(C)
    BY <1>1, <2>2
  <2>. QED  BY <1>1, <2>3 DEF e
<1>7. PushedLimit(q) \in Nat
  BY <1>1 DEF PushedLimit
<1>8. m \in Seq(FieldMapping(Name))
  BY DEF Mappings
<1>. QED  BY <1>4, <1>5, <1>6, <1>7, <1>8 DEF Lower, Plan

(* A source answers with rows of its table.                                *)
LEMMA SelectedTyped ==
  ASSUME NEW p \in Plan, NEW s, columns[s] \subseteq Name, NEW row \in [Name -> Nat]
  PROVE  IsRow(Selected(s, p, row))
<1>. DEFINE r == Selected(s, p, row)
            column(n) == (CHOOSE x \in p.select : x.as = n).column
<1>1. p.select \subseteq [column : Name, as : Name]
  BY DEF Plan
<1>2. CASE p.select = {}
  <2>1. r = [c \in columns[s] |-> row[c]]
    BY <1>2 DEF Selected
  <2>. HIDE DEF r
  <2>2. DOMAIN r = columns[s] /\ r \in [columns[s] -> Nat]
    BY <2>1
  <2>. QED  BY <2>2 DEF IsRow, r
<1>3. CASE p.select # {}
  <2>. DEFINE names == {x.as : x \in p.select}
  <2>1. r = [n \in names |-> row[column(n)]]
    BY <1>3 DEF Selected
  <2>2. \A n \in names : column(n) \in Name
    <3>. TAKE n \in names
    <3>1. (CHOOSE x \in p.select : x.as = n) \in p.select
      OBVIOUS
    <3>. QED  BY <1>1, <3>1
  <2>3. names \subseteq Name
    BY <1>1
  <2>. HIDE DEF r, column, names
  <2>4. DOMAIN r = names /\ r \in [names -> Nat]
    BY <2>1, <2>2
  <2>. QED  BY <2>3, <2>4 DEF IsRow, r
<1>. QED  BY <1>2, <1>3

LEMMA ExecuteTyped ==
  ASSUME TypeOK, NEW s \in Source, Execute(s)
  PROVE  \E rows : /\ AreResultRows(rows)
                   /\ result' = [result EXCEPT ![s] = [state |-> "ok", rows |-> rows]]
<1>. DEFINE p == plans[s]
            t == table[s]
            row(i) == NormalizeRow(p.mapping, ColumnOrder, Selected(s, p, t[i]))
<1>1. p \in Plan
  <2>1. s \in Planned /\ plans \in [Planned -> Plan]
    BY DEF Execute, TypeOK
  <2>. HIDE DEF Planned
  <2>. QED  BY <2>1
<1>2. p.mapping \in Mappings /\ p.limit \in Nat
  BY <1>1 DEF Plan, Mappings
<1>3. t \in Seq([Name -> Nat])
  BY DEF TypeOK
<1>4. columns[s] \subseteq Name
  <2>1. columns[s] \in Schemas
    BY DEF TypeOK
  <2>. QED  BY <2>1, FederatedAssumption
<1>5. DOMAIN t \subseteq Nat /\ \A i \in DOMAIN t : t[i] \in [Name -> Nat]
  <2>. DEFINE F == [Name -> Nat]
  <2>. HIDE DEF F
  <2>1. t \in Seq(F)
    BY <1>3 DEF F
  <2>2. DOMAIN t \subseteq Nat /\ \A i \in DOMAIN t : t[i] \in F
    BY <2>1
  <2>. QED  BY <2>2 DEF F
<1>6. \A i \in DOMAIN t : IsRow(row(i))
  <2>. TAKE i \in DOMAIN t
  <2>1. IsRow(Selected(s, p, t[i]))
    BY <1>1, <1>4, <1>5, SelectedTyped
  <2>. QED  BY <1>2, <2>1, NormalizeTyped
<1>. HIDE DEF row
<1>7. PICK a \in Answers(s, p) :
        result' = [result EXCEPT ![s] =
                     [state |-> "ok",
                      rows |-> [i \in DOMAIN a |-> [source |-> s, at |-> a[i], row |-> row(a[i])]]]]
  BY DEF Execute, row
<1>8. Sends(p, t, a)
  BY <1>2, <1>3, <1>7, DatabaseAnswers
<1>9. Len(a) \in Nat /\ DOMAIN a = 1 .. Len(a) /\ \A i \in DOMAIN a : a[i] \in DOMAIN t
  BY <1>8 DEF Sends, FilterRows
<1>. DEFINE e(i) == [source |-> s, at |-> a[i], row |-> row(a[i])]
            rows == [i \in DOMAIN a |-> e(i)]
<1>10. \A i \in DOMAIN a : IsResultRow(e(i))
  <2>. TAKE i \in DOMAIN a
  <2>1. a[i] \in Nat /\ IsRow(row(a[i]))
    BY <1>5, <1>6, <1>9
  <2>. QED  BY <2>1 DEF IsResultRow, IsRow
<1>. HIDE DEF e
<1>11. Len(rows) = Len(a) /\ DOMAIN rows = DOMAIN a
  BY <1>9
<1>12. AreResultRows(rows)
  BY <1>9, <1>10, <1>11 DEF AreResultRows
<1>. QED  BY <1>7, <1>12 DEF e

(* The merge takes, sorts and cuts rows.                                   *)
LEMMA MergeTyped ==
  ASSUME NEW q \in Query(Name), NEW L, AreResultRows(L)
  PROVE  AreResultRows(MergeRows(q, L))
<1>. DEFINE N == Len(L)
            e(i) == [L[i] EXCEPT !.row = Project(q, L[i].row)]
            P == [i \in DOMAIN L |-> e(i)]
            S == StableSort(q.sort, P)
            R == Paginate(q, S)
<1>1. N \in Nat /\ DOMAIN L = 1 .. N /\ \A i \in DOMAIN L : IsResultRow(L[i])
  BY DEF AreResultRows
<1>2. ASSUME NEW i \in DOMAIN L PROVE IsResultRow(e(i))
  <2>1. /\ L[i].source \in Source /\ L[i].at \in Nat /\ IsRow(L[i].row)
        /\ e(i) = [source |-> L[i].source, at |-> L[i].at, row |-> Project(q, L[i].row)]
    BY <1>1 DEF IsResultRow, IsRow
  <2>2. IsRow(Project(q, L[i].row))
    <3>. DEFINE row == L[i].row
                common == q.fields \cap DOMAIN row
    <3>1. CASE IsWildcard(q)
      BY <2>1, <3>1 DEF Project
    <3>2. CASE ~ IsWildcard(q)
      <4>1. Project(q, row) = [name \in common |-> row[name]]
        BY <3>2 DEF Project
      <4>2. common \subseteq Name /\ \A name \in common : row[name] \in Nat
        BY <2>1 DEF IsRow
      <4>. HIDE DEF row, common
      <4>. QED  BY <4>1, <4>2 DEF IsRow, row
    <3>. QED  BY <3>1, <3>2
  <2>. HIDE DEF e
  <2>. QED  BY <2>1, <2>2 DEF IsResultRow, IsRow
<1>. HIDE DEF e
<1>3. DOMAIN P = 1 .. N /\ \A i \in 1 .. N : IsResultRow(P[i])
  BY <1>1, <1>2
<1>4. Len(q.sort) \in Nat /\ DOMAIN q.sort = 1 .. Len(q.sort)
  BY QueryParts
<1>5. \A i \in 1 .. N : \A k \in 1 .. Len(q.sort) : Get(P[i].row, q.sort[k].field) \in Nat
  BY <1>3 DEF Get, None, IsResultRow
<1>. HIDE DEF P, N
<1>6. PICK g : IsStable(q.sort, P, N, g)
  BY <1>1, <1>3, <1>4, <1>5, StableSorts
<1>7. S = [k \in 1 .. N |-> P[g[k]]] /\ \A k \in 1 .. N : g[k] \in 1 .. N
  BY <1>6 DEF IsStable
<1>. HIDE DEF S
<1>8. S = [k \in 1 .. N |-> S[k]] /\ \A k \in 1 .. N : IsResultRow(S[k])
  BY <1>3, <1>7
<1>9. /\ Len(R) \in Nat /\ DOMAIN R = 1 .. Len(R)
      /\ \A k \in DOMAIN R : q.offset + k \in 1 .. N /\ R[k] = S[q.offset + k]
  <2>1. PICK n \in Nat : N \in Nat /\ N <= n /\ N = n
    BY <1>1
  <2>2. /\ Len(R) \in Nat /\ DOMAIN R = 1 .. Len(R)
        /\ \A k \in DOMAIN R : q.offset + k \in 1 .. N /\ R[k] = S[q.offset + k]
    BY <1>8, <2>1, Slice
  <2>. QED  BY <2>2
<1>. HIDE DEF R
<1>10. AreResultRows(R)
  BY <1>8, <1>9 DEF AreResultRows
<1>. QED  BY <1>10 DEF MergeRows, R, S, P, e

(* What the variables hold: TypeOK, and the parts that proofs cite.        *)
LEMMA TypeParts ==
  ASSUME TypeOK
  PROVE  /\ query \in Query(Name) /\ Planned \subseteq Source /\ DOMAIN result = Source
         /\ \A s \in Source : mapping[s] \in Mappings
<1>1. NoQuery \in Query(Name)
  <2>. DEFINE C == SortClause(Name)
  <2>1. <<>> \in Seq(C)
    OBVIOUS
  <2>2. {} \in SUBSET Name /\ 0 \in Nat
    OBVIOUS
  <2>. HIDE DEF C
  <2>3. NoQuery \in [fields : SUBSET Name, where : SUBSET Name, sort : Seq(C), limit : Nat, offset : Nat]
    BY <2>1, <2>2 DEF NoQuery
  <2>. QED  BY <2>3 DEF Query, C
<1>2. query \in Query(Name)
  BY <1>1, FederatedAssumption DEF TypeOK
<1>3. \A s \in Source : mapping[s] \in Mappings
  <2>. DEFINE M == Seq(FieldMapping(Name))
  <2>1. mapping \in [Source -> M]
    BY DEF TypeOK
  <2>. HIDE DEF M
  <2>2. \A s \in Source : mapping[s] \in M
    BY <2>1
  <2>. QED  BY <2>2 DEF M, Mappings
<1>. QED  BY <1>2, <1>3 DEF TypeOK

EmptyLists == AreResultRows(<<>>)
LEMMA EmptyIsTyped == EmptyLists
  BY DEF EmptyLists, AreResultRows

LEMMA InitTyped == Init => TypeOK
<1>. SUFFICES ASSUME Init PROVE TypeOK
  OBVIOUS
<1>. DEFINE M == Seq(FieldMapping(Name))
            T == Seq([Name -> Nat])
<1>1. PICK setup \in [Source -> Setups] :
        /\ mapping = [s \in Source |-> setup[s].mapping]
        /\ status = [s \in Source |-> setup[s].status]
        /\ columns = [s \in Source |-> setup[s].columns]
        /\ table = [s \in Source |-> setup[s].table]
  BY DEF Init
<1>2. \A s \in Source : /\ setup[s].mapping \in M /\ setup[s].status \in {"ACTIVE", "OTHER"}
                        /\ setup[s].columns \in Schemas /\ setup[s].table \in T
  <2>1. Setups \subseteq [mapping : M, status : {"ACTIVE", "OTHER"},
                          columns : Schemas, table : T, discovered : BOOLEAN]
    BY FederatedAssumption
  <2>. HIDE DEF M, T
  <2>. QED  BY <2>1
<1>. HIDE DEF M, T
<1>3. mapping \in [Source -> M] /\ columns \in [Source -> Schemas] /\ table \in [Source -> T]
  BY <1>1, <1>2
<1>4. status \in [Source -> Presence]
  BY <1>1, <1>2 DEF Presence
<1>5. source \in [Source -> Presence] /\ discovered \subseteq Source
  BY DEF Init, Presence
<1>6. snapshot \in [Source -> Schemas]
  BY <1>3, FederatedAssumption DEF Init
<1>7. /\ changes \in 0 .. MaxChanges /\ pc = "idle" /\ query = NoQuery
      /\ todo \subseteq Source /\ excluded \subseteq Source
  BY FederatedAssumption DEF Init
<1>8. plans \in [Planned -> Plan] /\ Planned \subseteq Source
  <2>1. Planned = {} /\ plans = [s \in {} |-> s]
    BY DEF Init, Planned
  <2>. QED  BY <2>1
<1>9. /\ DOMAIN result = Source
      /\ \A s \in Source : result[s].state = "pending" /\ AreResultRows(result[s].rows)
  BY EmptyIsTyped DEF Init, Pending, EmptyLists
<1>10. /\ response.state = "none" /\ AreResultRows(response.rows)
       /\ response.included = {} /\ response.excluded = {}
  BY EmptyIsTyped DEF Init, NoResponse, EmptyLists
<1>. QED  BY <1>3, <1>4, <1>5, <1>6, <1>7, <1>8, <1>9, <1>10 DEF TypeOK, M, T

(* The registry and the data keep their types on their own.                *)
RegistryTyped ==
  /\ mapping \in [Source -> Seq(FieldMapping(Name))]
  /\ status \in [Source -> Presence]
  /\ source \in [Source -> Presence]
  /\ columns \in [Source -> Schemas]
  /\ discovered \subseteq Source
  /\ snapshot \in [Source -> Schemas]
  /\ table \in [Source -> Seq([Name -> Nat])]
  /\ changes \in 0 .. MaxChanges

(* And so does the request.                                                *)
ResultTyped(r) ==
  /\ DOMAIN r = Source
  /\ \A s \in Source : r[s].state \in {"pending", "failed", "ok"} /\ AreResultRows(r[s].rows)
ResponseTyped(r) ==
  /\ r.state \in {"none", "error", "ok"}
  /\ AreResultRows(r.rows)
  /\ r.included \subseteq Source
  /\ r.excluded \subseteq Source
RequestTyped ==
  /\ pc \in {"idle", "resolve", "plan", "bind", "discover", "execute", "done"}
  /\ query \in Queries \cup {NoQuery}
  /\ todo \subseteq Source
  /\ excluded \subseteq Source
  /\ plans \in [Planned -> Plan] /\ Planned \subseteq Source
  /\ ResultTyped(result)
  /\ ResponseTyped(response)

LEMMA TypeSplits == TypeOK <=> RegistryTyped /\ RequestTyped
  BY DEF TypeOK, RegistryTyped, RequestTyped, ResultTyped, ResponseTyped

LEMMA ErrorIsTyped == ResponseTyped(Error)
  BY EmptyIsTyped DEF ResponseTyped, Error, NoResponse, EmptyLists

LEMMA EnvironmentTyped ==
  ASSUME TypeOK, Environment
  PROVE  TypeOK'
<1>1. RegistryTyped /\ RequestTyped
  BY TypeSplits
<1>2. /\ mapping' = mapping /\ table' = table /\ changes' = changes + 1 /\ changes < MaxChanges
      /\ UNCHANGED requestVars
  BY DEF Environment, dataVars
<1>3. changes' \in 0 .. MaxChanges
  BY <1>1, <1>2, FederatedAssumption DEF RegistryTyped
<1>4. RequestTyped'
  BY <1>1, <1>2 DEF RequestTyped, requestVars, Planned, ResultTyped, ResponseTyped
<1>. DEFINE M == Seq(FieldMapping(Name))
            T == Seq([Name -> Nat])
<1>5. /\ status \in [Source -> Presence] /\ source \in [Source -> Presence]
      /\ columns \in [Source -> Schemas] /\ snapshot \in [Source -> Schemas]
      /\ discovered \subseteq Source
      /\ Altered \subseteq Schemas
  BY <1>1, FederatedAssumption DEF RegistryTyped
<1>6. PICK s \in Source : \/ SetStatus(s) \/ DeleteSource(s) \/ TestSource(s)
                          \/ AlterTable(s) \/ DiscoverSchema(s)
  BY DEF Environment
<1>7. /\ status' \in [Source -> Presence] /\ source' \in [Source -> Presence]
      /\ columns' \in [Source -> Schemas] /\ snapshot' \in [Source -> Schemas]
      /\ discovered' \subseteq Source
  <2>1. CASE SetStatus(s)
    BY <1>5, <2>1 DEF SetStatus
  <2>2. CASE DeleteSource(s)
    BY <1>5, <2>2 DEF DeleteSource, Presence
  <2>3. CASE TestSource(s)
    BY <1>5, <2>3 DEF TestSource, Presence
  <2>4. CASE AlterTable(s)
    BY <1>5, <2>4 DEF AlterTable
  <2>5. CASE DiscoverSchema(s)
    BY <1>5, <2>5 DEF DiscoverSchema, Presence
  <2>. QED  BY <1>6, <2>1, <2>2, <2>3, <2>4, <2>5
<1>8. mapping' \in [Source -> M] /\ table' \in [Source -> T]
  BY <1>1, <1>2 DEF RegistryTyped
<1>9. RegistryTyped'
  BY <1>3, <1>7, <1>8 DEF RegistryTyped
<1>. QED  BY <1>4, <1>9 DEF TypeOK, RegistryTyped, RequestTyped, ResultTyped, ResponseTyped

(* The request until it is executed.                                       *)
LEMMA PlanningTyped ==
  ASSUME TypeOK,
         \/ \E q \in Queries : Submit(q)
         \/ \E s \in Source : ResolveRaises(s)
         \/ Resolve \/ ReadMapping \/ FinishPlan
  PROVE  RequestTyped'
<1>1. RequestTyped
  BY TypeSplits
<1>2. ResponseTyped(Error)
  BY ErrorIsTyped
<1>3. plans' = plans /\ Planned' = Planned /\ result' = result
  BY DEF Submit, ResolveRaises, Resolve, ReadMapping, FinishPlan, Planned
<1>4. /\ plans' \in [Planned' -> Plan] /\ Planned' \subseteq Source /\ ResultTyped(result')
  BY <1>1, <1>3 DEF RequestTyped
<1>5. CASE \E q \in Queries : Submit(q)
  BY <1>1, <1>4, <1>5 DEF Submit, RequestTyped
<1>6. CASE \E s \in Source : ResolveRaises(s)
  BY <1>1, <1>4, <1>6 DEF ResolveRaises, RequestTyped
<1>7. CASE Resolve
  <2>1. Candidates \subseteq Source /\ EligibleCandidates \subseteq Source
    BY DEF Candidates, EligibleCandidates
  <2>2. /\ query' = query
        /\ \/ pc' = "discover" /\ UNCHANGED <<todo, excluded, response>>
           \/ pc' = "done" /\ response' = Error /\ UNCHANGED <<todo, excluded>>
           \/ /\ pc' = "plan" /\ todo' = EligibleCandidates
              /\ excluded' = Candidates \ EligibleCandidates /\ response' = response
    BY <1>7 DEF Resolve, Respond
  <2>. QED  BY <1>1, <1>2, <1>4, <2>1, <2>2 DEF RequestTyped
<1>8. CASE ReadMapping
  BY <1>1, <1>2, <1>4, <1>8 DEF ReadMapping, Respond, RequestTyped
<1>9. CASE FinishPlan
  BY <1>1, <1>2, <1>4, <1>9 DEF FinishPlan, Respond, RequestTyped
<1>. QED  BY <1>5, <1>6, <1>7, <1>8, <1>9

(* A source is planned, or all of those that have the entity.              *)
LEMMA PlanTyped ==
  ASSUME TypeOK, BindAndLower \/ Discover
  PROVE  RequestTyped'
<1>1. RequestTyped
  BY TypeSplits
<1>2. ResponseTyped(Error) /\ query \in Query(Name) /\ \A s \in Source : mapping[s] \in Mappings
  BY ErrorIsTyped, TypeParts
<1>3. plans \in [Planned -> Plan] /\ Planned \subseteq Source
  BY <1>1 DEF RequestTyped
<1>4. CASE BindAndLower
  <2>1. PICK s \in todo :
          \/ Respond(Error) /\ UNCHANGED <<todo, plans>>
          \/ todo' = todo \ {s} /\ pc' = "plan" /\ UNCHANGED <<plans, response>>
          \/ /\ plans' = [t \in Planned \cup {s} |-> IF t = s THEN Lower(mapping[s], query) ELSE plans[t]]
             /\ todo' = todo \ {s} /\ pc' = "plan" /\ UNCHANGED response
    BY <1>4 DEF BindAndLower
  <2>2. s \in Source /\ Lower(mapping[s], query) \in Plan
    BY <1>1, <1>2, LowerTyped DEF RequestTyped
  <2>3. plans' \in [Planned' -> Plan] /\ Planned' \subseteq Source
    <3>1. CASE plans' = plans
      BY <1>3, <3>1 DEF Planned
    <3>2. CASE plans' = [t \in Planned \cup {s} |-> IF t = s THEN Lower(mapping[s], query) ELSE plans[t]]
      <4>1. Planned' = Planned \cup {s}
        BY <3>2 DEF Planned
      <4>2. \A t \in Planned : plans[t] \in Plan
        BY <1>3
      <4>. HIDE DEF Planned
      <4>3. plans' \in [Planned \cup {s} -> Plan]
        BY <2>2, <3>2, <4>2
      <4>. QED  BY <1>3, <2>2, <4>1, <4>3
    <3>. QED  BY <2>1, <3>1, <3>2
  <2>4. query' = query /\ excluded' = excluded /\ result' = result
    BY <1>4 DEF BindAndLower
  <2>. QED  BY <1>1, <1>2, <2>1, <2>3, <2>4 DEF Respond, RequestTyped
<1>5. CASE Discover
  <2>. DEFINE p == Lower(EphemeralMapping, query)
  <2>1. Participating \subseteq Source /\ ActiveSources \subseteq Source
    BY DEF Participating, Matching, ActiveSources
  <2>2. p \in Plan
    BY <1>2, EphemeralIsApart, LowerTyped
  <2>3. \/ Respond(Error) /\ UNCHANGED <<excluded, plans>>
        \/ /\ pc' = "execute" /\ plans' = [s \in Participating |-> p]
           /\ excluded' = ActiveSources \ Participating /\ UNCHANGED response
    BY <1>5 DEF Discover
  <2>. HIDE DEF p
  <2>4. plans' \in [Planned' -> Plan] /\ Planned' \subseteq Source
    <3>1. CASE plans' = plans
      BY <1>3, <3>1 DEF Planned
    <3>2. CASE plans' = [s \in Participating |-> p]
      <4>1. Planned' = Participating
        BY <3>2 DEF Planned
      <4>. QED  BY <2>1, <2>2, <3>2, <4>1
    <3>. QED  BY <2>3, <3>1, <3>2
  <2>5. query' = query /\ todo' = todo /\ result' = result
    BY <1>5 DEF Discover
  <2>. QED  BY <1>1, <1>2, <2>1, <2>3, <2>4, <2>5 DEF Respond, RequestTyped
<1>. QED  BY <1>4, <1>5

(* A source answers, or fails to.                                          *)
LEMMA AnswerTyped ==
  ASSUME TypeOK, NEW s \in Source, Execute(s) \/ Fail(s)
  PROVE  RequestTyped'
<1>1. RequestTyped
  BY TypeSplits
<1>2. PICK r : /\ result' = [result EXCEPT ![s] = r]
               /\ r.state \in {"pending", "failed", "ok"} /\ AreResultRows(r.rows)
  <2>1. CASE Execute(s)
    <3>1. PICK rows : /\ AreResultRows(rows)
                      /\ result' = [result EXCEPT ![s] = [state |-> "ok", rows |-> rows]]
      BY <2>1, ExecuteTyped
    <3>. DEFINE r == [state |-> "ok", rows |-> rows]
    <3>2. r.state = "ok" /\ r.rows = rows
      OBVIOUS
    <3>. HIDE DEF r
    <3>3. result' = [result EXCEPT ![s] = r]
      BY <3>1 DEF r
    <3>. QED  BY <3>1, <3>2, <3>3
  <2>2. CASE Fail(s)
    <3>1. Failed.state = "failed" /\ AreResultRows(Failed.rows)
      BY EmptyIsTyped DEF Failed, EmptyLists
    <3>. QED  BY <2>2, <3>1 DEF Fail
  <2>. QED  BY <2>1, <2>2
<1>3. ResultTyped(result')
  BY <1>1, <1>2 DEF ResultTyped, RequestTyped
<1>4. UNCHANGED <<pc, query, todo, excluded, plans, response>>
  BY DEF Execute, Fail
<1>. QED  BY <1>1, <1>3, <1>4 DEF RequestTyped, Planned, ResponseTyped

(* The results are put together.                                           *)
LEMMA AllRowsTyped ==
  ASSUME TypeOK
  PROVE  AreResultRows(AllRows)
<1>. DEFINE N == Cardinality(Sent)
            rows(s) == result[s].rows
            L == AllRows
<1>1. Planned \subseteq Source /\ \A s \in Source : AreResultRows(rows(s))
  BY DEF TypeOK
<1>2. AnswersAreLists
  BY <1>1 DEF AnswersAreLists, AreResultRows
<1>3. IsFiniteSet(Sent) /\ \A x \in Sent : x[1] \in Planned /\ x[2] \in DOMAIN rows(x[1])
  BY <1>1, <1>2, SentPairs
<1>4. N \in Nat
  BY <1>3, FS_CardinalityType
<1>5. PICK e : /\ Arranged(Sent, SentOrder, N, e)
               /\ L = [k \in 1 .. N |-> rows(e[k][1])[e[k][2]]]
  BY <1>1, <1>2, AllRowsListed
<1>. HIDE DEF N, L, rows
<1>6. \A k \in 1 .. N : e[k] \in Sent
  BY <1>5 DEF Arranged
<1>7. \A k \in 1 .. N : IsResultRow(rows(e[k][1])[e[k][2]])
  BY <1>1, <1>3, <1>6 DEF AreResultRows
<1>8. DOMAIN L = 1 .. N /\ Len(L) = N
  BY <1>4, <1>5
<1>9. \A k \in 1 .. N : IsResultRow(L[k])
  BY <1>5, <1>7
<1>. QED  BY <1>4, <1>8, <1>9 DEF AreResultRows, L

LEMMA AnswerIsTyped ==
  ASSUME TypeOK, Merge
  PROVE  RequestTyped'
<1>1. RequestTyped
  BY TypeSplits
<1>2. Succeeded \subseteq Source /\ excluded \cup (Planned \ Succeeded) \subseteq Source
  BY <1>1 DEF RequestTyped, Succeeded
<1>3. UNCHANGED <<query, todo, excluded, plans, result>> /\ pc' = "done"
  BY DEF Merge, Respond
<1>4. ResponseTyped(response')
  <2>1. CASE response' = Error
    BY <2>1, ErrorIsTyped
  <2>2. CASE response' # Error
    <3>. DEFINE rows == MergeRows(query, AllRows)
                ex == excluded \cup (Planned \ Succeeded)
    <3>1. response' = [state |-> "ok", rows |-> rows, included |-> Succeeded, excluded |-> ex]
      BY <2>2 DEF Merge, Respond
    <3>2. AreResultRows(rows)
      BY TypeParts, AllRowsTyped, MergeTyped
    <3>. HIDE DEF rows, ex
    <3>3. /\ response'.state = "ok" /\ response'.rows = rows
          /\ response'.included = Succeeded /\ response'.excluded = ex
      BY <3>1
    <3>. QED  BY <1>2, <3>2, <3>3 DEF ResponseTyped, ex
  <2>. QED  BY <2>1, <2>2
<1>. QED  BY <1>1, <1>3, <1>4 DEF RequestTyped, Planned, ResultTyped

LEMMA NextTyped == TypeOK /\ [Next]_vars => TypeOK'
<1>. SUFFICES ASSUME TypeOK, [Next]_vars PROVE TypeOK'
  OBVIOUS
<1>1. RegistryTyped /\ RequestTyped
  BY TypeSplits
<1>2. CASE Environment
  BY <1>2, EnvironmentTyped
<1>3. ASSUME UNCHANGED <<dataVars, registryVars>> PROVE RegistryTyped'
  BY <1>1, <1>3 DEF RegistryTyped, dataVars, registryVars
<1>4. ASSUME RegistryTyped', RequestTyped' PROVE TypeOK'
  BY <1>4 DEF TypeOK, RegistryTyped, RequestTyped, ResultTyped, ResponseTyped
<1>5. CASE \E q \in Queries : Submit(q) /\ UNCHANGED <<dataVars, registryVars>>
  <2>1. RequestTyped'
    BY <1>5, PlanningTyped
  <2>. QED  BY <1>3, <1>4, <1>5, <2>1
<1>6. CASE \E s \in Source : ResolveRaises(s)
  <2>1. RequestTyped'
    BY <1>6, PlanningTyped
  <2>2. PICK s \in Source : ResolveRaises(s)
    BY <1>6
  <2>3. /\ source' = [source EXCEPT ![s] = "DELETED"] /\ changes' = changes + 1 /\ changes < MaxChanges
        /\ UNCHANGED <<status, columns, discovered, snapshot, mapping, table>>
    BY <2>2 DEF ResolveRaises, dataVars
  <2>4. source' \in [Source -> Presence] /\ changes' \in 0 .. MaxChanges
    BY <1>1, <2>3, FederatedAssumption DEF RegistryTyped, Presence
  <2>5. RegistryTyped'
    BY <1>1, <2>3, <2>4 DEF RegistryTyped
  <2>. QED  BY <1>4, <2>1, <2>5
<1>7. CASE Handler
  <2>1. RequestTyped'
    <3>1. CASE Resolve \/ ReadMapping \/ FinishPlan
      BY <3>1, PlanningTyped
    <3>2. CASE BindAndLower \/ Discover
      BY <3>2, PlanTyped
    <3>3. CASE Merge
      BY <3>3, AnswerIsTyped
    <3>. QED  BY <1>7, <3>1, <3>2, <3>3 DEF Handler
  <2>2. UNCHANGED <<dataVars, registryVars>>
    BY <1>7 DEF Handler
  <2>. QED  BY <1>3, <1>4, <2>1, <2>2
<1>8. CASE \E s \in Source : Answer(s)
  <2>1. PICK s \in Source : Execute(s) \/ Fail(s)
    BY <1>8 DEF Answer
  <2>2. RequestTyped'
    BY <2>1, AnswerTyped
  <2>3. UNCHANGED <<dataVars, registryVars>>
    BY <1>8 DEF Answer
  <2>. QED  BY <1>3, <1>4, <2>2, <2>3
<1>9. CASE UNCHANGED vars
  BY <1>1, <1>4, <1>9 DEF vars, RegistryTyped, RequestTyped, Planned, ResultTyped, ResponseTyped
<1>. QED  BY <1>2, <1>5, <1>6, <1>7, <1>8, <1>9 DEF Next

(* Every variable holds what it is said to hold: names resolve to names,   *)
(* plans are plans, and the rows of a source and of the answer are rows of *)
(* known names and numbers, also where names clash and a row is renamed    *)
(* wrongly.                                                                *)
THEOREM TypeCorrect == Spec => []TypeOK
<1>1. Init => TypeOK
  BY InitTyped
<1>2. TypeOK /\ [Next]_vars => TypeOK'
  BY NextTyped
<1>. QED  BY <1>1, <1>2, PTL DEF Spec
===============================================================================
