----------------------- MODULE StorageReservationsProofs -----------------------
(***************************************************************************)
(* Theorems about StorageReservations, for every set of jobs, every size   *)
(* of disk and media and every floor. The types say more than types: a     *)
(* lease is held exactly while its job runs or its end is being recorded,  *)
(* it never counts more bytes as downloaded than it is for, and who        *)
(* finalizes holds the lock. The floor is kept because every job has an    *)
(* account: what it takes of the disk against what the budget allows for,  *)
(* knows of or is known to miss. No step of a worker lowers the balance of *)
(* its job, and each look at the disk restores the balance of all.         *)
(***************************************************************************)
EXTENDS StorageReservations, FiniteSetTheorems, TLAPS

\* The stages in which a lease is for bytes still to be written.
Writing == {"preparing", "fetching"}

\* What a job's further copies take on staging's filesystem.
Copied(j) == size[j] * Cardinality(copies[j] \cap InStaging) + (IF shared THEN Archived(j) ELSE 0)

\* The part of that which its lease is not for.
Overdraft(j) == IF leases[j] = None THEN 0 ELSE Excess(Medium(j), leases[j].media)

\* What a transfer may still write under its lease.
Undone(j) ==
    IF leases[j] # None /\ stage[j] \in Writing THEN Excess(leases[j].media, got[j]) ELSE 0

\* What a finalization has made of its two further copies, or has left of them.
Made(j) ==
    CASE stage[j] \in Writing \cup {"complete", "assembling"} -> 0
      [] stage[j] = "remuxing" -> size[j]
      [] stage[j] = "remuxed"  -> 2 * size[j]
      [] stage[j] \in {"archiving", "published"} -> IF shared THEN 2 * size[j] ELSE size[j]
      [] OTHER -> size[j] * Cardinality(copies[j] \cap InStaging)
                  + (IF shared THEN Min({Archived(j), got[j]}) ELSE 0)

\* What a job takes of staging's filesystem, less the above, is to its debit.
Balance(j) == Overdraft(j) + missed[j] + Made(j) - Undone(j) - got[j] - Copied(j)

\* With what the budget misses and the copies that are there, the disk has room for what
\* the transfers may still write and for two copies of the largest medium.
Budgeted ==
    Capacity + SumFunction([j \in Jobs |-> Balance(j)]) >= MinFree + 2 * Largest(leases)

\* What a job's worker has reported, and which copies are there, at each stage.
Placed == \A j \in Jobs :
    /\ stage[j] \in {"queued", "preparing"} => report[j] = None
    /\ stage[j] = "preparing" => leases[j].done = 0
    /\ stage[j] \in {"complete", "published"} \cup Finalizing => got[j] = size[j]
    /\ stage[j] \in {"remuxing", "remuxed"} => "ts" \in copies[j]
    /\ stage[j] \in {"remuxed", "archiving", "published"} => "mp4" \in copies[j]
    /\ stage[j] = "archiving" => "part" \in copies[j]
    /\ stage[j] = "published" => "video" \in copies[j]

\* The library on a filesystem of its own.
LibraryKept == ~shared => Free("library") >= MinFree

\* The inductive invariant.
IInv == TypeOK /\ Placed /\ Budgeted /\ LibraryKept

--------------------------------------------------------------------------------
\* Sums over a set.

\* Induction over the subsets of a finite set: what holds of a set when it holds of the set
\* less any one of its elements.
LEMMA SubsetInduction ==
    ASSUME NEW S, IsFiniteSet(S), NEW good,
           \A T \in SUBSET S : (\A x \in T : T \ {x} \in good) => T \in good
    PROVE  \A T \in SUBSET S : T \in good
<1> DEFINE bad == {T \in SUBSET S : T \notin good}
<1>1. IsWellFoundedOn(StrictSubsetOrdering(S), FiniteSubsetsOf(S))
  BY FS_StrictSubsetOrderingWellFounded
<1>2. bad \subseteq FiniteSubsetsOf(S)
  BY FS_Subset DEF FiniteSubsetsOf
<1>3. ASSUME bad # {} PROVE FALSE
  <2>1. PICK U \in bad : \A V \in bad : <<V, U>> \notin StrictSubsetOrdering(S)
    <3> HIDE DEF bad
    <3> QED
      BY <1>1, <1>2, <1>3, WFMin
  <2>2. ASSUME NEW x \in U PROVE U \ {x} \in good
    <3>1. U \ {x} \in SUBSET S /\ U \in SUBSET S /\ U \ {x} # U
      OBVIOUS
    <3>2. <<U \ {x}, U>> \in StrictSubsetOrdering(S)
      BY <3>1 DEF StrictSubsetOrdering
    <3> QED
      BY <2>1, <3>1, <3>2
  <2> QED
    BY <2>1, <2>2
<1> QED
  BY <1>3

\* The recursion by which the folds add up a function: for each subset, the value of a
\* chosen element and the total of the rest.
Chosen(s) == CHOOSE x \in s : TRUE
Step(g, f, s) == IF s = {} THEN 0 ELSE f[Chosen(s)] + g[s \ {Chosen(s)}]
IsTable(g, f, S) == g = [s \in SUBSET S |-> Step(g, f, s)]

\* A total of the community modules' folds is the entry for the whole set in such a table.
LEMMA SumIsTable ==
    ASSUME NEW f, NEW S
    PROVE  SumFunctionOnSet(f, S) = (CHOOSE g : IsTable(g, f, S))[S]
BY DEF SumFunctionOnSet, FoldFunctionOnSet, MapThenFoldSet, IsTable, Step, Chosen

\* There is such a table: for sets of up to n elements, then for those of one more.
LEMMA TableExists ==
    ASSUME NEW f, NEW S, IsFiniteSet(S)
    PROVE  \E g : IsTable(g, f, S)
<1> DEFINE Upto(n) == {t \in SUBSET S : Cardinality(t) <= n}
           good == {T \in SUBSET S : \E g : g = [s \in Upto(Cardinality(T)) |-> Step(g, f, s)]}
<1>1. \A T \in SUBSET S : IsFiniteSet(T) /\ Cardinality(T) \in Nat
  BY FS_Subset, FS_CardinalityType
<1>2. ASSUME NEW T \in SUBSET S, \A x \in T : T \ {x} \in good
      PROVE  T \in good
  <2>1. CASE T = {}
    <3> DEFINE g == [s \in Upto(Cardinality(T)) |-> 0]
    <3>1. \A s \in Upto(Cardinality(T)) : s = {}
      BY <1>1, <2>1, FS_EmptySet
    <3>2. g = [s \in Upto(Cardinality(T)) |-> Step(g, f, s)]
      BY <3>1 DEF Step
    <3> QED
      BY <3>2
  <2>2. CASE T # {}
    <3>1. PICK x \in T : TRUE
      BY <2>2
    <3>2. Cardinality(T \ {x}) = Cardinality(T) - 1
      BY <1>1, FS_RemoveElement
    <3>3. PICK h : h = [s \in Upto(Cardinality(T) - 1) |-> Step(h, f, s)]
      <4>1. \E h : h = [s \in Upto(Cardinality(T \ {x})) |-> Step(h, f, s)]
        BY <1>2
      <4> QED
        BY <3>2, <4>1
    <3> DEFINE g == [s \in Upto(Cardinality(T)) |-> Step(h, f, s)]
    <3>4. ASSUME NEW s \in Upto(Cardinality(T)) PROVE Step(g, f, s) = Step(h, f, s)
      <4>1. CASE s = {}
        BY <4>1 DEF Step
      <4>2. CASE s # {}
        <5>1. Chosen(s) \in s
          BY <4>2 DEF Chosen
        <5> DEFINE r == s \ {Chosen(s)}
        <5>2. Cardinality(r) = Cardinality(s) - 1 /\ r \in SUBSET S
          BY <1>1, <5>1, FS_RemoveElement
        <5>3. r \in Upto(Cardinality(T) - 1) /\ r \in Upto(Cardinality(T))
          BY <1>1, <5>2
        <5>4. g[r] = Step(h, f, r) /\ h[r] = Step(h, f, r)
          BY <3>3, <5>3
        <5> QED
          BY <5>4 DEF Step
      <4> QED
        BY <4>1, <4>2
    <3>5. g = [s \in Upto(Cardinality(T)) |-> Step(g, f, s)]
      <4>1. \A s \in Upto(Cardinality(T)) : g[s] = Step(g, f, s)
        BY <3>4
      <4> QED
        BY <4>1
    <3> QED
      BY <3>5
  <2> QED
    BY <2>1, <2>2
<1>3. S \in good
  <2> HIDE DEF good
  <2> QED
    BY <1>2, SubsetInduction
<1>4. Upto(Cardinality(S)) = SUBSET S
  BY FS_Subset, FS_CardinalityType
<1> QED
  BY <1>3, <1>4 DEF IsTable

\* Two tables have the same total for the same set.
LEMMA TablesAgree ==
    ASSUME NEW f, NEW g, NEW h, NEW S, NEW T, IsFiniteSet(S), T \subseteq S,
           IsTable(g, f, S), IsTable(h, f, T)
    PROVE  g[T] = h[T]
<1> DEFINE good == {U \in SUBSET T : g[U] = h[U]}
<1>1. IsFiniteSet(T)
  BY FS_Subset
<1>2. ASSUME NEW U \in SUBSET T, \A x \in U : U \ {x} \in good
      PROVE  U \in good
  <2>1. g[U] = Step(g, f, U) /\ h[U] = Step(h, f, U)
    BY DEF IsTable
  <2>2. U # {} => Chosen(U) \in U
    BY DEF Chosen
  <2>3. U # {} => g[U \ {Chosen(U)}] = h[U \ {Chosen(U)}]
    BY <1>2, <2>2
  <2> QED
    BY <2>1, <2>3 DEF Step
<1> HIDE DEF good
<1>3. T \in good
  BY <1>1, <1>2, SubsetInduction
<1> QED
  BY <1>3 DEF good

\* The total of the empty set, and of a set from which an element is chosen.
LEMMA SumUnfolds ==
    ASSUME NEW f, NEW S, IsFiniteSet(S)
    PROVE  SumFunctionOnSet(f, S) =
               IF S = {} THEN 0
               ELSE f[Chosen(S)] + SumFunctionOnSet(f, S \ {Chosen(S)})
<1> DEFINE g == CHOOSE t : IsTable(t, f, S)
           R == S \ {Chosen(S)}
           h == CHOOSE t : IsTable(t, f, R)
<1>1. IsFiniteSet(R) /\ R \subseteq S
  BY FS_Subset
<1>2. IsTable(g, f, S) /\ IsTable(h, f, R)
  BY <1>1, TableExists
<1>3. SumFunctionOnSet(f, S) = g[S] /\ SumFunctionOnSet(f, R) = h[R]
  BY SumIsTable
<1>4. g[R] = h[R]
  <2> HIDE DEF g, h, R
  <2> QED
    BY <1>1, <1>2, TablesAgree
<1>5. g[S] = Step(g, f, S)
  <2> HIDE DEF g
  <2> QED
    BY <1>2 DEF IsTable
<1> QED
  BY <1>3, <1>4, <1>5 DEF Step

\* The empty set has the total zero.
LEMMA SumOfNone == \A f : SumFunctionOnSet(f, {}) = 0
BY SumUnfolds, FS_EmptySet

\* Integers have an integer total.
LEMMA SumIsInt ==
    ASSUME NEW f, NEW S, IsFiniteSet(S), \A x \in S : f[x] \in Int
    PROVE  \A T \in SUBSET S : SumFunctionOnSet(f, T) \in Int
<1> DEFINE good == {T \in SUBSET S : SumFunctionOnSet(f, T) \in Int}
<1>1. ASSUME NEW T \in SUBSET S, \A x \in T : T \ {x} \in good
      PROVE  T \in good
  <2>1. T # {} => Chosen(T) \in T
    BY DEF Chosen
  <2>2. SumFunctionOnSet(f, T) = IF T = {} THEN 0
                                 ELSE f[Chosen(T)] + SumFunctionOnSet(f, T \ {Chosen(T)})
    BY SumUnfolds, FS_Subset
  <2>3. T # {} => SumFunctionOnSet(f, T \ {Chosen(T)}) \in Int /\ f[Chosen(T)] \in Int
    BY <1>1, <2>1
  <2> QED
    BY <2>2, <2>3
<1> HIDE DEF good
<1>2. \A T \in SUBSET S : T \in good
  BY <1>1, SubsetInduction
<1> QED
  BY <1>2 DEF good

\* A total does not depend on the order in which the elements are chosen.
LEMMA SumWithout ==
    ASSUME NEW f, NEW S, IsFiniteSet(S), \A x \in S : f[x] \in Int
    PROVE  \A T \in SUBSET S : \A x \in T :
               SumFunctionOnSet(f, T) = f[x] + SumFunctionOnSet(f, T \ {x})
<1> DEFINE Sum(T) == SumFunctionOnSet(f, T)
           good == {T \in SUBSET S : \A x \in T : Sum(T) = f[x] + Sum(T \ {x})}
<1>1. ASSUME NEW T \in SUBSET S, \A x \in T : T \ {x} \in good
      PROVE  T \in good
  <2>1. ASSUME NEW x \in T PROVE Sum(T) = f[x] + Sum(T \ {x})
    <3> DEFINE c == Chosen(T)
    <3>1. c \in T
      BY <2>1 DEF Chosen
    <3>2. Sum(T) = f[c] + Sum(T \ {c})
      BY <2>1, SumUnfolds, FS_Subset
    <3> HIDE DEF c
    <3>3. CASE x = c
      BY <3>2, <3>3
    <3>4. CASE x # c
      <4>1. x \in T \ {c} /\ c \in T \ {x}
        BY <2>1, <3>1, <3>4
      <4>2. Sum(T \ {c}) = f[x] + Sum((T \ {c}) \ {x})
        BY <1>1, <3>1, <4>1
      <4>3. Sum(T \ {x}) = f[c] + Sum((T \ {x}) \ {c})
        BY <1>1, <2>1, <4>1
      <4>4. Sum((T \ {c}) \ {x}) = Sum((T \ {x}) \ {c})
        <5>1. (T \ {c}) \ {x} = (T \ {x}) \ {c}
          OBVIOUS
        <5> QED
          BY <5>1, Zenon
      <4>5. f[x] \in Int /\ f[c] \in Int /\ Sum((T \ {x}) \ {c}) \in Int
        <5>1. (T \ {x}) \ {c} \in SUBSET S
          OBVIOUS
        <5> QED
          BY <2>1, <3>1, <5>1, SumIsInt
      <4> HIDE DEF Sum
      <4> QED
        BY <3>2, <4>2, <4>3, <4>4, <4>5
    <3> QED
      BY <3>3, <3>4
  <2> QED
    BY <2>1
<1> HIDE DEF good
<1>2. \A T \in SUBSET S : T \in good
  BY <1>1, SubsetInduction
<1> QED
  BY <1>2 DEF good

\* What is no greater anywhere has no greater total.
LEMMA SumMonotone ==
    ASSUME NEW f, NEW g, NEW S, IsFiniteSet(S),
           \A x \in S : f[x] \in Int /\ g[x] \in Int /\ f[x] <= g[x]
    PROVE  \A T \in SUBSET S : SumFunctionOnSet(f, T) <= SumFunctionOnSet(g, T)
<1> DEFINE Sum(h, T) == SumFunctionOnSet(h, T)
           good == {T \in SUBSET S : Sum(f, T) <= Sum(g, T)}
<1>1. ASSUME NEW T \in SUBSET S, \A x \in T : T \ {x} \in good
      PROVE  T \in good
  <2>1. CASE T = {}
    BY <2>1, SumOfNone
  <2>2. CASE T # {}
    <3>1. PICK x \in T : TRUE
      BY <2>2
    <3>2. Sum(f, T) = f[x] + Sum(f, T \ {x}) /\ Sum(g, T) = g[x] + Sum(g, T \ {x})
      BY SumWithout
    <3>3. Sum(f, T \ {x}) <= Sum(g, T \ {x})
      BY <1>1
    <3>4. Sum(f, T \ {x}) \in Int /\ Sum(g, T \ {x}) \in Int
      <4>1. T \ {x} \in SUBSET S
        OBVIOUS
      <4> QED
        BY <4>1, SumIsInt
    <3>5. f[x] \in Int /\ g[x] \in Int /\ f[x] <= g[x]
      OBVIOUS
    <3> HIDE DEF Sum
    <3>6. Sum(f, T) <= Sum(g, T)
      BY <3>2, <3>3, <3>4, <3>5
    <3> QED
      BY <3>6
  <2> QED
    BY <2>1, <2>2
<1> HIDE DEF good
<1>2. \A T \in SUBSET S : T \in good
  BY <1>1, SubsetInduction
<1> QED
  BY <1>2 DEF good

\* Equal values have equal totals.
LEMMA SumEqual ==
    ASSUME NEW f, NEW g, NEW S, IsFiniteSet(S),
           \A x \in S : f[x] \in Int /\ f[x] = g[x]
    PROVE  SumFunctionOnSet(f, S) = SumFunctionOnSet(g, S)
<1>1. \A T \in SUBSET S : /\ SumFunctionOnSet(f, T) <= SumFunctionOnSet(g, T)
                          /\ SumFunctionOnSet(g, T) <= SumFunctionOnSet(f, T)
  BY SumMonotone
<1>2. SumFunctionOnSet(f, S) \in Int /\ SumFunctionOnSet(g, S) \in Int
  BY SumIsInt
<1> QED
  BY <1>1, <1>2

\* A total changes by what one of its values changes.
LEMMA SumOfOneChange ==
    ASSUME NEW f, NEW g, NEW S, IsFiniteSet(S), NEW x \in S,
           \A y \in S : f[y] \in Int /\ g[y] \in Int,
           \A y \in S \ {x} : f[y] = g[y]
    PROVE  SumFunctionOnSet(g, S) = SumFunctionOnSet(f, S) + g[x] - f[x]
<1>1. /\ SumFunctionOnSet(f, S) = f[x] + SumFunctionOnSet(f, S \ {x})
      /\ SumFunctionOnSet(g, S) = g[x] + SumFunctionOnSet(g, S \ {x})
  BY SumWithout
<1>2. SumFunctionOnSet(f, S \ {x}) = SumFunctionOnSet(g, S \ {x})
  BY SumEqual, FS_Subset
<1>3. SumFunctionOnSet(f, S \ {x}) \in Int
  BY SumIsInt
<1> QED
  BY <1>1, <1>2, <1>3

\* The total of a sum is the sum of the totals.
LEMMA SumOfSums ==
    ASSUME NEW f, NEW g, NEW h, NEW S, IsFiniteSet(S),
           \A x \in S : f[x] \in Int /\ g[x] \in Int /\ h[x] = f[x] + g[x]
    PROVE  SumFunctionOnSet(h, S) = SumFunctionOnSet(f, S) + SumFunctionOnSet(g, S)
<1> DEFINE Sum(k, T) == SumFunctionOnSet(k, T)
           good == {T \in SUBSET S : Sum(h, T) = Sum(f, T) + Sum(g, T)}
<1>1. ASSUME NEW T \in SUBSET S, \A x \in T : T \ {x} \in good
      PROVE  T \in good
  <2>1. CASE T = {}
    BY <2>1, SumOfNone
  <2>2. CASE T # {}
    <3>1. PICK x \in T : TRUE
      BY <2>2
    <3>2. /\ Sum(f, T) = f[x] + Sum(f, T \ {x}) /\ Sum(g, T) = g[x] + Sum(g, T \ {x})
          /\ Sum(h, T) = h[x] + Sum(h, T \ {x})
      BY SumWithout
    <3>3. Sum(h, T \ {x}) = Sum(f, T \ {x}) + Sum(g, T \ {x})
      BY <1>1
    <3>4. Sum(f, T \ {x}) \in Int /\ Sum(g, T \ {x}) \in Int
      <4>1. T \ {x} \in SUBSET S
        OBVIOUS
      <4> QED
        BY <4>1, SumIsInt
    <3>5. f[x] \in Int /\ g[x] \in Int /\ h[x] = f[x] + g[x]
      OBVIOUS
    <3> HIDE DEF Sum
    <3>6. Sum(h, T) = Sum(f, T) + Sum(g, T)
      BY <3>2, <3>3, <3>4, <3>5
    <3> QED
      BY <3>6
  <2> QED
    BY <2>1, <2>2
<1> HIDE DEF good
<1>2. \A T \in SUBSET S : T \in good
  BY <1>1, SubsetInduction
<1> QED
  BY <1>2 DEF good

\* Values that are zero add nothing.
LEMMA SumOfPart ==
    ASSUME NEW f, NEW g, NEW S, NEW A, IsFiniteSet(S), A \subseteq S,
           \A x \in S : g[x] \in Int /\ g[x] = IF x \in A THEN f[x] ELSE 0
    PROVE  SumFunctionOnSet(g, S) = SumFunctionOnSet(f, A)
<1> DEFINE Sum(k, T) == SumFunctionOnSet(k, T)
           good == {T \in SUBSET S : Sum(g, T) = Sum(f, T \cap A)}
<1>1. ASSUME NEW T \in SUBSET S, \A x \in T : T \ {x} \in good
      PROVE  T \in good
  <2>1. CASE T = {}
    BY <2>1, SumOfNone
  <2>2. CASE T # {}
    <3>1. PICK x \in T : TRUE
      BY <2>2
    <3>2. Sum(g, T) = g[x] + Sum(g, T \ {x})
      BY SumWithout
    <3>3. Sum(g, T \ {x}) = Sum(f, (T \ {x}) \cap A)
      BY <1>1
    <3>4. Sum(g, T \ {x}) \in Int
      <4>1. T \ {x} \in SUBSET S
        OBVIOUS
      <4> QED
        BY <4>1, SumIsInt
    <3>5. CASE x \in A
      <4>1. IsFiniteSet(A) /\ \A y \in A : f[y] \in Int
        BY FS_Subset
      <4>2. Sum(f, T \cap A) = f[x] + Sum(f, (T \cap A) \ {x})
        BY <3>5, <4>1, SumWithout
      <4>3. Sum(f, (T \cap A) \ {x}) = Sum(f, (T \ {x}) \cap A)
        <5>1. (T \cap A) \ {x} = (T \ {x}) \cap A
          OBVIOUS
        <5> QED
          BY <5>1, Zenon
      <4>4. g[x] = f[x]
        BY <3>5
      <4> HIDE DEF Sum
      <4>5. Sum(g, T) = Sum(f, T \cap A)
        BY <3>2, <3>3, <4>2, <4>3, <4>4
      <4> QED
        BY <4>5
    <3>6. CASE x \notin A
      <4>1. Sum(f, T \cap A) = Sum(f, (T \ {x}) \cap A)
        <5>1. T \cap A = (T \ {x}) \cap A
          BY <3>6
        <5> QED
          BY <5>1, Zenon
      <4>2. g[x] = 0
        BY <3>6
      <4> HIDE DEF Sum
      <4>3. Sum(g, T) = Sum(f, T \cap A)
        BY <3>2, <3>3, <3>4, <4>1, <4>2
      <4> QED
        BY <4>3
    <3> QED
      BY <3>5, <3>6
  <2> QED
    BY <2>1, <2>2
<1>2. S \in good
  <2> HIDE DEF good
  <2> QED
    BY <1>1, SubsetInduction
<1>3. S \cap A = A
  OBVIOUS
<1> QED
  BY <1>2, <1>3

--------------------------------------------------------------------------------
\* Leases.

\* The maximum and the minimum of a few numbers are the ones expected.
LEMMA MaxOfTwo ==
    ASSUME NEW a \in Nat, NEW b \in Nat
    PROVE  Max({a, b}) = IF a >= b THEN a ELSE b
<1> DEFINE m == IF a >= b THEN a ELSE b
<1>1. m \in {a, b} /\ \A y \in {a, b} : m >= y
  OBVIOUS
<1>2. \A x \in {a, b} : (\A y \in {a, b} : x >= y) => x = m
  OBVIOUS
<1> QED
  BY <1>1, <1>2 DEF Max

LEMMA MinOfTwo ==
    ASSUME NEW a \in Nat, NEW b \in Nat
    PROVE  Min({a, b}) = IF a <= b THEN a ELSE b
<1> DEFINE m == IF a <= b THEN a ELSE b
<1>1. m \in {a, b} /\ \A y \in {a, b} : m <= y
  OBVIOUS
<1>2. \A x \in {a, b} : (\A y \in {a, b} : x <= y) => x = m
  OBVIOUS
<1> QED
  BY <1>1, <1>2 DEF Min

LEMMA MaxOfThree ==
    ASSUME NEW a \in Nat, NEW b \in Nat, NEW c \in Nat
    PROVE  /\ Max({a, b, c}) \in {a, b, c}
           /\ Max({a, b, c}) >= a /\ Max({a, b, c}) >= b /\ Max({a, b, c}) >= c
<1>1. \E x \in {a, b, c} : \A y \in {a, b, c} : x >= y
  OBVIOUS
<1> QED
  BY <1>1 DEF Max

\* What a lease is resized to is a lease.
LEMMA TargetIsALease ==
    ASSUME NEW current \in Lease, NEW r \in Event
    PROVE  /\ Target(current, r) \in Lease
           /\ Target(current, r).done <= Target(current, r).media
<1> DEFINE done == Max({current.done, r.down})
<1>1. done \in 0..MaxFile
  BY MaxOfTwo, StorageAssumption DEF Lease, Event
<1>2. Max({r.media, done}) \in 1..MaxFile /\ done <= Max({r.media, done})
  <2>1. r.media \in Nat /\ r.media \in 1..MaxFile /\ done \in Nat
    BY <1>1, StorageAssumption DEF Event
  <2> HIDE DEF done
  <2> QED
    BY <2>1, <1>1, MaxOfTwo, StorageAssumption
<1>3. /\ Max({current.media, r.media, done}) \in 1..MaxFile
      /\ done <= Max({current.media, r.media, done})
  <2>1. /\ current.media \in Nat /\ current.media \in 1..MaxFile
        /\ r.media \in Nat /\ r.media \in 1..MaxFile /\ done \in Nat
    BY <1>1, StorageAssumption DEF Event, Lease
  <2> HIDE DEF done
  <2> QED
    BY <2>1, <1>1, MaxOfThree, StorageAssumption
<1>4. Target(current, r) = [done  |-> done,
                            media |-> IF r.exact THEN Max({r.media, done})
                                      ELSE Max({current.media, r.media, done})]
  BY DEF Target
<1> HIDE DEF done
<1> QED
  BY <1>1, <1>2, <1>3, <1>4 DEF Lease

\* What leases and files exceed each other by is a number.
LEMMA ExcessIsNat ==
    ASSUME NEW l \in Lease, NEW n \in 0..MaxFile, NEW m \in Lease
    PROVE  /\ Excess(l.done, n) \in Nat
           /\ Excess(n, l.media) \in Nat
           /\ Excess(l.media, m.media) \in Nat
<1>1. l.done \in Nat /\ l.media \in Nat /\ m.media \in Nat /\ n \in Nat
  BY StorageAssumption DEF Lease
<1> QED
  BY <1>1 DEF Excess

\* None and Refused are neither leases nor events.
LEMMA LeasesAreRecords == None \notin Lease /\ {None, Refused} \cap Event = {}
<1>1. Lease \subseteq [media : Nat, done : Nat]
  BY StorageAssumption DEF Lease
<1>2. Event \subseteq [down : Nat, media : Nat, exact : BOOLEAN]
  BY StorageAssumption DEF Event
<1> QED
  BY <1>1, <1>2, NoneAssumption

\* The largest lease is a bound, and some lease is that large.
LEMMA LargestOf ==
    ASSUME NEW ls \in [Jobs -> Lease \cup {None}]
    PROVE  /\ Largest(ls) \in Nat
           /\ \A j \in Jobs : ls[j] # None => ls[j].media <= Largest(ls)
           /\ Largest(ls) = 0 \/ \E j \in Jobs : ls[j] # None /\ Largest(ls) = ls[j].media
<1>1. CASE Active(ls) = {}
  BY <1>1 DEF Largest, Active
<1>2. CASE Active(ls) # {}
  <2> DEFINE good == {T \in SUBSET Active(ls) :
                         T = {} \/ \E m \in T : \A k \in T : ls[k].media <= ls[m].media}
  <2>1. \A k \in Active(ls) : k \in Jobs /\ ls[k].media \in Nat
    BY StorageAssumption DEF Active, Lease
  <2>2. IsFiniteSet(Active(ls))
    BY StorageAssumption, FS_Subset DEF Active
  <2>3. ASSUME NEW T \in SUBSET Active(ls), \A x \in T : T \ {x} \in good
        PROVE  T \in good
    <3>1. CASE T = {}
      BY <3>1
    <3>2. CASE T # {}
      <4>1. PICK x \in T : TRUE
        BY <3>2
      <4>2. CASE T \ {x} = {}
        <5>1. \A k \in T : k = x
          BY <4>1, <4>2
        <5>2. ls[x].media <= ls[x].media
          BY <2>1
        <5> QED
          BY <4>1, <5>1, <5>2
      <4>3. CASE T \ {x} # {}
        <5>1. PICK m \in T \ {x} : \A k \in T \ {x} : ls[k].media <= ls[m].media
          BY <2>3, <4>3
        <5>2. \A k \in T : ls[k].media \in Nat
          BY <2>1
        <5>3. CASE ls[x].media <= ls[m].media
          BY <5>1, <5>3
        <5>4. CASE ls[m].media <= ls[x].media
          <6>1. \A k \in T : ls[k].media <= ls[x].media
            BY <5>1, <5>2, <5>4
          <6> QED
            BY <4>1, <6>1
        <5> QED
          BY <5>1, <5>2, <5>3, <5>4
      <4> QED
        BY <4>2, <4>3
    <3> QED
      BY <3>1, <3>2
  <2>4. Active(ls) \in good
    <3> HIDE DEF good
    <3>1. \A T \in SUBSET Active(ls) : T \in good
      BY <2>2, <2>3, SubsetInduction
    <3> QED
      BY <3>1
  <2>5. PICK m \in Active(ls) : \A k \in Active(ls) : ls[k].media <= ls[m].media
    BY <1>2, <2>4
  <2> DEFINE sizes == {ls[k].media : k \in Active(ls)}
  <2>6. ls[m].media \in sizes /\ \A y \in sizes : ls[m].media >= y
    BY <2>1, <2>5
  <2>7. Max(sizes) \in sizes /\ \A y \in sizes : Max(sizes) >= y
    BY <2>6 DEF Max
  <2>8. Largest(ls) = Max(sizes)
    BY <1>2 DEF Largest
  <2>9. Largest(ls) \in sizes /\ \A y \in sizes : Largest(ls) >= y
    <3> HIDE DEF sizes
    <3> QED
      BY <2>7, <2>8
  <2>10. PICK k \in Active(ls) : Largest(ls) = ls[k].media
    BY <2>9
  <2>11. Largest(ls) \in Nat
    BY <2>1, <2>10
  <2>12. \A j \in Jobs : ls[j] # None => ls[j].media <= Largest(ls)
    BY <2>1, <2>9, <2>11 DEF Active
  <2> QED
    BY <2>10, <2>11, <2>12 DEF Active
<1> QED
  BY <1>1, <1>2

--------------------------------------------------------------------------------
\* Types.

\* A job's medium is within the largest file.
LEMMA MediumInRange ==
    ASSUME TypeOK, NEW j \in Jobs
    PROVE  Medium(j) \in 0..MaxFile
BY StorageAssumption DEF TypeOK, Medium

\* Nothing is reserved, reported or written to begin with.
LEMMA InitTypeOK == Init => TypeOK
<1>1. 0 \in 0..MaxFile
  BY StorageAssumption
<1> QED
  BY <1>1, StorageAssumption DEF Init, TypeOK, Stages, Running, Finalizing

\* The steps of the manager: a lease is given, resized or taken back.
LEMMA ReservationsKeepTypes ==
    ASSUME TypeOK, NEW j \in Jobs, Reservations(j)
    PROVE  TypeOK'
<1> USE LeasesAreRecords, StorageAssumption DEF settings, files
<1>1. CASE TryReserve(j)
  <2> DEFINE new == [media |-> Initial, done |-> 0]
             ls == [leases EXCEPT ![j] = new]
  <2>1. new \in Lease /\ new.done <= new.media
    BY DEF Lease
  <2>2. ls \in [Jobs -> Lease \cup {None}]
    BY <2>1 DEF TypeOK
  <2>3. missed' \in [Jobs -> Nat]
    <3> HIDE DEF ls, new
    <3>1. \A k \in Jobs : ls[k] # None => Excess(ls[k].done, got[k]) \in Nat
      BY <2>2, ExcessIsNat DEF TypeOK
    <3> USE DEF ls, new
    <3> QED
      BY <1>1, <3>1 DEF TryReserve, Looked
  <2>4. leases' = ls /\ stage' = [stage EXCEPT ![j] = "preparing"] /\ stage[j] = "queued"
    BY <1>1 DEF TryReserve
  <2> HIDE DEF ls, new
  <2> QED
    BY <1>1, <2>1, <2>2, <2>3, <2>4 DEF TryReserve, TypeOK, Stages, Running, Finalizing, ls
<1>2. CASE Release(j)
  <2>1. Excess(Medium(j), leases[j].media) \in Nat
    BY <1>2, MediumInRange, ExcessIsNat DEF Release, TypeOK
  <2>2. missed' \in [Jobs -> Nat]
    BY <1>2, <2>1 DEF Release, TypeOK
  <2> QED
    BY <1>2, <2>2 DEF Release, TypeOK, Stages, Running, Finalizing
<1>3. CASE Apply(j)
  <2> DEFINE new == Target(leases[j], report[j])
             ls == [leases EXCEPT ![j] = new]
  <2>1. leases[j] \in Lease /\ report[j] \in Event
    BY <1>3 DEF Apply, TypeOK
  <2>2. new \in Lease /\ new.done <= new.media
    BY <2>1, TargetIsALease
  <2>3. ls \in [Jobs -> Lease \cup {None}] /\ ls[j] = new
    BY <2>2 DEF TypeOK
  <2>4. Excess(new.media, leases[j].media) \in Nat
    <3> HIDE DEF new
    <3> QED
      BY <2>1, <2>2, ExcessIsNat DEF TypeOK
  <2>5. \A k \in Jobs : ls[k] # None => Excess(ls[k].done, got[k]) \in Nat
    <3> HIDE DEF ls, new
    <3> QED
      BY <2>3, ExcessIsNat DEF TypeOK
  <2>6. \/ leases' = ls /\ report' = [report EXCEPT ![j] = None]
        \/ leases' = leases /\ report' = [report EXCEPT ![j] = Refused]
    BY <1>3 DEF Apply
  <2>7. missed' \in [Jobs -> Nat]
    <3>1. Excess(Largest(ls), Largest(leases)) \in Nat
      <4>1. Largest(ls) \in Nat /\ Largest(leases) \in Nat
        BY <2>3, LargestOf DEF TypeOK
      <4> QED
        BY <4>1 DEF Excess
    <3>2. \/ missed' = [missed EXCEPT ![j] = @ + Excess(new.media, leases[j].media)
                                              + 2 * Excess(Largest(ls), Largest(leases))]
          \/ missed' = [k \in Jobs |-> IF ls[k] # None /\ stage[k] = "fetching"
                                       THEN Excess(ls[k].done, got[k]) ELSE 0]
          \/ missed' = missed
      BY <1>3, <2>3 DEF Apply, Looked
    <3> HIDE DEF ls, new
    <3> QED
      BY <2>4, <2>5, <3>1, <3>2 DEF TypeOK
  <2>8. UNCHANGED <<settings, stage, files, lock>>
    BY <1>3 DEF Apply
  <2>9. leases' \in [Jobs -> Lease \cup {None}] /\ report' \in [Jobs -> Event \cup {None, Refused}]
    BY <2>3, <2>6 DEF TypeOK
  <2>10. \A k \in Jobs : /\ leases'[k] # None => leases'[k].done <= leases'[k].media
                         /\ leases'[k] = None <=> leases[k] = None
    BY <2>1, <2>2, <2>3, <2>6 DEF TypeOK
  <2> HIDE DEF ls, new
  <2> QED
    BY <2>7, <2>8, <2>9, <2>10 DEF TypeOK
<1> QED
  BY <1>1, <1>2, <1>3 DEF Reservations

\* What a report counts as downloaded is within the largest file.
LEMMA ArrivedIsCounted ==
    ASSUME TypeOK, NEW j \in Jobs, NEW down \in Arrived(j)
    PROVE  down \in 0..MaxFile
<1>1. got[j] \in Nat /\ held[j] \in Nat /\ got[j] + held[j] <= MaxFile /\ got[j] <= MaxFile
  BY StorageAssumption DEF TypeOK
<1>2. got[j] + held[j] + Padding \in Nat /\ MaxFile \in Nat
  BY <1>1, StorageAssumption
<1>3. Min({got[j] + held[j] + Padding, MaxFile}) <= MaxFile
      /\ Min({got[j] + held[j] + Padding, MaxFile}) \in Nat
  BY <1>2, MinOfTwo
<1> QED
  BY <1>1, <1>2, <1>3 DEF Arrived

\* The steps of a transfer: bytes arrive, are committed, discarded and reported.
LEMMA TransferKeepsTypes ==
    ASSUME TypeOK, NEW j \in Jobs, Transfer(j)
    PROVE  TypeOK'
<1> USE LeasesAreRecords, StorageAssumption DEF settings, budget, Goes
<1>1. CASE Prepare(j)
  BY <1>1 DEF Prepare, TypeOK, Stages, Running, Finalizing
<1>2. CASE Write(j)
  <2>1. got[j] + 1 \in 0..MaxFile /\ got[j] + 1 <= size[j] /\ kept[j] <= got[j] + 1
    BY <1>2 DEF Write, TypeOK
  <2> QED
    BY <1>2, <2>1 DEF Write, TypeOK
<1>3. CASE Commit(j)
  BY <1>3 DEF Commit, TypeOK
<1>4. CASE Discard(j)
  BY <1>4 DEF Discard, TypeOK
<1>5. CASE Report(j)
  <2>1. PICK down \in Arrived(j) :
           \E media \in {Min({down + Initial, MaxFile})} \cup Max({down, 1})..MaxFile :
              report' = [report EXCEPT ![j] =
                            [down |-> down, media |-> media, exact |-> FALSE]]
    BY <1>5 DEF Report
  <2>2. PICK media \in {Min({down + Initial, MaxFile})} \cup Max({down, 1})..MaxFile :
           report' = [report EXCEPT ![j] = [down |-> down, media |-> media, exact |-> FALSE]]
    BY <2>1
  <2>3. down \in Nat /\ down \in 0..MaxFile /\ down + Initial \in Nat
    BY <2>1, ArrivedIsCounted
  <2>4. Min({down + Initial, MaxFile}) \in 1..MaxFile /\ Max({down, 1}) \in Nat \ {0}
    BY <2>3, MinOfTwo, MaxOfTwo
  <2>5. media \in 1..MaxFile
    BY <2>2, <2>4
  <2>6. [down |-> down, media |-> media, exact |-> FALSE] \in Event
    BY <2>3, <2>5 DEF Event
  <2>7. report' \in [Jobs -> Event \cup {None, Refused}]
    BY <2>2, <2>6 DEF TypeOK
  <2> QED
    BY <1>5, <2>7 DEF Report, TypeOK, files
<1>7. CASE Buffer(j)
  BY <1>7 DEF Buffer, TypeOK
<1>8. CASE Decrypt(j)
  <2>1. got[j] + 1 \in 0..MaxFile /\ got[j] + 1 <= size[j] /\ kept[j] <= got[j] + 1
    BY <1>8 DEF Decrypt, TypeOK
  <2> QED
    BY <1>8, <2>1 DEF Decrypt, TypeOK
<1>6. CASE Complete(j)
  <2>1. [down |-> size[j], media |-> size[j], exact |-> TRUE] \in Event
    BY DEF TypeOK, Event
  <2>2. report' \in [Jobs -> Event \cup {None, Refused}]
    BY <1>6, <2>1 DEF Complete, TypeOK
  <2> QED
    BY <1>6, <2>2 DEF Complete, TypeOK, Stages, Running, Finalizing, files
<1> QED
  BY <1>1, <1>2, <1>3, <1>4, <1>5, <1>6, <1>7, <1>8 DEF Transfer

\* The steps of a finalization.
LEMMA PublicationKeepsTypes ==
    ASSUME TypeOK, NEW j \in Jobs, Publication(j)
    PROVE  TypeOK'
<1> USE StorageAssumption DEF settings, budget, Goes, Copies, Transport, InStaging, InLibrary
<1>1. CASE TakeLock(j)
  BY <1>1 DEF TakeLock, TypeOK, Stages, Running, Finalizing
<1>2. CASE Assemble(j)
  BY <1>2 DEF Assemble, TypeOK, Stages, Running, Finalizing
<1>3. CASE Remux(j)
  BY <1>3 DEF Remux, TypeOK, Stages, Running, Finalizing
<1>4. CASE StartArchive(j)
  BY <1>4 DEF StartArchive, TypeOK, Stages, Running, Finalizing
<1>5. CASE Publish(j)
  BY <1>5 DEF Publish, TypeOK, Stages, Running, Finalizing
<1>6. CASE DiscardStaging(j)
  BY <1>6 DEF DiscardStaging, TypeOK, Stages, Running, Finalizing
<1> QED
  BY <1>1, <1>2, <1>3, <1>4, <1>5, <1>6 DEF Publication

\* An interruption leaves some of the job's copies, and the lock is free if it was its own.
LEMMA StopsKeepTypes ==
    ASSUME TypeOK, NEW j \in Jobs, Stop(j) \/ Remove(j)
    PROVE  TypeOK'
<1> USE StorageAssumption DEF settings, budget, Goes, InStaging, Transport, InLibrary
<1>1. CASE Stop(j)
  <2>1. Leftovers(j) \subseteq SUBSET (InStaging \cup InLibrary)
    BY DEF Leftovers, TypeOK
  <2> QED
    BY <1>1, <2>1 DEF Stop, TypeOK, Stages, Running, Finalizing
<1>2. CASE Remove(j)
  BY <1>2 DEF Remove, TypeOK, Stages, Running, Finalizing
<1> QED
  BY <1>1, <1>2

\* A crash forgets the leases and requeues what ran.
LEMMA CrashKeepsTypes ==
    ASSUME TypeOK, Crash
    PROVE  TypeOK'
<1> USE StorageAssumption DEF settings
<1>1. missed' \in [Jobs -> Nat]
  <2>1. \A k \in Jobs : leases[k] # None => Excess(Medium(k), leases[k].media) \in Nat
    BY MediumInRange, ExcessIsNat DEF TypeOK
  <2> QED
    BY <2>1 DEF Crash, TypeOK
<1>2. copies' \in [Jobs -> SUBSET (InStaging \cup InLibrary)]
  <2>1. ASSUME lock \in Jobs
        PROVE  Leftovers(lock) \subseteq SUBSET (InStaging \cup InLibrary)
    BY <2>1 DEF Leftovers, TypeOK, InStaging, InLibrary
  <2> QED
    BY <2>1 DEF Crash, TypeOK
<1> QED
  BY <1>1, <1>2 DEF Crash, TypeOK, Stages, Running, Finalizing

\* Every step keeps the types.
LEMMA StepsKeepTypes == TypeOK /\ [Next]_vars => TypeOK'
<1> SUFFICES ASSUME TypeOK, [Next]_vars PROVE TypeOK'
  OBVIOUS
<1>1. CASE \E j \in Jobs : Reservations(j) \/ Transfer(j) \/ Publication(j)
  BY <1>1, ReservationsKeepTypes, TransferKeepsTypes, PublicationKeepsTypes
<1>2. CASE \E j \in Jobs : Stop(j) \/ Remove(j)
  BY <1>2, StopsKeepTypes
<1>3. CASE Crash
  BY <1>3, CrashKeepsTypes
<1>4. CASE UNCHANGED vars
  BY <1>4 DEF vars, settings, budget, files, TypeOK
<1> QED
  BY <1>1, <1>2, <1>3, <1>4 DEF Next
\* Every variable of the budget keeps its type; a lease is held exactly while its job runs
\* or its end is recorded, and the finalizing job is the holder of the lock.
THEOREM StorageTypeCorrect == Spec => []TypeOK
BY InitTypeOK, StepsKeepTypes, PTL DEF Spec



--------------------------------------------------------------------------------
\* Copies and accounts.

\* The space of the members that a set shares with another, of n bytes each.
Space(n, c, X) == n * Cardinality(c \cap X)

\* One more member takes n bytes more, if it is shared.
LEMMA OneMoreCopy ==
    ASSUME NEW c, NEW X, IsFiniteSet(X), NEW x, x \notin X, NEW n \in Nat
    PROVE  /\ IsFiniteSet(X \cup {x})
           /\ Space(n, c, X) \in Nat
           /\ Space(n, c, X \cup {x}) = Space(n, c, X) + (IF x \in c THEN n ELSE 0)
<1>1. IsFiniteSet(X \cup {x}) /\ IsFiniteSet(c \cap X) /\ Cardinality(c \cap X) \in Nat
  BY FS_AddElement, FS_Subset, FS_CardinalityType
<1>2. CASE x \in c
  <2>1. c \cap (X \cup {x}) = (c \cap X) \cup {x}
    BY <1>2
  <2>2. Cardinality(c \cap (X \cup {x})) = Cardinality((c \cap X) \cup {x})
    BY <2>1, Zenon
  <2>3. Cardinality((c \cap X) \cup {x}) = Cardinality(c \cap X) + 1
    BY <1>1, FS_AddElement
  <2>4. n * (Cardinality(c \cap X) + 1) = n * Cardinality(c \cap X) + n
    BY <1>1
  <2> QED
    BY <1>1, <1>2, <2>2, <2>3, <2>4 DEF Space
<1>3. CASE x \notin c
  <2>1. c \cap (X \cup {x}) = c \cap X
    BY <1>3
  <2>2. Cardinality(c \cap (X \cup {x})) = Cardinality(c \cap X)
    BY <2>1, Zenon
  <2> QED
    BY <1>1, <1>3, <2>2 DEF Space
<1> QED
  BY <1>2, <1>3

\* A single member takes n bytes, if it is shared.
LEMMA OneCopy ==
    ASSUME NEW c, NEW x, NEW n \in Nat
    PROVE  Space(n, c, {x}) = IF x \in c THEN n ELSE 0
<1>1. IsFiniteSet(c \cap {}) /\ Cardinality(c \cap {}) = 0
  <2>1. c \cap {} = {}
    OBVIOUS
  <2> QED
    BY <2>1, FS_EmptySet
<1>2. Space(n, c, {}) = 0
  BY <1>1 DEF Space
<1>3. Space(n, c, {} \cup {x}) = Space(n, c, {}) + (IF x \in c THEN n ELSE 0)
  BY FS_EmptySet, OneMoreCopy
<1>4. Space(n, c, {} \cup {x}) = Space(n, c, {x})
  <2>1. {} \cup {x} = {x}
    OBVIOUS
  <2> QED
    BY <2>1, Zenon
<1> QED
  BY <1>2, <1>3, <1>4

\* The space of a job's copies, one by one.
Has(j, c) == IF c \in copies[j] THEN size[j] ELSE 0

CopiesAddUp == \A j \in Jobs :
    /\ got[j] \in Nat /\ size[j] \in Nat
    /\ size[j] * Cardinality(copies[j] \cap InStaging) =
           Has(j, "ts") + Has(j, "mp4") + Has(j, "ts.part") + Has(j, "mp4.part")
    /\ Archived(j) = Has(j, "part") + Has(j, "video")

\* What Staged and Archived count is the space of the copies, one by one.
LEMMA CopiesTake == TypeOK => CopiesAddUp
<1> SUFFICES ASSUME TypeOK, NEW j \in Jobs
             PROVE  /\ got[j] \in Nat /\ size[j] \in Nat
                    /\ size[j] * Cardinality(copies[j] \cap InStaging) =
                           Has(j, "ts") + Has(j, "mp4") + Has(j, "ts.part") + Has(j, "mp4.part")
                    /\ Archived(j) = Has(j, "part") + Has(j, "video")
  BY DEF CopiesAddUp
<1> DEFINE n == size[j]
           c == copies[j]
           Take(X) == Space(n, c, X)
           One == {"ts"}      Two == One \cup {"mp4"}
           Part == {"part"}   Both == Part \cup {"video"}
           Three == Two \cup {"ts.part"}
           Four == Three \cup {"mp4.part"}
<1>1. got[j] \in Nat /\ n \in Nat
  BY StorageAssumption DEF TypeOK
<1> HIDE DEF n, c
<1>2. /\ "mp4" \notin One /\ "ts.part" \notin Two /\ "mp4.part" \notin Three
      /\ "video" \notin Part /\ InStaging = Four /\ InLibrary = Both
  BY DEF InStaging, Transport, InLibrary
<1>3. /\ Take(One) = IF "ts" \in c THEN n ELSE 0
      /\ Take(Part) = IF "part" \in c THEN n ELSE 0
  BY <1>1, OneCopy
<1>4. IsFiniteSet(One) /\ IsFiniteSet(Part)
  BY FS_Singleton
<1> HIDE DEF One, Part
<1>5. IsFiniteSet(Two) /\ Take(Two) = Take(One) + (IF "mp4" \in c THEN n ELSE 0)
  BY <1>1, <1>2, <1>4, OneMoreCopy
<1>6. Take(Both) = Take(Part) + (IF "video" \in c THEN n ELSE 0)
  BY <1>1, <1>2, <1>4, OneMoreCopy
<1> HIDE DEF Two
<1>7. IsFiniteSet(Three) /\ Take(Three) = Take(Two) + (IF "ts.part" \in c THEN n ELSE 0)
  BY <1>1, <1>2, <1>5, OneMoreCopy
<1> HIDE DEF Three
<1>8. Take(Four) = Take(Three) + (IF "mp4.part" \in c THEN n ELSE 0)
  BY <1>1, <1>2, <1>7, OneMoreCopy
<1>9. Take(InStaging) = Take(Four) /\ Take(InLibrary) = Take(Both)
  BY <1>2, Zenon
<1> HIDE DEF Take
<1>10. /\ Take(InStaging) = (IF "ts" \in c THEN n ELSE 0) + (IF "mp4" \in c THEN n ELSE 0)
              + (IF "ts.part" \in c THEN n ELSE 0) + (IF "mp4.part" \in c THEN n ELSE 0)
       /\ Take(InLibrary) = (IF "part" \in c THEN n ELSE 0) + (IF "video" \in c THEN n ELSE 0)
  BY <1>1, <1>3, <1>5, <1>6, <1>7, <1>8, <1>9
<1> QED
  BY <1>1, <1>10 DEF Take, n, c, Archived, Has, Space

\* The same in the next state, as of the facts that follow.
LEMMA CopiesTakeNext == TypeOK' => CopiesAddUp'
BY CopiesTake, PTL

\* What the parts of an account are.
Sized == \A j \in Jobs :
    /\ size[j] \in Nat /\ got[j] \in Nat /\ missed[j] \in Nat
    /\ leases[j] # None => leases[j].media \in Nat /\ leases[j].done \in Nat
    /\ Medium(j) \in Nat /\ Overdraft(j) \in Nat /\ Undone(j) \in Nat
    /\ \A c : Has(j, c) \in Nat
    /\ Archived(j) \in Nat
    /\ Made(j) \in Nat /\ Copied(j) \in Nat /\ Balance(j) \in Int

\* The parts of an account are numbers, and its balance is an integer.
LEMMA AccountsAreSized == TypeOK => Sized
<1> SUFFICES ASSUME TypeOK, NEW j \in Jobs
             PROVE  /\ size[j] \in Nat /\ got[j] \in Nat /\ missed[j] \in Nat
                    /\ leases[j] # None => leases[j].media \in Nat /\ leases[j].done \in Nat
                    /\ Medium(j) \in Nat /\ Overdraft(j) \in Nat /\ Undone(j) \in Nat
                    /\ \A c : Has(j, c) \in Nat
                    /\ Archived(j) \in Nat
                    /\ Made(j) \in Nat /\ Copied(j) \in Nat /\ Balance(j) \in Int
  BY DEF Sized
<1>1. size[j] \in Nat /\ got[j] \in Nat /\ missed[j] \in Nat
  BY StorageAssumption DEF TypeOK
<1>2. leases[j] # None => leases[j].media \in Nat /\ leases[j].done \in Nat
  BY StorageAssumption DEF TypeOK, Lease
<1>3. Medium(j) \in Nat
  BY <1>1 DEF Medium
<1>4. Overdraft(j) \in Nat /\ Undone(j) \in Nat
  BY <1>1, <1>2, <1>3 DEF Overdraft, Undone, Excess
<1>5. \A c : Has(j, c) \in Nat
  BY <1>1 DEF Has
<1>6. /\ size[j] * Cardinality(copies[j] \cap InStaging) \in Nat
      /\ Archived(j) \in Nat
  BY <1>5, CopiesTake DEF CopiesAddUp
<1>7. Min({Archived(j), got[j]}) \in Nat
  BY <1>1, <1>6, MinOfTwo
<1>8. Made(j) \in Nat
  BY <1>1, <1>6, <1>7 DEF Made
<1>9. Copied(j) \in Nat
  BY <1>6 DEF Copied
<1>10. Balance(j) \in Int
  BY <1>1, <1>4, <1>8, <1>9 DEF Balance
<1> QED
  BY <1>1, <1>2, <1>3, <1>4, <1>5, <1>6, <1>8, <1>9, <1>10

LEMMA AccountsAreSizedNext == TypeOK' => Sized'
BY AccountsAreSized, PTL

\* A job whose files, lease and stage a step leaves alone has the balance it had.
LEMMA Untouched ==
    ASSUME NEW j \in Jobs, UNCHANGED <<shared, size>>,
           leases'[j] = leases[j], stage'[j] = stage[j], got'[j] = got[j],
           copies'[j] = copies[j], missed'[j] = missed[j]
    PROVE  Balance(j)' = Balance(j)
<1>1. Medium(j)' = Medium(j)
  BY DEF Medium
<1>2. Archived(j)' = Archived(j)
  BY DEF Archived
<1>3. Overdraft(j)' = Overdraft(j) /\ Undone(j)' = Undone(j)
  BY <1>1 DEF Overdraft, Undone
<1>4. Copied(j)' = Copied(j) /\ Made(j)' = Made(j)
  BY <1>2 DEF Copied, Made
<1> QED
  BY <1>3, <1>4 DEF Balance

\* The budget is kept by a step that lowers no balance and raises no largest lease.
LEMMA NoBalanceFalls ==
    ASSUME TypeOK, TypeOK', Budgeted, Largest(leases') <= Largest(leases),
           \A k \in Jobs : Balance(k) <= Balance(k)'
    PROVE  Budgeted'
<1> DEFINE f == [k \in Jobs |-> Balance(k)]
           g == [k \in Jobs |-> Balance(k)']
<1>1. \A k \in Jobs : Balance(k) \in Int /\ Balance(k)' \in Int
  BY AccountsAreSized, AccountsAreSizedNext DEF Sized
<1>2. \A T \in SUBSET Jobs : SumFunctionOnSet(f, T) <= SumFunctionOnSet(g, T)
  <2>1. \A k \in Jobs : f[k] \in Int /\ g[k] \in Int /\ f[k] <= g[k]
    BY <1>1
  <2> HIDE DEF f, g
  <2> QED
    BY <2>1, SumMonotone, StorageAssumption
<1>3. SumFunctionOnSet(f, Jobs) \in Int /\ SumFunctionOnSet(g, Jobs) \in Int
  <2>1. \A k \in Jobs : f[k] \in Int /\ g[k] \in Int
    BY <1>1
  <2> HIDE DEF f, g
  <2> QED
    BY <2>1, SumIsInt, StorageAssumption
<1>4. SumFunction(f) = SumFunctionOnSet(f, Jobs) /\ SumFunction(g) = SumFunctionOnSet(g, Jobs)
  BY DEF SumFunction
<1>5. Largest(leases) \in Nat /\ Largest(leases') \in Nat
  BY LargestOf DEF TypeOK
<1>6. Capacity + SumFunction(f) >= MinFree + 2 * Largest(leases)
  BY DEF Budgeted
<1>7. Capacity + SumFunction(g) >= MinFree + 2 * Largest(leases')
  <2> HIDE DEF f, g
  <2> QED
    BY <1>2, <1>3, <1>4, <1>5, <1>6, StorageAssumption
<1> QED
  BY <1>7 DEF Budgeted

--------------------------------------------------------------------------------
\* The budget, step by step.

\* A transfer's balance does not depend on how much it has written.
TransfersBalance ==
    \A j \in Jobs : stage[j] \in Writing => Balance(j) = missed[j] - leases[j].media - Copied(j)

\* Bytes written under the lease move from what is undone to what is taken.
LEMMA TransfersAreBalanced == TypeOK => TransfersBalance
<1> SUFFICES ASSUME TypeOK, NEW j \in Jobs, stage[j] \in Writing
             PROVE  Balance(j) = missed[j] - leases[j].media - Copied(j)
  BY DEF TransfersBalance
<1>1. leases[j] # None /\ leases[j].media \in Nat /\ got[j] \in Nat
  BY StorageAssumption DEF TypeOK, Lease, Writing, Running
<1>2. Medium(j) = got[j] /\ Made(j) = 0
  BY DEF Medium, Made, Writing
<1>3. Overdraft(j) - Undone(j) = got[j] - leases[j].media
  BY <1>1, <1>2 DEF Overdraft, Undone, Excess
<1>4. /\ Overdraft(j) \in Nat /\ Undone(j) \in Nat /\ missed[j] \in Nat
      /\ got[j] \in Nat /\ Copied(j) \in Nat
  BY AccountsAreSized DEF Sized
<1> QED
  BY <1>1, <1>2, <1>3, <1>4 DEF Balance

LEMMA TransfersAreBalancedNext == TypeOK' => TransfersBalance'
BY TransfersAreBalanced, PTL

\* The space of a job's copies, and of what a job at rest has left of them.
CopiesCounted == \A j \in Jobs :
    /\ Copied(j) = Has(j, "ts") + Has(j, "mp4") + Has(j, "ts.part") + Has(j, "mp4.part")
                   + (IF shared THEN Has(j, "part") + Has(j, "video") ELSE 0)
    /\ stage[j] \in {"queued", "ended", "done"} =>
           Made(j) = Has(j, "ts") + Has(j, "mp4") + Has(j, "ts.part") + Has(j, "mp4.part")
                     + (IF ~shared THEN 0
                        ELSE IF Has(j, "part") + Has(j, "video") <= got[j]
                             THEN Has(j, "part") + Has(j, "video") ELSE got[j])

\* Copied and Made add up the same copies for a job at rest.
LEMMA CopiesAreCounted == TypeOK => CopiesCounted
<1> SUFFICES ASSUME TypeOK, NEW j \in Jobs
             PROVE  /\ Copied(j) = Has(j, "ts") + Has(j, "mp4") + Has(j, "ts.part")
                           + Has(j, "mp4.part")
                           + (IF shared THEN Has(j, "part") + Has(j, "video") ELSE 0)
                    /\ stage[j] \in {"queued", "ended", "done"} =>
                           Made(j) = Has(j, "ts") + Has(j, "mp4") + Has(j, "ts.part")
                             + Has(j, "mp4.part")
                             + (IF ~shared THEN 0
                                ELSE IF Has(j, "part") + Has(j, "video") <= got[j]
                                     THEN Has(j, "part") + Has(j, "video") ELSE got[j])
  BY DEF CopiesCounted
<1>1. /\ got[j] \in Nat /\ shared \in BOOLEAN /\ stage[j] \in Stages
      /\ \A c : Has(j, c) \in Nat
  BY AccountsAreSized DEF Sized, TypeOK
<1>2. /\ size[j] * Cardinality(copies[j] \cap InStaging) =
             Has(j, "ts") + Has(j, "mp4") + Has(j, "ts.part") + Has(j, "mp4.part")
      /\ Archived(j) = Has(j, "part") + Has(j, "video")
  BY CopiesTake DEF CopiesAddUp
<1>3. Min({Archived(j), got[j]}) = IF Archived(j) <= got[j] THEN Archived(j) ELSE got[j]
  BY <1>1, <1>2, MinOfTwo
<1>4. Copied(j) = Has(j, "ts") + Has(j, "mp4") + Has(j, "ts.part") + Has(j, "mp4.part")
                  + (IF shared THEN Has(j, "part") + Has(j, "video") ELSE 0)
  BY <1>2 DEF Copied
<1>5. ASSUME stage[j] \in {"queued", "ended", "done"}
      PROVE  Made(j) = size[j] * Cardinality(copies[j] \cap InStaging)
                       + (IF shared THEN Min({Archived(j), got[j]}) ELSE 0)
  BY <1>5 DEF Made, Writing
<1> QED
  BY <1>1, <1>2, <1>3, <1>4, <1>5

LEMMA CopiesAreCountedNext == TypeOK' => CopiesCounted'
BY CopiesAreCounted, PTL

\* The budget is kept by a step of one worker that does not lower the job's balance.
LEMMA WorkerKeepsBudget ==
    ASSUME TypeOK, TypeOK', Budgeted, NEW j \in Jobs,
           UNCHANGED <<shared, size, leases, missed>>,
           \A k \in Jobs \ {j} :
               stage'[k] = stage[k] /\ got'[k] = got[k] /\ copies'[k] = copies[k],
           Balance(j) <= Balance(j)'
    PROVE  Budgeted'
<1>1. \A k \in Jobs : Balance(k) <= Balance(k)'
  <2> SUFFICES ASSUME NEW k \in Jobs \ {j} PROVE Balance(k) <= Balance(k)'
    OBVIOUS
  <2>1. Balance(k)' = Balance(k)
    BY Untouched
  <2> QED
    BY <2>1, AccountsAreSized DEF Sized
<1>2. Largest(leases') <= Largest(leases)
  BY LargestOf DEF TypeOK
<1> QED
  BY <1>1, <1>2, NoBalanceFalls

\* A transfer writes what its lease is for, and what it discards it may write again.
LEMMA TransferKeepsBudget ==
    ASSUME TypeOK, TypeOK', Budgeted, NEW j \in Jobs, Transfer(j)
    PROVE  Budgeted'
<1> USE DEF settings, budget, files, Goes
<1>1. UNCHANGED <<shared, size, leases, missed, copies>>
  BY DEF Transfer, Prepare, Write, Buffer, Decrypt, Commit, Discard, Report, Complete
<1>2. \A k \in Jobs \ {j} : stage'[k] = stage[k] /\ got'[k] = got[k]
  BY DEF Transfer, Prepare, Write, Buffer, Decrypt, Commit, Discard, Report, Complete, TypeOK
<1>3. Balance(j) <= Balance(j)'
  <2>1. Copied(j)' = Copied(j) /\ Balance(j) \in Int
    BY <1>1, AccountsAreSized DEF Copied, Archived, Sized
  <2>2. stage[j] \in Writing
    BY DEF Transfer, Prepare, Write, Buffer, Decrypt, Commit, Discard, Report, Complete, Writing
  <2>3. CASE stage'[j] \in Writing
    BY <1>1, <2>1, <2>2, <2>3, TransfersAreBalanced, TransfersAreBalancedNext DEF TransfersBalance
  <2>4. CASE stage'[j] \notin Writing
    <3>1. Complete(j)
      BY <2>2, <2>4
         DEF Transfer, Prepare, Write, Buffer, Decrypt, Commit, Discard, Report, TypeOK, Writing
    <3>2. stage'[j] = "complete" /\ got'[j] = got[j]
      BY <3>1 DEF Complete, TypeOK
    <3>3. Made(j)' = 0 /\ Undone(j)' = 0 /\ Made(j) = 0
      BY <2>2, <3>2 DEF Made, Undone, Writing
    <3>4. Overdraft(j)' = Overdraft(j)
      BY <1>1, <2>2, <3>2 DEF Overdraft, Medium, Writing
    <3> QED
      BY <1>1, <2>1, <3>2, <3>3, <3>4, AccountsAreSized DEF Balance, Sized
  <2> QED
    BY <2>3, <2>4
<1> QED
  BY <1>1, <1>2, <1>3, WorkerKeepsBudget

\* Finalization takes no more than the two copies that it is counted for, and gives them
\* back: once it begins, what changes are the copies that are made and those that are there.
LEMMA FinalizationKeepsBudget ==
    ASSUME TypeOK, TypeOK', Placed, Budgeted, NEW j \in Jobs,
           UNCHANGED <<shared, size, leases, missed, got>>,
           stage[j] \notin Writing \cup {"done"}, stage'[j] \notin Writing \cup {"done"},
           \A k \in Jobs \ {j} : stage'[k] = stage[k] /\ copies'[k] = copies[k],
           Made(j) - Copied(j) <= Made(j)' - Copied(j)'
    PROVE  Budgeted'
<1>1. Undone(j) = 0 /\ Undone(j)' = 0
  BY DEF Undone
<1>2. Overdraft(j)' = Overdraft(j)
  BY DEF Overdraft, Medium
<1>3. Sized /\ Sized'
  BY AccountsAreSized, AccountsAreSizedNext
<1>4. Balance(j) <= Balance(j)'
  <2>1. /\ Made(j) \in Nat /\ Made(j)' \in Nat /\ Copied(j) \in Nat /\ Copied(j)' \in Nat
        /\ Overdraft(j) \in Nat /\ missed[j] \in Nat /\ got[j] \in Nat
    BY <1>3 DEF Sized
  <2>2. /\ Balance(j) = Overdraft(j) + missed[j] + Made(j) - 0 - got[j] - Copied(j)
        /\ Balance(j)' = Overdraft(j) + missed[j] + Made(j)' - 0 - got[j] - Copied(j)'
    BY <1>1, <1>2 DEF Balance
  <2> QED
    BY <2>1, <2>2
<1> QED
  BY <1>4, WorkerKeepsBudget

\* The steps of a finalization, from the lock to the discarded staging directory.
LEMMA PublicationKeepsBudget ==
    ASSUME TypeOK, TypeOK', Placed, Budgeted, NEW j \in Jobs, Publication(j)
    PROVE  Budgeted'
<1> USE DEF settings, budget, Goes, Copies, Transport
<1>1. UNCHANGED <<shared, size, leases, missed>>
  BY DEF Publication, TakeLock, Assemble, Remux, StartArchive, Publish, DiscardStaging
<1>2. \A k \in Jobs \ {j} : stage'[k] = stage[k] /\ got'[k] = got[k] /\ copies'[k] = copies[k]
  BY DEF Publication, TakeLock, Assemble, Remux, StartArchive, Publish, DiscardStaging, TypeOK
<1>3. /\ size[j] \in Nat /\ got[j] \in Nat /\ shared \in BOOLEAN
      /\ \A c : Has(j, c) \in Nat /\ Has(j, c)' \in Nat
  BY AccountsAreSized, AccountsAreSizedNext DEF Sized, TypeOK
<1>4. /\ Copied(j) = Has(j, "ts") + Has(j, "mp4") + Has(j, "ts.part") + Has(j, "mp4.part")
              + (IF shared THEN Has(j, "part") + Has(j, "video") ELSE 0)
      /\ Copied(j)' = Has(j, "ts")' + Has(j, "mp4")' + Has(j, "ts.part")' + Has(j, "mp4.part")'
              + (IF shared THEN Has(j, "part")' + Has(j, "video")' ELSE 0)
  BY <1>1, CopiesAreCounted, CopiesAreCountedNext DEF CopiesCounted
<1>5. CASE TakeLock(j)
  <2>1. /\ stage[j] = "complete" /\ stage'[j] = "assembling" /\ got' = got
        /\ \A c : c \in copies'[j] => c \in copies[j]
    BY <1>5 DEF TakeLock, TypeOK
  <2>2. \A c : Has(j, c)' <= Has(j, c)
    BY <1>1, <1>3, <2>1 DEF Has
  <2>3. Made(j) = 0 /\ Made(j)' = 0
    BY <2>1 DEF Made, Writing
  <2>4. Made(j) - Copied(j) <= Made(j)' - Copied(j)'
    BY <1>3, <1>4, <2>2, <2>3
  <2> QED
    BY <1>1, <1>2, <2>1, <2>4, FinalizationKeepsBudget DEF Writing
<1>6. CASE Assemble(j)
  <2>1. /\ stage[j] = "assembling" /\ stage'[j] = "remuxing" /\ got' = got
        /\ \A c : c \in copies'[j] => c \in copies[j] \/ c = "ts"
    BY <1>6 DEF Assemble, TypeOK
  <2>2. (\A c : c # "ts" => Has(j, c)' <= Has(j, c)) /\ Has(j, "ts")' <= size[j]
    BY <1>1, <1>3, <2>1 DEF Has
  <2>3. Made(j) = 0 /\ Made(j)' = size[j]
    BY <1>1, <2>1 DEF Made, Writing
  <2>4. Made(j) - Copied(j) <= Made(j)' - Copied(j)'
    BY <1>3, <1>4, <2>2, <2>3
  <2> QED
    BY <1>1, <1>2, <2>1, <2>4, FinalizationKeepsBudget DEF Writing
<1>7. CASE Remux(j)
  <2>1. /\ stage[j] = "remuxing" /\ stage'[j] = "remuxed" /\ got' = got
        /\ \A c : c \in copies'[j] => c \in copies[j] \/ c = "mp4"
    BY <1>7 DEF Remux, TypeOK
  <2>2. (\A c : c # "mp4" => Has(j, c)' <= Has(j, c)) /\ Has(j, "mp4")' <= size[j]
    BY <1>1, <1>3, <2>1 DEF Has
  <2>3. Made(j) = size[j] /\ Made(j)' = 2 * size[j]
    BY <1>1, <2>1 DEF Made, Writing
  <2>4. Made(j) - Copied(j) <= Made(j)' - Copied(j)'
    BY <1>3, <1>4, <2>2, <2>3
  <2> QED
    BY <1>1, <1>2, <2>1, <2>4, FinalizationKeepsBudget DEF Writing
<1>8. CASE StartArchive(j)
  <2>1. /\ stage[j] = "remuxed" /\ stage'[j] = "archiving" /\ got' = got
        /\ "ts" \in copies[j] /\ "ts" \notin copies'[j]
        /\ \A c : c \in copies'[j] => c \in copies[j] \/ c = "part"
    BY <1>8 DEF StartArchive, TypeOK, Placed
  <2>2. /\ \A c : c # "part" => Has(j, c)' <= Has(j, c)
        /\ Has(j, "part")' <= size[j] /\ Has(j, "ts") = size[j] /\ Has(j, "ts")' = 0
    BY <1>1, <1>3, <2>1 DEF Has
  <2>3. Made(j) = 2 * size[j] /\ Made(j)' = IF shared THEN 2 * size[j] ELSE size[j]
    BY <1>1, <2>1 DEF Made, Writing
  <2>4. Made(j) - Copied(j) <= Made(j)' - Copied(j)'
    BY <1>3, <1>4, <2>2, <2>3
  <2> QED
    BY <1>1, <1>2, <2>1, <2>4, FinalizationKeepsBudget DEF Writing
<1>9. CASE Publish(j)
  <2>1. /\ stage[j] = "archiving" /\ stage'[j] = "published" /\ got' = got
        /\ "part" \in copies[j] /\ "part" \notin copies'[j]
        /\ \A c : c \in copies'[j] => c \in copies[j] \/ c = "video"
    BY <1>9 DEF Publish, TypeOK, Placed
  <2>2. /\ \A c : c # "video" => Has(j, c)' <= Has(j, c)
        /\ Has(j, "video")' <= size[j] /\ Has(j, "part") = size[j] /\ Has(j, "part")' = 0
    BY <1>1, <1>3, <2>1 DEF Has
  <2>3. Made(j)' = Made(j) /\ Made(j) \in Nat
    BY <1>1, <1>3, <2>1 DEF Made, Writing
  <2>4. Made(j) - Copied(j) <= Made(j)' - Copied(j)'
    BY <1>3, <1>4, <2>2, <2>3
  <2> QED
    BY <1>1, <1>2, <2>1, <2>4, FinalizationKeepsBudget DEF Writing
<1>10. CASE DiscardStaging(j)
  <2>1. /\ stage[j] = "published" /\ stage'[j] = "done" /\ got[j] = size[j] /\ got'[j] = 0
        /\ "mp4" \in copies[j] /\ "video" \in copies[j] /\ copies'[j] = {"video"}
    BY <1>10 DEF DiscardStaging, TypeOK, Placed
  <2>2. /\ Has(j, "mp4") = size[j] /\ Has(j, "video") = size[j]
        /\ Has(j, "video")' = size[j] /\ Has(j, "part")' = 0
        /\ Has(j, "ts")' = 0 /\ Has(j, "mp4")' = 0
        /\ Has(j, "ts.part")' = 0 /\ Has(j, "mp4.part")' = 0
    BY <1>1, <1>3, <2>1 DEF Has
  <2>3. Made(j) = IF shared THEN 2 * size[j] ELSE size[j]
    BY <2>1 DEF Made, Writing
  <2>4. Made(j)' = 0
    BY <1>1, <1>3, <2>1, <2>2, CopiesAreCountedNext DEF CopiesCounted
  <2>5. Undone(j) = 0 /\ Undone(j)' = 0
    BY <2>1 DEF Undone, Writing
  <2>6. /\ Medium(j) = size[j] /\ Medium(j)' = IF shared THEN size[j] ELSE 0
        /\ leases[j] # None => leases[j].media \in Nat
    BY <1>1, <2>1, AccountsAreSized DEF Medium, Sized
  <2>7. /\ Overdraft(j) \in Nat /\ Overdraft(j)' \in Nat /\ Overdraft(j) <= size[j]
        /\ shared => Overdraft(j)' = Overdraft(j)
    BY <1>1, <1>3, <2>6 DEF Overdraft, Excess
  <2>8. missed[j] \in Nat
    BY DEF TypeOK
  <2>9. /\ Balance(j) = Overdraft(j) + missed[j] + Made(j) - 0 - size[j] - Copied(j)
        /\ Balance(j)' = Overdraft(j)' + missed[j] + 0 - 0 - 0 - Copied(j)'
    BY <1>1, <2>1, <2>4, <2>5 DEF Balance
  <2>10. Balance(j) <= Balance(j)'
    BY <1>3, <1>4, <2>2, <2>3, <2>7, <2>8, <2>9
  <2> QED
    BY <1>1, <1>2, <2>10, WorkerKeepsBudget
<1> QED
  BY <1>5, <1>6, <1>7, <1>8, <1>9, <1>10 DEF Publication

\* What an interrupted worker leaves is no more than it had, and covered by what it had made.
LEMMA InterruptionLeavesBalance ==
    ASSUME TypeOK, TypeOK', Placed, NEW j \in Jobs,
           shared' = shared, size' = size, got'[j] = got[j],
           stage[j] \in Running, stage'[j] \in {"queued", "ended"},
           copies'[j] \in Leftovers(j)
    PROVE  Made(j) - Copied(j) <= Made(j)' - Copied(j)'
<1> DEFINE n == size[j]
<1>1. /\ n \in Nat /\ got[j] \in Nat /\ shared \in BOOLEAN
      /\ \A c : Has(j, c) \in Nat /\ Has(j, c)' \in Nat
  BY AccountsAreSized, AccountsAreSizedNext DEF Sized, TypeOK
<1>2. \A c : /\ Has(j, c) = IF c \in copies[j] THEN n ELSE 0
             /\ Has(j, c)' = IF c \in copies'[j] THEN n ELSE 0
  BY DEF Has
<1>3. Copied(j) = Has(j, "ts") + Has(j, "mp4") + Has(j, "ts.part") + Has(j, "mp4.part")
                  + (IF shared THEN Has(j, "part") + Has(j, "video") ELSE 0)
  BY CopiesAreCounted DEF CopiesCounted
<1>4. Made(j)' - Copied(j)' =
          (IF ~shared THEN 0
           ELSE IF Has(j, "part")' + Has(j, "video")' <= got[j]
                THEN 0 ELSE got[j] - Has(j, "part")' - Has(j, "video")')
  <2>1. /\ Copied(j)' = Has(j, "ts")' + Has(j, "mp4")' + Has(j, "ts.part")' + Has(j, "mp4.part")'
               + (IF shared THEN Has(j, "part")' + Has(j, "video")' ELSE 0)
        /\ Made(j)' = Has(j, "ts")' + Has(j, "mp4")' + Has(j, "ts.part")' + Has(j, "mp4.part")'
               + (IF ~shared THEN 0
                  ELSE IF Has(j, "part")' + Has(j, "video")' <= got[j]
                       THEN Has(j, "part")' + Has(j, "video")' ELSE got[j])
    BY CopiesAreCountedNext DEF CopiesCounted
  <2> QED
    BY <1>1, <2>1
<1> HIDE DEF n
<1>5. CASE stage[j] \in Writing \cup {"complete", "assembling"}
  <2>1. Made(j) = 0
    BY <1>5 DEF Made, Writing
  <2>2. \A c \in {"part", "video"} : c \in copies'[j] <=> c \in copies[j]
    BY <1>5 DEF Leftovers, Writing
  <2>3. Has(j, "part")' = Has(j, "part") /\ Has(j, "video")' = Has(j, "video")
    BY <1>2, <2>2
  <2> QED
    BY <1>1, <1>3, <1>4, <2>1, <2>3
<1>6. CASE stage[j] \in {"remuxing", "remuxed"}
  <2>1. /\ Made(j) = IF stage[j] = "remuxing" THEN n ELSE 2 * n
        /\ "ts" \in copies[j] /\ (stage[j] = "remuxed" => "mp4" \in copies[j])
    BY <1>6 DEF Made, Writing, Placed, n
  <2>2. \A c \in {"part", "video"} : c \in copies'[j] <=> c \in copies[j]
    BY <1>6 DEF Leftovers
  <2>3. /\ Has(j, "part")' = Has(j, "part") /\ Has(j, "video")' = Has(j, "video")
        /\ Has(j, "ts") = n /\ (stage[j] = "remuxed" => Has(j, "mp4") = n)
    BY <1>2, <2>1, <2>2
  <2> QED
    BY <1>1, <1>3, <1>4, <1>6, <2>1, <2>3
<1>7. CASE stage[j] \in {"archiving", "published"}
  <2>1. /\ Made(j) = IF shared THEN 2 * n ELSE n
        /\ got[j] = n /\ "mp4" \in copies[j]
        /\ "part" \in copies[j] \/ "video" \in copies[j]
    BY <1>7 DEF Made, Writing, Placed, n, Finalizing
  <2>2. \A c : c \in copies'[j] => c \in copies[j]
    BY <1>7 DEF Leftovers
  <2>3. /\ Has(j, "mp4") = n
        /\ Has(j, "part")' \in {0, n} /\ Has(j, "video")' \in {0, n}
        /\ Has(j, "part") \in {0, n} /\ Has(j, "video") \in {0, n}
        /\ Has(j, "part")' <= Has(j, "part") /\ Has(j, "video")' <= Has(j, "video")
        /\ Has(j, "part") = n \/ Has(j, "video") = n
    BY <1>1, <1>2, <2>1, <2>2
  <2> QED
    BY <1>1, <1>3, <1>4, <2>1, <2>3
<1> QED
  BY <1>5, <1>6, <1>7 DEF Running, Finalizing, Writing

\* A worker that stops keeps its lease and leaves its files.
LEMMA StopKeepsBudget ==
    ASSUME TypeOK, TypeOK', Placed, Budgeted, NEW j \in Jobs, Stop(j)
    PROVE  Budgeted'
<1>1. UNCHANGED <<shared, size, leases, missed, got>>
  BY DEF Stop, settings, budget
<1>2. \A k \in Jobs \ {j} : stage'[k] = stage[k] /\ copies'[k] = copies[k]
  BY DEF Stop, TypeOK
<1>3. stage[j] \in Running /\ stage'[j] = "ended" /\ copies'[j] \in Leftovers(j)
  BY DEF Stop, TypeOK
<1>4. Made(j) - Copied(j) <= Made(j)' - Copied(j)'
  BY <1>1, <1>3, InterruptionLeavesBalance
<1>5. Overdraft(j)' = Overdraft(j) /\ Undone(j)' = 0
  BY <1>1, <1>3 DEF Overdraft, Medium, Undone, Writing, Running, Finalizing
<1>6. Balance(j) <= Balance(j)'
  <2>1. /\ Made(j) \in Nat /\ Made(j)' \in Nat /\ Copied(j) \in Nat /\ Copied(j)' \in Nat
        /\ Overdraft(j) \in Nat /\ missed[j] \in Nat /\ got[j] \in Nat /\ Undone(j) \in Nat
    BY AccountsAreSized, AccountsAreSizedNext DEF Sized
  <2>2. /\ Balance(j) = Overdraft(j) + missed[j] + Made(j) - Undone(j) - got[j] - Copied(j)
        /\ Balance(j)' = Overdraft(j) + missed[j] + Made(j)' - 0 - got[j] - Copied(j)'
    BY <1>1, <1>5 DEF Balance
  <2> QED
    BY <1>4, <2>1, <2>2
<1> QED
  BY <1>1, <1>2, <1>6, WorkerKeepsBudget

\* A job that is cleaned up gives back all but its video.
LEMMA RemoveKeepsBudget ==
    ASSUME TypeOK, TypeOK', Budgeted, NEW j \in Jobs, Remove(j)
    PROVE  Budgeted'
<1>1. UNCHANGED <<shared, size, leases, missed>>
  BY DEF Remove, settings, budget
<1>2. \A k \in Jobs \ {j} : stage'[k] = stage[k] /\ got'[k] = got[k] /\ copies'[k] = copies[k]
  BY DEF Remove, Goes, TypeOK
<1>3. /\ stage[j] = "queued" /\ stage'[j] = "done" /\ got'[j] = 0
      /\ \A c : c \in copies'[j] <=> c \in copies[j] /\ c = "video"
  BY DEF Remove, Goes, TypeOK
<1>4. leases[j] = None
  BY <1>3 DEF TypeOK
<1>5. Overdraft(j) = 0 /\ Overdraft(j)' = 0 /\ Undone(j) = 0 /\ Undone(j)' = 0
  BY <1>1, <1>4 DEF Overdraft, Undone
<1>6. /\ Has(j, "video")' = Has(j, "video") /\ Has(j, "part")' = 0
      /\ Has(j, "ts")' = 0 /\ Has(j, "mp4")' = 0
      /\ Has(j, "ts.part")' = 0 /\ Has(j, "mp4.part")' = 0
  BY <1>1, <1>3 DEF Has
<1>7. /\ got[j] \in Nat /\ missed[j] \in Nat /\ shared \in BOOLEAN
      /\ \A c : Has(j, c) \in Nat
  BY AccountsAreSized DEF Sized, TypeOK
<1>8. Made(j) - Copied(j) - got[j] <= IF shared THEN 0 - Has(j, "video") ELSE 0
  BY <1>3, <1>7, CopiesAreCounted DEF CopiesCounted
<1>9. /\ Made(j)' = 0
      /\ Copied(j)' = IF shared THEN Has(j, "video") ELSE 0
  BY <1>1, <1>3, <1>6, <1>7, CopiesAreCountedNext DEF CopiesCounted
<1>10. Balance(j) <= Balance(j)'
  <2>1. Made(j) \in Nat /\ Copied(j) \in Nat
    BY AccountsAreSized DEF Sized
  <2>2. /\ Balance(j) = 0 + missed[j] + Made(j) - 0 - got[j] - Copied(j)
        /\ Balance(j)' = 0 + missed[j] + 0 - 0 - 0 - Copied(j)'
    BY <1>1, <1>3, <1>5, <1>9 DEF Balance
  <2> QED
    BY <1>7, <1>8, <1>9, <2>1, <2>2
<1> QED
  BY <1>1, <1>2, <1>10, WorkerKeepsBudget

\* A lease that is given back takes with it what it was for, and what was written beyond it
\* is from then on missed.
LEMMA ReleaseKeepsBudget ==
    ASSUME TypeOK, TypeOK', Budgeted, NEW j \in Jobs, Release(j)
    PROVE  Budgeted'
<1>1. UNCHANGED <<shared, size, got, copies>>
  BY DEF Release, settings, files
<1>2. /\ \A k \in Jobs \ {j} :
             stage'[k] = stage[k] /\ leases'[k] = leases[k] /\ missed'[k] = missed[k]
      /\ leases[j] # None /\ leases'[j] = None
      /\ missed'[j] = missed[j] + Overdraft(j)
      /\ \/ stage[j] = "ended" /\ stage'[j] = "queued"
         \/ stage[j] = "done" /\ stage'[j] = "done"
  BY DEF Release, TypeOK, Overdraft
<1>3. Largest(leases') <= Largest(leases)
  <2>1. leases \in [Jobs -> Lease \cup {None}] /\ leases' \in [Jobs -> Lease \cup {None}]
    BY DEF TypeOK
  <2>2. \A k \in Jobs : leases'[k] # None => leases'[k] = leases[k]
    BY <1>2
  <2> QED
    BY <2>1, <2>2, LargestOf
<1>4. Balance(j) <= Balance(j)'
  <2>1. /\ Made(j) \in Nat /\ Copied(j) \in Nat /\ missed[j] \in Nat /\ got[j] \in Nat
        /\ Overdraft(j) \in Nat
        /\ \A c : Has(j, c) \in Nat
    BY AccountsAreSized DEF Sized
  <2>2. \A c : Has(j, c)' = Has(j, c)
    BY <1>1 DEF Has
  <2>3. Made(j)' = Made(j) /\ Copied(j)' = Copied(j)
    BY <1>1, <1>2, <2>2, CopiesAreCounted, CopiesAreCountedNext DEF CopiesCounted
  <2>4. Undone(j) = 0 /\ Undone(j)' = 0 /\ Overdraft(j)' = 0
    BY <1>2 DEF Undone, Overdraft, Writing
  <2>5. /\ Balance(j) = Overdraft(j) + missed[j] + Made(j) - 0 - got[j] - Copied(j)
        /\ Balance(j)' = 0 + missed'[j] + Made(j) - 0 - got[j] - Copied(j)
    BY <1>1, <2>3, <2>4 DEF Balance
  <2> QED
    BY <1>2, <2>1, <2>5
<1>5. \A k \in Jobs : Balance(k) <= Balance(k)'
  <2> SUFFICES ASSUME NEW k \in Jobs \ {j} PROVE Balance(k) <= Balance(k)'
    BY <1>4
  <2>1. Balance(k)' = Balance(k)
    BY <1>1, <1>2, Untouched
  <2> QED
    BY <2>1, AccountsAreSized DEF Sized
<1> QED
  BY <1>3, <1>5, NoBalanceFalls

\* The container dies: every lease is lost, and what was written beyond it is missed.
LEMMA CrashKeepsBudget ==
    ASSUME TypeOK, TypeOK', Placed, Budgeted, Crash
    PROVE  Budgeted'
<1>1. UNCHANGED <<shared, size, got>>
  BY DEF Crash, settings
<1>2. \A k \in Jobs : leases'[k] = None /\ missed'[k] = missed[k] + Overdraft(k)
  BY DEF Crash, Overdraft
<1>3. Largest(leases') <= Largest(leases)
  <2>1. leases \in [Jobs -> Lease \cup {None}] /\ leases' \in [Jobs -> Lease \cup {None}]
    BY DEF TypeOK
  <2> QED
    BY <1>2, <2>1, LargestOf
<1>4. ASSUME NEW k \in Jobs PROVE Balance(k) <= Balance(k)'
  <2>1. /\ Made(k) \in Nat /\ Copied(k) \in Nat /\ missed[k] \in Nat /\ got[k] \in Nat
        /\ Overdraft(k) \in Nat /\ Undone(k) \in Nat
        /\ Made(k)' \in Nat /\ Copied(k)' \in Nat
    BY AccountsAreSized, AccountsAreSizedNext DEF Sized
  <2>2. Made(k) - Copied(k) <= Made(k)' - Copied(k)'
    <3>1. CASE stage[k] \in Running
      <4>1. stage'[k] = "queued"
        BY <3>1 DEF Crash, Running, Finalizing
      <4>2. copies'[k] \in Leftovers(k)
        <5>1. CASE lock = k
          <6>1. lock # None
            BY <5>1, StorageAssumption
          <6> QED
            BY <5>1, <6>1 DEF Crash, TypeOK
        <5>2. CASE lock # k
          <6>1. stage[k] \notin Finalizing
            BY <5>2 DEF TypeOK
          <6>2. Leftovers(k) = {copies[k]}
            BY <6>1 DEF Leftovers, Finalizing
          <6>3. copies'[k] = copies[k]
            BY <5>2 DEF Crash, TypeOK
          <6> QED
            BY <6>2, <6>3
        <5> QED
          BY <5>1, <5>2
      <4> QED
        BY <1>1, <3>1, <4>1, <4>2, InterruptionLeavesBalance
    <3>2. CASE stage[k] \notin Running
      <4>1. /\ stage[k] \in {"queued", "ended", "done"}
            /\ stage'[k] \in {"queued", "ended", "done"}
        BY <3>2 DEF Crash, TypeOK, Stages
      <4>2. copies'[k] = copies[k]
        <5>1. lock # k
          BY <3>2 DEF TypeOK, Running
        <5> QED
          BY <5>1 DEF Crash, TypeOK
      <4>3. (\A c : Has(k, c)' = Has(k, c)) /\ \A c : Has(k, c) \in Nat
        BY <1>1, <4>2, AccountsAreSized DEF Has, Sized
      <4>4. Made(k)' = Made(k) /\ Copied(k)' = Copied(k)
        BY <1>1, <4>1, <4>3, CopiesAreCounted, CopiesAreCountedNext DEF CopiesCounted
      <4> QED
        BY <2>1, <4>4
    <3> QED
      BY <3>1, <3>2
  <2>3. Undone(k)' = 0 /\ Overdraft(k)' = 0
    BY <1>2 DEF Undone, Overdraft
  <2>4. /\ Balance(k) = Overdraft(k) + missed[k] + Made(k) - Undone(k) - got[k] - Copied(k)
        /\ Balance(k)' = 0 + missed'[k] + Made(k)' - 0 - got[k] - Copied(k)'
    BY <1>1, <2>3 DEF Balance
  <2> QED
    BY <1>2, <2>1, <2>2, <2>4
<1> QED
  BY <1>3, <1>4, NoBalanceFalls

\* A lease that is resized without a look: what its medium grows by is missed, and so are
\* the copies of the largest.
LEMMA UnseenGrowthKeepsBudget ==
    ASSUME TypeOK, TypeOK', Budgeted, NEW j \in Jobs, NEW new \in Lease,
           UNCHANGED <<settings, stage, files>>,
           leases[j] # None, leases' = [leases EXCEPT ![j] = new],
           missed' = [missed EXCEPT ![j] =
                         @ + Excess(new.media, leases[j].media)
                         + 2 * Excess(Largest(leases'), Largest(leases))]
    PROVE  Budgeted'
<1> DEFINE M == Largest(leases)
           N == Largest(leases')
           f == [k \in Jobs |-> Balance(k)]
           g == [k \in Jobs |-> Balance(k)']
<1>1. /\ leases \in [Jobs -> Lease \cup {None}] /\ leases' \in [Jobs -> Lease \cup {None}]
      /\ leases'[j] = new /\ new # None
  BY LeasesAreRecords DEF TypeOK
<1>2. M \in Nat /\ N \in Nat
  BY <1>1, LargestOf
<1>3. \A k \in Jobs \ {j} : Balance(k)' = Balance(k)
  <2> SUFFICES ASSUME NEW k \in Jobs \ {j} PROVE Balance(k)' = Balance(k)
    OBVIOUS
  <2>1. leases'[k] = leases[k] /\ missed'[k] = missed[k]
    BY DEF TypeOK
  <2> QED
    BY <2>1, Untouched DEF settings, files
<1>4. Balance(j) + 2 * Excess(N, M) <= Balance(j)'
  <2>1. /\ Made(j) \in Nat /\ Copied(j) \in Nat /\ missed[j] \in Nat /\ got[j] \in Nat
        /\ Medium(j) \in Nat /\ leases[j].media \in Nat /\ new.media \in Nat
    BY <1>1, AccountsAreSized, AccountsAreSizedNext DEF Sized
  <2>2. Made(j)' = Made(j) /\ Copied(j)' = Copied(j) /\ Medium(j)' = Medium(j)
    BY DEF Made, Copied, Archived, Medium, settings, files
  <2>3. missed'[j] = missed[j] + Excess(new.media, leases[j].media) + 2 * Excess(N, M)
    BY DEF TypeOK
  <2>4. /\ Overdraft(j) = Excess(Medium(j), leases[j].media)
        /\ Overdraft(j)' = Excess(Medium(j), new.media)
    BY <1>1, <2>2 DEF Overdraft
  <2>5. /\ Excess(N, M) \in Nat
        /\ Excess(Medium(j), leases[j].media) \in Nat
        /\ Excess(Medium(j), new.media) \in Nat
        /\ Excess(new.media, leases[j].media) \in Nat
    BY <1>2, <2>1 DEF Excess
  <2>6. CASE stage[j] \in Writing
    <3>1. Medium(j) = got[j]
      BY <2>6 DEF Medium, Writing
    <3>2. /\ Undone(j) = Excess(leases[j].media, got[j])
          /\ Undone(j)' = Excess(new.media, got[j])
      BY <1>1, <2>6 DEF Undone, files
    <3>3. Overdraft(j) - Undone(j) = got[j] - leases[j].media
      BY <2>1, <2>4, <3>1, <3>2 DEF Excess
    <3>4. Overdraft(j)' - Undone(j)' = got[j] - new.media
      BY <2>1, <2>4, <3>1, <3>2 DEF Excess
    <3>5. new.media - leases[j].media <= Excess(new.media, leases[j].media)
      BY <2>1 DEF Excess
    <3>6. /\ Overdraft(j) \in Nat /\ Overdraft(j)' \in Nat
          /\ Undone(j) \in Nat /\ Undone(j)' \in Nat
      BY AccountsAreSized, AccountsAreSizedNext DEF Sized
    <3>7. /\ Balance(j) = Overdraft(j) + missed[j] + Made(j) - Undone(j) - got[j] - Copied(j)
          /\ Balance(j)' = Overdraft(j)' + missed'[j] + Made(j) - Undone(j)' - got[j] - Copied(j)
      BY <2>2 DEF Balance, files
    <3> HIDE DEF M, N
    <3> QED
      BY <2>1, <2>3, <2>5, <3>3, <3>4, <3>5, <3>6, <3>7
  <2>7. CASE stage[j] \notin Writing
    <3>1. Undone(j) = 0 /\ Undone(j)' = 0
      BY <2>7 DEF Undone
    <3>2. Excess(Medium(j), leases[j].media)
              <= Excess(Medium(j), new.media) + Excess(new.media, leases[j].media)
      BY <2>1 DEF Excess
    <3>3. /\ Balance(j) = Overdraft(j) + missed[j] + Made(j) - 0 - got[j] - Copied(j)
          /\ Balance(j)' = Overdraft(j)' + missed'[j] + Made(j) - 0 - got[j] - Copied(j)
      BY <2>2, <3>1 DEF Balance, files
    <3> HIDE DEF M, N
    <3> QED
      BY <2>1, <2>3, <2>4, <2>5, <3>2, <3>3
  <2> QED
    BY <2>6, <2>7
<1>5. \A k \in Jobs : f[k] \in Int /\ g[k] \in Int
  BY AccountsAreSized, AccountsAreSizedNext DEF Sized
<1>6. f[j] + 2 * Excess(N, M) <= g[j] /\ \A k \in Jobs \ {j} : f[k] = g[k]
  BY <1>3, <1>4
<1>7. SumFunction(f) = SumFunctionOnSet(f, Jobs) /\ SumFunction(g) = SumFunctionOnSet(g, Jobs)
  BY DEF SumFunction
<1>8. Capacity + SumFunction(f) >= MinFree + 2 * M
  BY DEF Budgeted
<1> HIDE DEF f, g, M, N
<1>9. SumFunctionOnSet(g, Jobs) = SumFunctionOnSet(f, Jobs) + g[j] - f[j]
  BY <1>5, <1>6, SumOfOneChange, StorageAssumption
<1>10. SumFunctionOnSet(f, Jobs) \in Int
  BY <1>5, SumIsInt, StorageAssumption
<1>11. Capacity + SumFunction(g) >= MinFree + 2 * N
  BY <1>2, <1>5, <1>6, <1>7, <1>8, <1>9, <1>10, StorageAssumption DEF Excess
<1> QED
  BY <1>11 DEF Budgeted, g, N

OnStaging == [k \in Jobs |-> got[k] + Copied(k)]

StagingRoom == Free("staging") = Capacity - SumFunctionOnSet(OnStaging, Jobs)

\* The free space of staging's filesystem is what the accounts leave of it.
LEMMA RoomInStaging == TypeOK => StagingRoom
<1> SUFFICES ASSUME TypeOK PROVE StagingRoom
  OBVIOUS
<1> DEFINE on == [k \in Jobs |-> (IF "staging" = "staging" THEN Staged(k) ELSE 0)
                                 + (IF "staging" = Library THEN Archived(k) ELSE 0)]
<1>1. ASSUME NEW k \in Jobs PROVE on[k] \in Int /\ on[k] = OnStaging[k]
  <2>1. /\ \A c : Has(k, c) \in Nat
        /\ got[k] \in Nat /\ shared \in BOOLEAN
    BY AccountsAreSized DEF Sized, TypeOK
  <2> DEFINE n == size[k] * Cardinality(copies[k] \cap InStaging)
  <2>2. n = Has(k, "ts") + Has(k, "mp4") + Has(k, "ts.part") + Has(k, "mp4.part")
    BY CopiesTake DEF CopiesAddUp
  <2>3. Staged(k) = got[k] + n
    BY DEF Staged
  <2>4. on[k] = Staged(k) + (IF shared THEN Archived(k) ELSE 0)
    BY <2>1 DEF Library
  <2>5. OnStaging[k] = got[k] + (n + (IF shared THEN Archived(k) ELSE 0))
    BY DEF OnStaging, Copied
  <2>6. Archived(k) \in Nat
    BY AccountsAreSized DEF Sized
  <2> HIDE DEF on, n
  <2> QED
    BY <2>1, <2>2, <2>3, <2>4, <2>5, <2>6
<1>2. Free("staging") = Capacity - SumFunctionOnSet(on, Jobs)
  BY DEF Free, SumFunction
<1> HIDE DEF on
<1>3. SumFunctionOnSet(on, Jobs) = SumFunctionOnSet(OnStaging, Jobs)
  BY <1>1, SumEqual, StorageAssumption
<1> QED
  BY <1>2, <1>3 DEF StagingRoom

\* A look at the disk: what fits then has room for all that the leases are for, less what
\* they take for written and is not there.
LEMMA LookKeepsBudget ==
    ASSUME TypeOK, TypeOK', UNCHANGED <<shared, size, got, copies>>, Fits(leases'),
           \A k \in Jobs : stage'[k] = "preparing" => leases'[k].done = 0,
           \A k \in Jobs : stage'[k] = "fetching" =>
                               missed'[k] = Excess(leases'[k].done, got[k])
    PROVE  Budgeted'
<1> DEFINE N == Largest(leases')
           used == [k \in Jobs |-> got[k] + Copied(k)]
           rest == [k \in Jobs |-> IF k \in Active(leases')
                                   THEN Excess(leases'[k].media, leases'[k].done) ELSE 0]
           next == [k \in Jobs |-> Balance(k)']
           taken == [k \in Jobs |-> used[k] + rest[k]]
           spare == [k \in Jobs |-> taken[k] + next[k]]
           none == [k \in Jobs |-> 0]
<1>1. leases' \in [Jobs -> Lease \cup {None}] /\ N \in Nat
  BY LargestOf DEF TypeOK
<1>2. \A k \in Jobs : /\ used[k] \in Int /\ rest[k] \in Int /\ next[k] \in Int
                      /\ taken[k] = used[k] + rest[k] /\ spare[k] = taken[k] + next[k]
                      /\ taken[k] \in Int /\ spare[k] \in Int /\ none[k] \in Int
  <2> SUFFICES ASSUME NEW k \in Jobs
               PROVE  used[k] \in Int /\ rest[k] \in Int /\ next[k] \in Int
    OBVIOUS
  <2>1. /\ got[k] \in Nat /\ Copied(k) \in Nat /\ Balance(k)' \in Int
        /\ leases'[k] # None => leases'[k].media \in Nat /\ leases'[k].done \in Nat
    BY AccountsAreSized, AccountsAreSizedNext DEF Sized
  <2> QED
    BY <2>1 DEF Active, Excess
<1>3. ASSUME NEW k \in Jobs PROVE none[k] <= spare[k]
  <2>1. /\ got[k] \in Nat /\ Copied(k) \in Nat /\ missed'[k] \in Nat
        /\ Made(k)' \in Nat /\ Overdraft(k)' \in Nat /\ Undone(k)' \in Nat
        /\ leases'[k] # None => leases'[k].media \in Nat /\ leases'[k].done \in Nat
    BY AccountsAreSized, AccountsAreSizedNext DEF Sized
  <2>2. Copied(k)' = Copied(k)
    BY DEF Copied, Archived
  <2>3. Balance(k)' = Overdraft(k)' + missed'[k] + Made(k)' - Undone(k)' - got[k] - Copied(k)
    BY <2>2 DEF Balance
  <2>4. rest[k] \in Nat
    BY <2>1 DEF Active, Excess
  <2>5. Undone(k)' <= rest[k] + missed'[k]
    <3>1. CASE leases'[k] = None \/ stage'[k] \notin Writing
      BY <2>1, <2>4, <3>1 DEF Undone
    <3>2. CASE leases'[k] # None /\ stage'[k] \in Writing
      <4>1. /\ Undone(k)' = Excess(leases'[k].media, got[k])
            /\ rest[k] = Excess(leases'[k].media, leases'[k].done)
        BY <3>2 DEF Undone, Active
      <4>2. leases'[k].done <= got[k] + missed'[k]
        BY <2>1, <3>2 DEF Writing, Excess
      <4> QED
        BY <2>1, <3>2, <4>1, <4>2 DEF Excess
    <3> QED
      BY <3>1, <3>2
  <2>6. spare[k] = got[k] + Copied(k) + rest[k] + Balance(k)'
    OBVIOUS
  <2> HIDE DEF rest, spare
  <2> QED
    BY <2>1, <2>3, <2>4, <2>5, <2>6
<1>4. Capacity - SumFunctionOnSet(used, Jobs)
          >= MinFree + SumFunctionOnSet(rest, Jobs) + 2 * N
  <2>1. Free("staging") >= MinFree + Required(leases', "staging")
    BY DEF Fits, Devices
  <2>2. Free("staging") = Capacity - SumFunctionOnSet(used, Jobs)
    BY RoomInStaging DEF StagingRoom, OnStaging
  <2>3. Required(leases', "staging") = SumFunctionOnSet(rest, Jobs) + 2 * N
    <3> DEFINE f == [k \in Active(leases') |-> Excess(leases'[k].media, leases'[k].done)]
    <3>1. Required(leases', "staging") = SumFunctionOnSet(f, Active(leases')) + 2 * N
      BY DEF Required, Remaining, SumFunction
    <3>2. /\ Active(leases') \subseteq Jobs
          /\ \A k \in Jobs : rest[k] = IF k \in Active(leases') THEN f[k] ELSE 0
      BY DEF Active
    <3>3. SumFunctionOnSet(rest, Jobs) = SumFunctionOnSet(f, Active(leases'))
      <4> HIDE DEF f, rest
      <4> QED
        BY <1>2, <3>2, SumOfPart, StorageAssumption
    <3> QED
      BY <3>1, <3>3
  <2>4. SumFunctionOnSet(rest, Jobs) \in Int /\ SumFunctionOnSet(used, Jobs) \in Int
    <3> HIDE DEF rest, used
    <3> QED
      BY <1>2, SumIsInt, StorageAssumption
  <2> HIDE DEF rest, used, N
  <2> QED
    BY <1>1, <2>1, <2>2, <2>3, <2>4, StorageAssumption
<1>5. none \in [Jobs -> {0}]
  OBVIOUS
<1>6. SumFunction(next) = SumFunctionOnSet(next, Jobs)
  BY DEF SumFunction
<1> HIDE DEF used, rest, next, taken, spare, none, N
<1>7. /\ SumFunctionOnSet(taken, Jobs)
             = SumFunctionOnSet(used, Jobs) + SumFunctionOnSet(rest, Jobs)
      /\ SumFunctionOnSet(spare, Jobs)
             = SumFunctionOnSet(taken, Jobs) + SumFunctionOnSet(next, Jobs)
  BY <1>2, SumOfSums, StorageAssumption
<1>8. SumFunctionOnSet(none, Jobs) = 0
  <2>1. \A k \in Jobs : none[k] \in Int /\ none[k] = IF k \in {} THEN none[k] ELSE 0
    BY <1>5
  <2>2. SumFunctionOnSet(none, Jobs) = SumFunctionOnSet(none, {})
    BY <2>1, SumOfPart, StorageAssumption
  <2> QED
    BY <2>2, SumOfNone
<1>9. SumFunctionOnSet(none, Jobs) <= SumFunctionOnSet(spare, Jobs)
  BY <1>2, <1>3, SumMonotone, StorageAssumption
<1>10. /\ SumFunctionOnSet(used, Jobs) \in Int /\ SumFunctionOnSet(rest, Jobs) \in Int
       /\ SumFunctionOnSet(next, Jobs) \in Int
  BY <1>2, SumIsInt, StorageAssumption
<1>11. Capacity + SumFunction(next) >= MinFree + 2 * N
  BY <1>1, <1>4, <1>6, <1>7, <1>8, <1>9, <1>10, StorageAssumption
<1> QED
  BY <1>11 DEF Budgeted, next, N

\* A lease is given or grows after a look at the disk, or its growth is missed.
LEMMA ReservationsKeepBudget ==
    ASSUME TypeOK, TypeOK', Placed, Budgeted, NEW j \in Jobs, Reservations(j)
    PROVE  Budgeted'
<1>1. CASE TryReserve(j)
  <2>1. /\ UNCHANGED <<shared, size, got, copies>> /\ Fits(leases')
        /\ leases' = [leases EXCEPT ![j] = [media |-> Initial, done |-> 0]]
        /\ stage' = [stage EXCEPT ![j] = "preparing"] /\ stage[j] = "queued"
    BY <1>1 DEF TryReserve, settings, files
  <2>2. \A k \in Jobs : stage'[k] = "preparing" => leases'[k].done = 0
    BY <2>1 DEF Placed, TypeOK
  <2>3. ASSUME NEW k \in Jobs, stage'[k] = "fetching"
        PROVE  missed'[k] = Excess(leases'[k].done, got[k])
    <3>1. stage[k] = "fetching" /\ leases'[k] # None
      BY <2>1, <2>3 DEF TypeOK, Running
    <3> QED
      BY <1>1, <2>1, <3>1 DEF TryReserve, Looked
  <2> QED
    BY <2>1, <2>2, <2>3, LookKeepsBudget
<1>2. CASE Release(j)
  BY <1>2, ReleaseKeepsBudget
<1>3. CASE Apply(j)
  <2> DEFINE new == Target(leases[j], report[j])
             ls == [leases EXCEPT ![j] = new]
  <2>1. leases[j] \in Lease /\ report[j] \in Event /\ leases[j] # None
    BY <1>3 DEF Apply, TypeOK
  <2>2. new \in Lease
    BY <2>1, TargetIsALease
  <2>3. UNCHANGED <<settings, stage, files>>
    BY <1>3 DEF Apply
  <2>4. \/ /\ leases' = ls
           /\ missed' = [missed EXCEPT ![j] = @ + Excess(ls[j].media, leases[j].media)
                                              + 2 * Excess(Largest(ls), Largest(leases))]
        \/ leases' = ls /\ Fits(ls) /\ Looked(ls)
        \/ UNCHANGED <<leases, missed>>
    BY <1>3 DEF Apply
  <2>5. ls[j] = new
    BY DEF TypeOK
  <2> HIDE DEF new
  <2>6. CASE /\ leases' = ls
             /\ missed' = [missed EXCEPT ![j] = @ + Excess(ls[j].media, leases[j].media)
                                                + 2 * Excess(Largest(ls), Largest(leases))]
    <3>1. missed' = [missed EXCEPT ![j] = @ + Excess(new.media, leases[j].media)
                                            + 2 * Excess(Largest(leases'), Largest(leases))]
      BY <2>5, <2>6
    <3> QED
      BY <2>1, <2>2, <2>3, <2>6, <3>1, UnseenGrowthKeepsBudget
  <2>7. CASE leases' = ls /\ Fits(ls) /\ Looked(ls)
    <3>1. UNCHANGED <<shared, size, got, copies, stage>>
      BY <2>3 DEF settings, files
    <3>2. stage[j] # "preparing"
      BY <1>3 DEF Apply, Placed
    <3>3. \A k \in Jobs : stage'[k] = "preparing" => leases'[k].done = 0
      BY <2>7, <3>1, <3>2 DEF Placed, TypeOK
    <3>4. ASSUME NEW k \in Jobs, stage'[k] = "fetching"
          PROVE  missed'[k] = Excess(leases'[k].done, got[k])
      <4>1. stage[k] = "fetching" /\ leases'[k] # None
        BY <3>1, <3>4 DEF TypeOK, Running
      <4> QED
        BY <2>7, <4>1 DEF Looked
    <3> QED
      BY <2>7, <3>1, <3>3, <3>4, LookKeepsBudget
  <2>8. CASE UNCHANGED <<leases, missed>>
    <3>1. \A k \in Jobs : Balance(k)' = Balance(k)
      BY <2>3, <2>8, Untouched DEF settings, files
    <3>2. \A k \in Jobs : Balance(k) <= Balance(k)'
      BY <3>1, AccountsAreSized DEF Sized
    <3>3. Largest(leases') <= Largest(leases)
      BY <2>8, LargestOf DEF TypeOK
    <3> QED
      BY <3>2, <3>3, NoBalanceFalls
  <2> QED
    BY <2>4, <2>6, <2>7, <2>8
<1> QED
  BY <1>1, <1>2, <1>3 DEF Reservations

\* To begin with every balance is zero and the disk is above its floor.
LEMMA InitBudgeted == Init => Budgeted
<1> SUFFICES ASSUME Init PROVE Budgeted
  OBVIOUS
<1>1. TypeOK
  BY InitTypeOK
<1> DEFINE f == [k \in Jobs |-> Balance(k)]
<1>2. ASSUME NEW k \in Jobs PROVE f[k] = 0
  <2>1. leases[k] = None /\ stage[k] = "queued" /\ missed[k] = 0 /\ got[k] = 0
    BY DEF Init
  <2>2. \A c : Has(k, c) = 0
    BY DEF Init, Has
  <2>3. Copied(k) = 0 /\ Made(k) = 0
    BY <1>1, <2>1, <2>2, CopiesAreCounted DEF CopiesCounted, TypeOK
  <2>4. Overdraft(k) = 0 /\ Undone(k) = 0
    BY <2>1 DEF Overdraft, Undone
  <2>5. Balance(k) = 0
    BY <2>1, <2>3, <2>4 DEF Balance
  <2> QED
    BY <2>5
<1>3. SumFunction(f) = SumFunctionOnSet(f, Jobs)
  BY DEF SumFunction
<1>4. Largest(leases) = 0
  BY DEF Largest, Active, Init
<1> HIDE DEF f
<1>5. SumFunctionOnSet(f, Jobs) = SumFunctionOnSet(f, {})
  <2>1. \A k \in Jobs : f[k] \in Int /\ f[k] = IF k \in {} THEN f[k] ELSE 0
    BY <1>2
  <2> QED
    BY <2>1, SumOfPart, StorageAssumption
<1>6. Capacity + SumFunction(f) >= MinFree + 2 * Largest(leases)
  BY <1>3, <1>4, <1>5, SumOfNone, StorageAssumption
<1> QED
  BY <1>6 DEF Budgeted, f

--------------------------------------------------------------------------------
\* Where a job's files are at each stage.

\* Every step of a worker leaves the copies that its next stage relies on.
LEMMA StepsKeepPlaces ==
    ASSUME TypeOK, Placed, [Next]_vars
    PROVE  Placed'
<1> USE DEF settings, budget, files, Goes, Copies, Transport
<1>1. ASSUME NEW j \in Jobs, Reservations(j) PROVE Placed'
  <2>1. CASE TryReserve(j)
    BY <2>1 DEF TryReserve, TypeOK, Placed, Finalizing
  <2>2. CASE Apply(j)
    <3>1. UNCHANGED <<size, stage, got, copies>> /\ stage[j] \notin {"queued", "preparing"}
      BY <2>2 DEF Apply, Placed
    <3>2. \A k \in Jobs \ {j} : report'[k] = report[k] /\ leases'[k] = leases[k]
      BY <2>2 DEF Apply, TypeOK
    <3> QED
      BY <3>1, <3>2 DEF Placed
  <2>3. CASE Release(j)
    BY <2>3 DEF Release, TypeOK, Placed, Finalizing
  <2> QED
    BY <1>1, <2>1, <2>2, <2>3 DEF Reservations
<1>2. ASSUME NEW j \in Jobs, Transfer(j) PROVE Placed'
  <2>1. CASE Prepare(j)
    BY <2>1 DEF Prepare, TypeOK, Placed, Finalizing
  <2>2. CASE Write(j)
    BY <2>2 DEF Write, TypeOK, Placed, Finalizing
  <2>3. CASE Commit(j)
    BY <2>3 DEF Commit, TypeOK, Placed, Finalizing
  <2>4. CASE Discard(j)
    BY <2>4 DEF Discard, TypeOK, Placed, Finalizing
  <2>5. CASE Report(j)
    <3>1. stage[j] = "fetching" /\ \A k \in Jobs \ {j} : report'[k] = report[k]
      BY <2>5 DEF Report, TypeOK
    <3>2. UNCHANGED <<size, stage, got, copies, leases>>
      BY <2>5 DEF Report
    <3> QED
      BY <3>1, <3>2 DEF Placed, Finalizing
  <2>6. CASE Complete(j)
    <3>1. got[j] = size[j]
      BY <2>6, StorageAssumption DEF Complete, TypeOK
    <3> QED
      BY <2>6, <3>1 DEF Complete, TypeOK, Placed, Finalizing
  <2>7. CASE Buffer(j)
    BY <2>7 DEF Buffer, TypeOK, Placed, Finalizing
  <2>8. CASE Decrypt(j)
    BY <2>8 DEF Decrypt, TypeOK, Placed, Finalizing
  <2> QED
    BY <1>2, <2>1, <2>2, <2>3, <2>4, <2>5, <2>6, <2>7, <2>8 DEF Transfer
<1>3. ASSUME NEW j \in Jobs, Publication(j) PROVE Placed'
  <2>1. CASE TakeLock(j)
    BY <2>1 DEF TakeLock, TypeOK, Placed, Finalizing
  <2>2. CASE Assemble(j)
    BY <2>2 DEF Assemble, TypeOK, Placed, Finalizing
  <2>3. CASE Remux(j)
    BY <2>3 DEF Remux, TypeOK, Placed, Finalizing
  <2>4. CASE StartArchive(j)
    BY <2>4 DEF StartArchive, TypeOK, Placed, Finalizing
  <2>5. CASE Publish(j)
    BY <2>5 DEF Publish, TypeOK, Placed, Finalizing
  <2>6. CASE DiscardStaging(j)
    BY <2>6 DEF DiscardStaging, TypeOK, Placed, Finalizing
  <2> QED
    BY <1>3, <2>1, <2>2, <2>3, <2>4, <2>5, <2>6 DEF Publication
<1>4. ASSUME NEW j \in Jobs, Stop(j) PROVE Placed'
  BY <1>4 DEF Stop, TypeOK, Placed, Finalizing
<1>5. ASSUME NEW j \in Jobs, Remove(j) PROVE Placed'
  BY <1>5 DEF Remove, TypeOK, Placed, Finalizing
<1>6. CASE Crash
  BY <1>6 DEF Crash, TypeOK, Placed, Finalizing
<1>7. CASE UNCHANGED vars
  BY <1>7 DEF vars, Placed
<1> QED
  BY <1>1, <1>2, <1>3, <1>4, <1>5, <1>6, <1>7 DEF Next

--------------------------------------------------------------------------------
\* The library's own filesystem.

OnLibrary == [k \in Jobs |-> Archived(k)]

LibraryRoom ==
    /\ \A k \in Jobs : Archived(k) \in Nat
    /\ ~shared => Free("library") = Capacity - SumFunctionOnSet(OnLibrary, Jobs)

\* The free space of the library's own filesystem is what the videos leave of it.
LEMMA RoomInLibrary == TypeOK => LibraryRoom
<1> SUFFICES ASSUME TypeOK PROVE LibraryRoom
  OBVIOUS
<1>1. \A k \in Jobs : Archived(k) \in Nat
  BY AccountsAreSized DEF Sized
<1>2. ASSUME ~shared
      PROVE  Free("library") = Capacity - SumFunctionOnSet(OnLibrary, Jobs)
  <2> DEFINE on == [k \in Jobs |-> (IF "library" = "staging" THEN Staged(k) ELSE 0)
                                   + (IF "library" = Library THEN Archived(k) ELSE 0)]
  <2>1. \A k \in Jobs : on[k] \in Int /\ on[k] = OnLibrary[k]
    BY <1>1, <1>2 DEF Library, OnLibrary
  <2>2. Free("library") = Capacity - SumFunctionOnSet(on, Jobs)
    BY DEF Free, SumFunction
  <2> HIDE DEF on
  <2>3. SumFunctionOnSet(on, Jobs) = SumFunctionOnSet(OnLibrary, Jobs)
    BY <2>1, SumEqual, StorageAssumption
  <2> QED
    BY <2>2, <2>3
<1> QED
  BY <1>1, <1>2 DEF LibraryRoom

LEMMA RoomInLibraryNext == TypeOK' => LibraryRoom'
BY RoomInLibrary, PTL

\* The library keeps its floor in a step that adds nothing to it.
LEMMA NothingArchived ==
    ASSUME TypeOK, TypeOK', LibraryKept, shared' = shared,
           \A k \in Jobs : Archived(k)' <= Archived(k)
    PROVE  LibraryKept'
<1> SUFFICES ASSUME ~shared PROVE Free("library")' >= MinFree
  BY DEF LibraryKept
<1> DEFINE f == OnLibrary
           g == OnLibrary'
<1>1. \A k \in Jobs : f[k] \in Int /\ g[k] \in Int /\ g[k] <= f[k]
  BY RoomInLibrary, RoomInLibraryNext DEF LibraryRoom, OnLibrary
<1>2. /\ Free("library") = Capacity - SumFunctionOnSet(f, Jobs)
      /\ Free("library")' = Capacity - SumFunctionOnSet(g, Jobs)
  BY RoomInLibrary, RoomInLibraryNext DEF LibraryRoom
<1>3. Free("library") >= MinFree
  BY DEF LibraryKept
<1> HIDE DEF f, g
<1>4. SumFunctionOnSet(g, Jobs) <= SumFunctionOnSet(f, Jobs)
  BY <1>1, SumMonotone, StorageAssumption
<1>5. SumFunctionOnSet(f, Jobs) \in Int /\ SumFunctionOnSet(g, Jobs) \in Int
  BY <1>1, SumIsInt, StorageAssumption
<1> QED
  BY <1>2, <1>3, <1>4, <1>5, StorageAssumption

\* Only the start of a copy takes space in the library, and it follows a look at the disk.
LEMMA StepsKeepLibrary ==
    ASSUME TypeOK, TypeOK', Placed, LibraryKept, [Next]_vars
    PROVE  LibraryKept'
<1> USE DEF settings, budget, files, Goes, Copies
<1>1. shared' = shared /\ size' = size
  BY DEF Next, vars, Reservations, TryReserve, Apply, Release, Transfer, Prepare, Write,
         Buffer, Decrypt, Commit, Discard, Report, Complete, Publication, TakeLock, Assemble, Remux,
         StartArchive, Publish, DiscardStaging, Stop, Remove, Crash
<1>2. \A k \in Jobs : /\ Archived(k) = Has(k, "part") + Has(k, "video")
                      /\ Archived(k)' = Has(k, "part")' + Has(k, "video")'
                      /\ size[k] \in Nat
  BY CopiesTake, CopiesTakeNext DEF CopiesAddUp
<1>3. ASSUME \A k \in Jobs : \A c \in InLibrary : c \in copies'[k] => c \in copies[k]
      PROVE  LibraryKept'
  <2>1. \A k \in Jobs : /\ Has(k, "part")' <= Has(k, "part")
                        /\ Has(k, "video")' <= Has(k, "video")
                        /\ Has(k, "part")' \in Nat /\ Has(k, "video")' \in Nat
                        /\ Has(k, "part") \in Nat /\ Has(k, "video") \in Nat
    BY <1>1, <1>2, <1>3 DEF Has, InLibrary
  <2>2. \A k \in Jobs : Archived(k)' <= Archived(k)
    BY <1>2, <2>1
  <2> QED
    BY <1>1, <2>2, NothingArchived
<1>4. ASSUME NEW j \in Jobs, Reservations(j) \/ Transfer(j) PROVE LibraryKept'
  <2>1. copies' = copies
    BY <1>4 DEF Reservations, TryReserve, Apply, Release, Transfer, Prepare, Write,
                Buffer, Decrypt, Commit, Discard, Report, Complete
  <2> QED
    BY <1>3, <2>1
<1>5. ASSUME NEW j \in Jobs, Publication(j) PROVE LibraryKept'
  <2>1. CASE TakeLock(j)
    BY <1>3, <2>1 DEF TakeLock, TypeOK
  <2>2. CASE Assemble(j)
    BY <1>3, <2>2 DEF Assemble, TypeOK, InLibrary
  <2>3. CASE Remux(j)
    BY <1>3, <2>3 DEF Remux, TypeOK, InLibrary
  <2>4. CASE StartArchive(j)
    \* The worker's own look: there is room for the copy before it begins.
    <3>1. Free(Library)' + (IF "part" \in copies[j] THEN 0 ELSE size[j]) >= MinFree + size[j]
      BY <2>4 DEF StartArchive
    <3> SUFFICES ASSUME ~shared PROVE Free("library")' >= MinFree
      BY <1>1 DEF LibraryKept
    <3>2. Library' = "library"
      BY <1>1 DEF Library
    <3>3. Free(Library)' = Free("library")'
      BY <3>2 DEF Free
    <3>4. Free("library")' \in Int
      <4> DEFINE g == OnLibrary'
      <4>1. \A k \in Jobs : g[k] \in Int
        BY RoomInLibraryNext DEF LibraryRoom, OnLibrary
      <4>2. Free("library")' = Capacity - SumFunctionOnSet(g, Jobs)
        BY <1>1, RoomInLibraryNext DEF LibraryRoom
      <4> HIDE DEF g
      <4> QED
        BY <4>1, <4>2, SumIsInt, StorageAssumption
    <3> QED
      BY <1>2, <3>1, <3>3, <3>4, StorageAssumption
  <2>5. CASE Publish(j)
    <3>1. /\ "part" \in copies[j] /\ "part" \notin copies'[j]
          /\ \A k \in Jobs \ {j} : copies'[k] = copies[k]
      BY <2>5 DEF Publish, Placed, TypeOK
    <3>2. ASSUME NEW k \in Jobs PROVE Archived(k)' <= Archived(k)
      <4>1. /\ Has(k, "part")' \in {0, size[k]} /\ Has(k, "video")' \in {0, size[k]}
            /\ Has(k, "part") \in {0, size[k]} /\ Has(k, "video") \in {0, size[k]}
        BY <1>1, <3>2 DEF Has
      <4>2. k = j => Has(k, "part") = size[k] /\ Has(k, "part")' = 0
        BY <1>1, <3>1 DEF Has
      <4>3. k # j => Has(k, "part")' = Has(k, "part") /\ Has(k, "video")' = Has(k, "video")
        BY <1>1, <3>1, <3>2 DEF Has
      <4> QED
        BY <1>2, <3>2, <4>1, <4>2, <4>3
    <3> QED
      BY <1>1, <3>2, NothingArchived
  <2>6. CASE DiscardStaging(j)
    BY <1>3, <2>6 DEF DiscardStaging, Placed, TypeOK, InLibrary
  <2> QED
    BY <1>5, <2>1, <2>2, <2>3, <2>4, <2>5, <2>6 DEF Publication
<1>6. ASSUME NEW j \in Jobs, Stop(j) PROVE LibraryKept'
  <2>1. \A k \in Jobs : \A c \in InLibrary : c \in copies'[k] => c \in copies[k]
    BY <1>6 DEF Stop, Leftovers, TypeOK, InLibrary
  <2> QED
    BY <1>3, <2>1
<1>7. ASSUME NEW j \in Jobs, Remove(j) PROVE LibraryKept'
  <2>1. \A k \in Jobs : \A c \in InLibrary : c \in copies'[k] => c \in copies[k]
    BY <1>7 DEF Remove, TypeOK, InLibrary
  <2> QED
    BY <1>3, <2>1
<1>8. CASE Crash
  <2>1. \A k \in Jobs : \A c \in InLibrary : c \in copies'[k] => c \in copies[k]
    BY <1>8 DEF Crash, Leftovers, TypeOK, InLibrary
  <2> QED
    BY <1>3, <2>1
<1>9. CASE UNCHANGED vars
  BY <1>3, <1>9 DEF vars
<1> QED
  BY <1>4, <1>5, <1>6, <1>7, <1>8, <1>9 DEF Next

\* To begin with the library is empty.
LEMMA InitLibraryKept == Init => LibraryKept
<1> SUFFICES ASSUME Init, ~shared PROVE Free("library") >= MinFree
  BY DEF LibraryKept
<1> DEFINE f == OnLibrary
<1>1. ASSUME NEW k \in Jobs PROVE f[k] = 0
  <2>1. Has(k, "part") = 0 /\ Has(k, "video") = 0
    BY DEF Init, Has
  <2>2. Archived(k) = Has(k, "part") + Has(k, "video")
    BY InitTypeOK, CopiesTake DEF CopiesAddUp
  <2> QED
    BY <2>1, <2>2 DEF OnLibrary
<1>2. Free("library") = Capacity - SumFunctionOnSet(f, Jobs)
  BY InitTypeOK, RoomInLibrary DEF LibraryRoom
<1> HIDE DEF f
<1>3. SumFunctionOnSet(f, Jobs) = SumFunctionOnSet(f, {})
  <2>1. \A k \in Jobs : f[k] \in Int /\ f[k] = IF k \in {} THEN f[k] ELSE 0
    BY <1>1
  <2> QED
    BY <2>1, SumOfPart, StorageAssumption
<1> QED
  BY <1>2, <1>3, SumOfNone, StorageAssumption

--------------------------------------------------------------------------------
\* The floor.

\* Every step keeps the budget.
LEMMA StepsKeepBudget ==
    ASSUME TypeOK, TypeOK', Placed, Budgeted, [Next]_vars
    PROVE  Budgeted'
<1>1. ASSUME NEW j \in Jobs, Reservations(j) \/ Transfer(j) \/ Publication(j)
      PROVE  Budgeted'
  BY <1>1, ReservationsKeepBudget, TransferKeepsBudget, PublicationKeepsBudget
<1>2. ASSUME NEW j \in Jobs, Stop(j) \/ Remove(j) PROVE Budgeted'
  BY <1>2, StopKeepsBudget, RemoveKeepsBudget
<1>3. CASE Crash
  BY <1>3, CrashKeepsBudget
<1>4. CASE UNCHANGED vars
  <2>1. UNCHANGED <<shared, size, leases, stage, got, copies, missed>>
    BY <1>4 DEF vars, settings, budget, files
  <2>2. \A k \in Jobs : Balance(k)' = Balance(k)
    BY <2>1, Untouched
  <2>3. \A k \in Jobs : Balance(k) <= Balance(k)'
    BY <2>2, AccountsAreSized DEF Sized
  <2>4. Largest(leases') <= Largest(leases)
    BY <2>1, LargestOf DEF TypeOK
  <2> QED
    BY <2>3, <2>4, NoBalanceFalls
<1> QED
  BY <1>1, <1>2, <1>3, <1>4 DEF Next

\* Balances and places: the disk has room for what the transfers may still write and for
\* two copies of the largest medium, but for what the budget misses and what is there.
THEOREM StorageInvariant == Spec => []IInv
<1>1. Init => IInv
  <2>1. Init => Placed
    BY DEF Init, Placed, Finalizing
  <2> QED
    BY <2>1, InitTypeOK, InitBudgeted, InitLibraryKept DEF IInv
<1>2. TypeOK /\ [Next]_vars => TypeOK'
  BY StepsKeepTypes
<1>3. IInv /\ [Next]_vars => IInv'
  BY <1>2, StepsKeepPlaces, StepsKeepBudget, StepsKeepLibrary DEF IInv
<1> QED
  BY <1>1, <1>3, PTL DEF Spec

\* No more than two copies of one medium are made at a time, by the holder of the finalize
\* lock; the copies of all others are what they left.
LEMMA FloorFollows == IInv => FloorIsKept
<1> SUFFICES ASSUME IInv PROVE FloorIsKept
  OBVIOUS
<1> DEFINE M == Largest(leases)
           used == [k \in Jobs |-> got[k] + Copied(k)]
           seen == [k \in Jobs |-> Balance(k)]
           unseen == [k \in Jobs |-> Overrun(k) + missed[k] + Stray(k)]
           spare == [k \in Jobs |-> IF k = lock THEN 2 * M ELSE 0]
           more == [k \in Jobs |-> unseen[k] + spare[k]]
           all == [k \in Jobs |-> used[k] + seen[k]]
<1>1. TypeOK /\ M \in Nat /\ Capacity + SumFunctionOnSet(seen, Jobs) >= MinFree + 2 * M
  BY LargestOf DEF IInv, TypeOK, Budgeted, SumFunction
<1>2. ASSUME NEW k \in Jobs
      PROVE  /\ used[k] \in Int /\ seen[k] \in Int /\ unseen[k] \in Int /\ spare[k] \in Int
             /\ all[k] <= more[k]
  <2>1. /\ size[k] \in Nat /\ got[k] \in Nat /\ missed[k] \in Nat /\ Copied(k) \in Nat
        /\ Made(k) \in Nat /\ Overdraft(k) \in Nat /\ Undone(k) \in Nat
        /\ \A c : Has(k, c) \in Nat
    BY <1>1, AccountsAreSized DEF Sized
  <2> DEFINE over == IF leases[k] # None /\ lock = k THEN 2 * Excess(size[k], M) ELSE 0
  <2>2. Overrun(k) = Overdraft(k) + over /\ over \in Nat
    BY <1>1, <2>1 DEF Overrun, Overdraft, Excess
  <2>3. /\ Stray(k) \in Nat
        /\ lock # k /\ stage[k] \in {"queued", "ended", "done"} => Stray(k) = Made(k)
        /\ lock # k /\ stage[k] = "published" => Made(k) <= Stray(k)
    <3>1. /\ size[k] * Cardinality(copies[k] \cap InStaging) =
                 Has(k, "ts") + Has(k, "mp4") + Has(k, "ts.part") + Has(k, "mp4.part")
          /\ Archived(k) = Has(k, "part") + Has(k, "video")
      BY <1>1, CopiesTake DEF CopiesAddUp
    <3>2. Min({Archived(k), got[k]}) = IF Archived(k) <= got[k] THEN Archived(k) ELSE got[k]
      BY <2>1, <3>1, MinOfTwo
    <3>3. Stray(k) = IF lock = k THEN 0
                     ELSE Has(k, "ts") + Has(k, "mp4") + Has(k, "ts.part") + Has(k, "mp4.part")
                          + (IF ~shared THEN 0
                             ELSE IF Has(k, "part") + Has(k, "video") <= got[k]
                                  THEN Has(k, "part") + Has(k, "video") ELSE got[k])
      BY <1>1, <3>1, <3>2 DEF Stray, TypeOK
    <3>4. stage[k] \in {"queued", "ended", "done"} =>
              Made(k) = Has(k, "ts") + Has(k, "mp4") + Has(k, "ts.part") + Has(k, "mp4.part")
                        + (IF ~shared THEN 0
                           ELSE IF Has(k, "part") + Has(k, "video") <= got[k]
                                THEN Has(k, "part") + Has(k, "video") ELSE got[k])
      BY <1>1, CopiesAreCounted DEF CopiesCounted
    <3>5. stage[k] = "published" =>
              /\ Made(k) = IF shared THEN 2 * size[k] ELSE size[k]
              /\ got[k] = size[k]
              /\ Has(k, "mp4") = size[k] /\ Has(k, "video") = size[k]
      BY DEF Made, Writing, Has, IInv, Placed
    <3> QED
      BY <2>1, <3>3, <3>4, <3>5
  <2>4. lock = k => leases[k] # None /\ Made(k) <= 2 * size[k]
    <3> SUFFICES ASSUME lock = k PROVE leases[k] # None /\ Made(k) <= 2 * size[k]
      OBVIOUS
    <3>1. stage[k] \in Finalizing /\ leases[k] # None
      BY <1>1 DEF TypeOK, Running
    <3> QED
      BY <2>1, <3>1 DEF Made, Finalizing, Writing
  <2>5. lock # k => Made(k) <= Stray(k)
    <3>1. lock # k => stage[k] \in Stages \ Finalizing
      BY <1>1 DEF TypeOK
    <3>2. stage[k] \in Writing \cup {"complete"} => Made(k) = 0
      BY DEF Made, Writing
    <3> QED
      BY <2>1, <2>3, <3>1, <3>2 DEF Stages, Running, Writing
  <2>6. Made(k) <= Stray(k) + over + spare[k] /\ spare[k] \in Int
    BY <1>1, <2>1, <2>2, <2>3, <2>4, <2>5 DEF Excess
  <2>7. seen[k] = Overdraft(k) + missed[k] + Made(k) - Undone(k) - got[k] - Copied(k)
    BY DEF Balance
  <2> HIDE DEF over, M
  <2> QED
    BY <2>1, <2>2, <2>3, <2>6, <2>7
<1>3. /\ \A k \in Jobs : more[k] = unseen[k] + spare[k] /\ more[k] \in Int
      /\ \A k \in Jobs : all[k] = used[k] + seen[k] /\ all[k] \in Int
  BY <1>2
<1>4. Free("staging") = Capacity - SumFunctionOnSet(used, Jobs)
  BY <1>1, RoomInStaging DEF StagingRoom, OnStaging
<1>5. \A k \in Jobs \ {lock} : spare[k] = 0
  OBVIOUS
<1>6. \A k \in Jobs : k = lock => spare[k] = 2 * M
  OBVIOUS
<1>7. SumFunction(unseen) = SumFunctionOnSet(unseen, Jobs)
  BY DEF SumFunction
<1> HIDE DEF used, seen, unseen, spare, more, all, M
<1>8. /\ SumFunctionOnSet(more, Jobs)
             = SumFunctionOnSet(unseen, Jobs) + SumFunctionOnSet(spare, Jobs)
      /\ SumFunctionOnSet(all, Jobs)
             = SumFunctionOnSet(used, Jobs) + SumFunctionOnSet(seen, Jobs)
  BY <1>2, <1>3, SumOfSums, StorageAssumption
<1>9. SumFunctionOnSet(all, Jobs) <= SumFunctionOnSet(more, Jobs)
  BY <1>2, <1>3, SumMonotone, StorageAssumption
<1>10. SumFunctionOnSet(spare, Jobs) <= 2 * M
  <2>1. \A k \in Jobs : spare[k] \in Int /\ spare[k] = IF k \in Jobs \cap {lock} THEN spare[k] ELSE 0
    BY <1>2, <1>5
  <2>2. SumFunctionOnSet(spare, Jobs) = SumFunctionOnSet(spare, Jobs \cap {lock})
    BY <2>1, SumOfPart, StorageAssumption
  <2>3. CASE lock \notin Jobs
    <3>1. Jobs \cap {lock} = {}
      BY <2>3
    <3>2. SumFunctionOnSet(spare, Jobs \cap {lock}) = SumFunctionOnSet(spare, {})
      BY <3>1, Zenon
    <3> QED
      BY <1>1, <2>2, <3>2, SumOfNone
  <2>4. CASE lock \in Jobs
    <3>1. SumFunctionOnSet(spare, Jobs \cap {lock})
              = spare[lock] + SumFunctionOnSet(spare, (Jobs \cap {lock}) \ {lock})
      <4>1. Jobs \cap {lock} \in SUBSET Jobs /\ lock \in Jobs \cap {lock}
        BY <2>4
      <4> QED
        BY <1>2, <4>1, SumWithout, StorageAssumption
    <3>2. (Jobs \cap {lock}) \ {lock} = {}
      OBVIOUS
    <3>3. SumFunctionOnSet(spare, (Jobs \cap {lock}) \ {lock}) = SumFunctionOnSet(spare, {})
      BY <3>2, Zenon
    <3> QED
      BY <1>1, <1>6, <2>2, <2>4, <3>1, <3>3, SumOfNone
  <2> QED
    BY <2>3, <2>4
<1>11. /\ SumFunctionOnSet(used, Jobs) \in Int /\ SumFunctionOnSet(seen, Jobs) \in Int
       /\ SumFunctionOnSet(unseen, Jobs) \in Int /\ SumFunctionOnSet(spare, Jobs) \in Int
  BY <1>2, SumIsInt, StorageAssumption
<1>12. Free("staging") + SumFunction(unseen) >= MinFree
  BY <1>1, <1>4, <1>7, <1>8, <1>9, <1>10, <1>11, StorageAssumption
<1> QED
  BY <1>12 DEF FloorIsKept, unseen, IInv, LibraryKept

\* The free space stays above min_free_bytes but for what the budget is known to miss.
THEOREM FloorStaysKept == Spec => []FloorIsKept
BY StorageInvariant, FloorFollows, PTL
================================================================================
