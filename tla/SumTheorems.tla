----------------------------- MODULE SumTheorems -----------------------------
(***************************************************************************)
(* Facts about sums over finite sets, which Folds defines by recursion:    *)
(* what MapThenSumSet returns when an element is added or taken away.      *)
(* The books of Ledger, SettlementService and DemoServer are such sums.    *)
(* The recursion is unfolded by induction on the size of the set, stated   *)
(* with sets of numbers.                                                   *)
(***************************************************************************)
EXTENDS FiniteSetsExt, FiniteSetTheorems, TLAPS

\* The sum of w[x] for the x in S.
SumBy(w, S) == MapThenSumSet(LAMBDA x : w[x], S)

Pick(s) == CHOOSE x \in s : TRUE

\* f is what MapThenFoldSet calls iter, for the sum of w over subsets of S.
Sums(f, S, w) ==
    f = [s \in SUBSET S |-> IF s = {} THEN 0 ELSE w[Pick(s)] + f[s \ {Pick(s)}]]

LEMMA SumByUnfolded ==
  ASSUME NEW w, NEW S
  PROVE  SumBy(w, S) = (CHOOSE f : Sums(f, S, w))[S]
  BY DEF SumBy, MapThenSumSet, MapThenFoldSet, Sums, Pick

\* A set of naturals with 0 and every successor has them all.
LEMMA AllNaturals ==
  ASSUME NEW N, N \subseteq Nat, 0 \in N, \A n \in N : n + 1 \in N
  PROVE  N = Nat
  <1> DEFINE Rest == Nat \ N
  <1> SUFFICES ASSUME Rest # {} PROVE FALSE
    OBVIOUS
  <1>1. IsWellFoundedOn(OpToRel(<, Nat), Nat)
    BY NatLessThanWellFounded
  <1>2. \E m \in Rest : \A k \in Rest : ~(<<k, m>> \in OpToRel(<, Nat))
    BY <1>1, WFMin, Zenon
  <1>3. \A k, m \in Nat : k < m => <<k, m>> \in OpToRel(<, Nat)
    <2> SUFFICES ASSUME NEW k \in Nat, NEW m \in Nat, k < m
                 PROVE  <<k, m>> \in OpToRel(<, Nat)
      BY Zenon
    <2>1. <<k, m>> \in Nat \X Nat /\ <<k, m>>[1] < <<k, m>>[2]
      OBVIOUS
    <2> QED
      BY <2>1, Zenon DEF OpToRel
  <1>4. \E m \in Rest : \A k \in Rest : ~(k < m)
    BY <1>2, <1>3, Zenon
  <1>5. PICK m \in Rest : \A k \in Rest : ~(k < m)
    BY <1>4
  <1>6. m - 1 \in N
    BY <1>5
  <1>7. (m - 1) + 1 = m
    BY <1>5
  <1> QED
    BY <1>5, <1>6, <1>7

-----------------------------------------------------------------------------
\* The recursion has a solution on any finite set.
LEMMA SumsExist ==
  ASSUME NEW S, IsFiniteSet(S), NEW w, \A x \in S : w[x] \in Int
  PROVE  \E f \in [SUBSET S -> Int] : Sums(f, S, w)
  <1> DEFINE Next(f, s) == IF s = {} THEN 0 ELSE w[Pick(s)] + f[s \ {Pick(s)}]
             UpTo(n) == \E f \in [SUBSET S -> Int] :
                           \A s \in SUBSET S : Cardinality(s) <= n => f[s] = Next(f, s)
             N == {n \in Nat : UpTo(n)}
  <1>1. \A s \in SUBSET S : /\ IsFiniteSet(s) /\ Cardinality(s) \in Nat
                            /\ Cardinality(s) = 0 <=> s = {}
    BY FS_Subset, FS_CardinalityType, FS_EmptySet
  <1>2. \A s \in SUBSET S : s # {} =>
            /\ Pick(s) \in s /\ w[Pick(s)] \in Int
            /\ s \ {Pick(s)} \in SUBSET S
            /\ Cardinality(s \ {Pick(s)}) = Cardinality(s) - 1
    BY <1>1, FS_RemoveElement DEF Pick
  <1>3. 0 \in N
    <2> DEFINE f == [s \in SUBSET S |-> 0]
    <2>1. f \in [SUBSET S -> Int] /\ \A s \in SUBSET S : Cardinality(s) <= 0 => f[s] = Next(f, s)
      BY <1>1
    <2> QED
      BY <2>1
  <1>4. ASSUME NEW n \in N
        PROVE  n + 1 \in N
    <2>1. PICK f \in [SUBSET S -> Int] :
             \A s \in SUBSET S : Cardinality(s) <= n => f[s] = Next(f, s)
      BY <1>4
    <2> DEFINE g == [s \in SUBSET S |-> IF Cardinality(s) <= n THEN f[s] ELSE Next(f, s)]
    <2>2. g \in [SUBSET S -> Int]
      BY <1>2, <2>1
    <2>3. ASSUME NEW s \in SUBSET S, Cardinality(s) <= n + 1
          PROVE  g[s] = Next(g, s)
      <3>1. g[s] = Next(f, s)
        BY <2>1
      <3>2. s # {} => g[s \ {Pick(s)}] = f[s \ {Pick(s)}]
        BY <1>1, <1>2, <2>3, <1>4
      <3> QED
        BY <3>1, <3>2
    <2> HIDE DEF g, Next
    <2>4. n + 1 \in Nat
      BY <1>4
    <2>5. UpTo(n + 1)
      BY <2>2, <2>3, Zenon
    <2> QED
      BY <2>4, <2>5
  <1>5. N = Nat
    <2> HIDE DEF N
    <2> N \subseteq Nat
      BY DEF N
    <2> QED
      BY <1>3, <1>4, AllNaturals
  <1>6. Cardinality(S) \in N
    BY <1>1, <1>5
  <1>7. PICK f \in [SUBSET S -> Int] :
           \A s \in SUBSET S : Cardinality(s) <= Cardinality(S) => f[s] = Next(f, s)
    BY <1>6
  <1>8. \A s \in SUBSET S : f[s] = Next(f, s)
    BY <1>7, FS_Subset
  <1> QED
    BY <1>8 DEF Sums

\* Two solutions agree on every set both speak of.
LEMMA SumsAgree ==
  ASSUME NEW S, NEW T, NEW w, NEW f, NEW g, Sums(f, S, w), Sums(g, T, w),
         NEW s, IsFiniteSet(s), s \subseteq S, s \subseteq T
  PROVE  f[s] = g[s]
  <1> DEFINE N == {n \in Nat : \A r \in SUBSET s : Cardinality(r) = n => f[r] = g[r]}
  <1>1. \A r \in SUBSET s : /\ IsFiniteSet(r) /\ Cardinality(r) \in Nat
                            /\ Cardinality(r) = 0 <=> r = {}
    BY FS_Subset, FS_CardinalityType, FS_EmptySet
  <1>2. \A r \in SUBSET s :
           /\ f[r] = IF r = {} THEN 0 ELSE w[Pick(r)] + f[r \ {Pick(r)}]
           /\ g[r] = IF r = {} THEN 0 ELSE w[Pick(r)] + g[r \ {Pick(r)}]
    <2>1. \A r \in SUBSET s : r \in SUBSET S /\ r \in SUBSET T
      OBVIOUS
    <2> QED
      BY <2>1 DEF Sums
  <1>3. 0 \in N
    BY <1>1, <1>2
  <1>4. ASSUME NEW n \in N
        PROVE  n + 1 \in N
    <2> SUFFICES ASSUME NEW r \in SUBSET s, Cardinality(r) = n + 1
                 PROVE  f[r] = g[r]
      BY <1>4
    <2>1. r # {} /\ Pick(r) \in r
      BY <1>1 DEF Pick
    <2>2. Cardinality(r \ {Pick(r)}) = n
      BY <2>1, <1>1, FS_RemoveElement
    <2>3. f[r \ {Pick(r)}] = g[r \ {Pick(r)}]
      BY <2>2, <1>4
    <2> QED
      BY <2>1, <2>3, <1>2
  <1>5. N = Nat
    <2> HIDE DEF N
    <2> N \subseteq Nat
      BY DEF N
    <2> QED
      BY <1>3, <1>4, AllNaturals
  <1> QED
    BY <1>1, <1>5

-----------------------------------------------------------------------------
\* One element is summed at a time, the picked one first.
LEMMA SumByRecursion ==
  ASSUME NEW S, IsFiniteSet(S), NEW w, \A x \in S : w[x] \in Int
  PROVE  /\ SumBy(w, S) \in Int
         /\ SumBy(w, S) = IF S = {} THEN 0
                          ELSE w[Pick(S)] + SumBy(w, S \ {Pick(S)})
  <1> DEFINE iter(T) == CHOOSE f : Sums(f, T, w)
  <1>1. ASSUME NEW T \in SUBSET S
        PROVE  Sums(iter(T), T, w)
    BY FS_Subset, SumsExist
  <1>2. PICK f \in [SUBSET S -> Int] : Sums(f, S, w)
    BY SumsExist
  <1>3. ASSUME NEW T \in SUBSET S
        PROVE  SumBy(w, T) = f[T]
    <2>1. IsFiniteSet(T)
      BY FS_Subset
    <2>2. iter(T)[T] = f[T]
      BY <1>1, <1>2, <2>1, SumsAgree
    <2> QED
      BY <2>2, SumByUnfolded
  <1>4. f[S] = IF S = {} THEN 0 ELSE w[Pick(S)] + f[S \ {Pick(S)}]
    BY <1>2 DEF Sums
  <1>5. S \in SUBSET S /\ S \ {Pick(S)} \in SUBSET S
    OBVIOUS
  <1> QED
    BY <1>2, <1>3, <1>4, <1>5

\* Any element may be taken out of the sum.
LEMMA SumByRemove ==
  ASSUME NEW S, IsFiniteSet(S), NEW w, \A y \in S : w[y] \in Int, NEW x \in S
  PROVE  SumBy(w, S) = w[x] + SumBy(w, S \ {x})
  <1> DEFINE Splits(n) ==
        \A T \in SUBSET S : Cardinality(T) = n =>
            \A y \in T : SumBy(w, T) = w[y] + SumBy(w, T \ {y})
             N == {n \in Nat : Splits(n)}
  <1>1. \A T \in SUBSET S : /\ IsFiniteSet(T) /\ Cardinality(T) \in Nat
                            /\ Cardinality(T) = 0 <=> T = {}
    BY FS_Subset, FS_CardinalityType, FS_EmptySet
  <1>2. \A T \in SUBSET S : T # {} =>
           Pick(T) \in T /\ SumBy(w, T) = w[Pick(T)] + SumBy(w, T \ {Pick(T)})
    BY <1>1, SumByRecursion DEF Pick
  <1>3. \A T \in SUBSET S : SumBy(w, T) \in Int
    BY <1>1, SumByRecursion
  <1>4. 0 \in N
    BY <1>1
  <1>5. ASSUME NEW n \in N
        PROVE  n + 1 \in N
    <2> SUFFICES ASSUME NEW T \in SUBSET S, Cardinality(T) = n + 1, NEW y \in T
                 PROVE  SumBy(w, T) = w[y] + SumBy(w, T \ {y})
      BY <1>5
    <2> DEFINE z == Pick(T)
    <2>1. z \in T /\ SumBy(w, T) = w[z] + SumBy(w, T \ {z})
      BY <1>2
    <2> HIDE DEF z
    <2>2. CASE y = z
      BY <2>1, <2>2
    <2>3. CASE y # z
      <3>1. \A v \in T : Cardinality(T \ {v}) = n
        <4>1. IsFiniteSet(T) /\ n \in Nat
          BY <1>1, <1>5
        <4>2. \A v \in T : Cardinality(T \ {v}) = Cardinality(T) - 1
          BY <4>1, FS_RemoveElement, Zenon
        <4> HIDE DEF N
        <4> QED
          BY <4>1, <4>2
      <3>2. /\ SumBy(w, T \ {z}) = w[y] + SumBy(w, (T \ {z}) \ {y})
            /\ SumBy(w, T \ {y}) = w[z] + SumBy(w, (T \ {y}) \ {z})
        BY <2>1, <2>3, <3>1, <1>5
      <3>3. (T \ {z}) \ {y} = (T \ {y}) \ {z}
        OBVIOUS
      <3> DEFINE m == SumBy(w, (T \ {y}) \ {z})
      <3>4. w[y] \in Int /\ w[z] \in Int /\ m \in Int
        BY <2>1, <1>3
      <3>5. /\ SumBy(w, T) = w[z] + (w[y] + m)
            /\ SumBy(w, T \ {y}) = w[z] + m
        BY <2>1, <3>2, <3>3, Zenon
      <3> HIDE DEF m
      <3> QED
        BY <3>4, <3>5
    <2> QED
      BY <2>2, <2>3
  <1>6. N = Nat
    <2> HIDE DEF N
    <2> N \subseteq Nat
      BY DEF N
    <2> QED
      BY <1>4, <1>5, AllNaturals
  <1> QED
    BY <1>1, <1>6

(* The sum over a set and one element more (MapThenSumSet of Folds).       *)
THEOREM SumByAdd ==
  ASSUME NEW S, IsFiniteSet(S), NEW x, x \notin S, NEW w,
         \A y \in S \cup {x} : w[y] \in Int
  PROVE  SumBy(w, S \cup {x}) = SumBy(w, S) + w[x]
  <1>1. IsFiniteSet(S \cup {x})
    BY FS_AddElement
  <1>2. (S \cup {x}) \ {x} = S
    OBVIOUS
  <1>3. SumBy(w, S) \in Int
    BY SumByRecursion
  <1> QED
    BY <1>1, <1>2, <1>3, SumByRemove

THEOREM SumByEmpty == \A w : SumBy(w, {}) = 0
  BY SumByRecursion, FS_EmptySet

(* A sum of naturals is one.                                               *)
THEOREM SumByNat ==
  ASSUME NEW S, IsFiniteSet(S), NEW w, \A x \in S : w[x] \in Nat
  PROVE  SumBy(w, S) \in Nat
  <1> DEFINE Counts(n) == \A T \in SUBSET S : Cardinality(T) = n => SumBy(w, T) \in Nat
             N == {n \in Nat : Counts(n)}
  <1>1. \A T \in SUBSET S : /\ IsFiniteSet(T) /\ Cardinality(T) \in Nat
                            /\ Cardinality(T) = 0 <=> T = {}
    BY FS_Subset, FS_CardinalityType, FS_EmptySet
  <1>2. ASSUME NEW T \in SUBSET S, NEW x \in T
        PROVE  SumBy(w, T) = w[x] + SumBy(w, T \ {x})
    <2>1. IsFiniteSet(T) /\ \A y \in T : w[y] \in Int
      BY <1>1
    <2> QED
      BY <2>1, SumByRemove
  <1>3. \A T \in SUBSET S : \A x \in T : Cardinality(T \ {x}) = Cardinality(T) - 1
    BY <1>1, FS_RemoveElement
  <1>4. 0 \in N
    BY <1>1, SumByEmpty
  <1>5. ASSUME NEW n \in N
        PROVE  n + 1 \in N
    <2>1. n \in Nat /\ Counts(n)
      OBVIOUS
    <2>2. ASSUME NEW T \in SUBSET S, Cardinality(T) = n + 1
          PROVE  SumBy(w, T) \in Nat
      <3>1. PICK x \in T : TRUE
        BY <1>1, <2>1, <2>2
      <3>2. T \ {x} \in SUBSET S /\ Cardinality(T \ {x}) = n
        BY <1>3, <2>1, <2>2, <3>1
      <3>3. SumBy(w, T \ {x}) \in Nat /\ w[x] \in Nat
        BY <2>1, <3>1, <3>2
      <3> QED
        BY <1>2, <3>1, <3>3
    <2> QED
      BY <2>1, <2>2
  <1>6. N = Nat
    <2> HIDE DEF N
    <2>1. N \subseteq Nat
      BY DEF N
    <2> QED
      BY <1>4, <1>5, <2>1, AllNaturals
  <1>7. Cardinality(S) \in N
    BY <1>1, <1>6
  <1> QED
    BY <1>7

-----------------------------------------------------------------------------
(* A sum reads its terms only: functions that agree on a set have the same *)
(* sum over it.                                                            *)
THEOREM SumBySame ==
  ASSUME NEW S, IsFiniteSet(S), NEW w, NEW v,
         \A x \in S : w[x] \in Int /\ v[x] = w[x]
  PROVE  SumBy(v, S) = SumBy(w, S)
  <1>1. PICK f \in [SUBSET S -> Int] : Sums(f, S, w)
    BY SumsExist
  <1>2. \A s \in SUBSET S : s # {} => v[Pick(s)] = w[Pick(s)]
    BY DEF Pick
  <1>3. [s \in SUBSET S |-> IF s = {} THEN 0 ELSE w[Pick(s)] + f[s \ {Pick(s)}]]
          = [s \in SUBSET S |-> IF s = {} THEN 0 ELSE v[Pick(s)] + f[s \ {Pick(s)}]]
    BY <1>2
  <1>4. Sums(f, S, v)
    BY <1>1, <1>3 DEF Sums
  <1>5. /\ Sums(CHOOSE g : Sums(g, S, w), S, w)
        /\ Sums(CHOOSE g : Sums(g, S, v), S, v)
    BY <1>1, <1>4
  <1>6. /\ (CHOOSE g : Sums(g, S, w))[S] = f[S]
        /\ (CHOOSE g : Sums(g, S, v))[S] = f[S]
    BY <1>1, <1>4, <1>5, SumsAgree
  <1> QED
    BY <1>6, SumByUnfolded

(* Changing one term changes the sum by as much.                           *)
THEOREM SumByChange ==
  ASSUME NEW S, IsFiniteSet(S), NEW x \in S, NEW w, NEW v, v[x] \in Int,
         \A y \in S : w[y] \in Int, \A y \in S \ {x} : v[y] = w[y]
  PROVE  SumBy(v, S) = SumBy(w, S) + v[x] - w[x]
  <1>1. IsFiniteSet(S \ {x})
    BY FS_RemoveElement
  <1>2. SumBy(v, S \ {x}) = SumBy(w, S \ {x}) /\ SumBy(w, S \ {x}) \in Int
    BY <1>1, SumBySame, SumByRecursion
  <1>3. \A y \in S : v[y] \in Int
    OBVIOUS
  <1>4. /\ SumBy(v, S) = v[x] + SumBy(v, S \ {x})
        /\ SumBy(w, S) = w[x] + SumBy(w, S \ {x})
    BY <1>3, SumByRemove
  <1> DEFINE rest == SumBy(w, S \ {x})
  <1>5. SumBy(v, S) = v[x] + rest /\ SumBy(w, S) = w[x] + rest /\ rest \in Int
    BY <1>2, <1>4
  <1>6. w[x] \in Int
    OBVIOUS
  <1> HIDE DEF rest
  <1> QED
    BY <1>5, <1>6

\* The sum over the elements q of S with kind[q] = k.
SumOfKind(w, S, kind, k) == SumBy(w, {q \in S : kind[q] = k})

(* The sum over the elements of a kind, when one element more comes in.    *)
THEOREM SumByFilter ==
  ASSUME NEW S, IsFiniteSet(S), NEW p, p \notin S, NEW w, NEW kind, NEW k,
         \A q \in S : w[q] \in Int, w[p] \in Int
  PROVE  /\ SumOfKind(w, S, kind, k) \in Int
         /\ kind[p] = k => SumOfKind(w, S \cup {p}, kind, k) = SumOfKind(w, S, kind, k) + w[p]
         /\ kind[p] # k => SumOfKind(w, S \cup {p}, kind, k) = SumOfKind(w, S, kind, k)
  <1> DEFINE K == {q \in S : kind[q] = k}
             L == {q \in S \cup {p} : kind[q] = k}
  <1>1. IsFiniteSet(K)
    BY FS_Subset
  <1>2. SumBy(w, K) \in Int
    BY <1>1, SumByRecursion
  <1>3. L = IF kind[p] = k THEN K \cup {p} ELSE K
    OBVIOUS
  <1>4. SumBy(w, K \cup {p}) = SumBy(w, K) + w[p]
    BY <1>1, SumByAdd
  <1>5. /\ SumBy(w, K) \in Int
        /\ kind[p] = k => SumBy(w, L) = SumBy(w, K) + w[p]
        /\ kind[p] # k => SumBy(w, L) = SumBy(w, K)
    <2> HIDE DEF K, L
    <2> QED
      BY <1>2, <1>3, <1>4
  <1> QED
    BY <1>5, Zenon DEF SumOfKind

\* b[a] is start[a] plus what was given to it less what was taken from it, in
\* the payments S.
Balanced(b, A, start, S, taken, given, From, To) ==
    \A a \in A : b[a] = start[a] + SumOfKind(given, S, To, a) - SumOfKind(taken, S, From, a)

\* Two assignments make that transfer, if the accounts differ.
LEMMA TransferByAssignments ==
  ASSUME NEW A, NEW b \in [A -> Int], NEW x \in A, NEW y \in A, x # y,
         NEW m \in Int, NEW n \in Int
  PROVE  [b EXCEPT ![x] = b[x] - m, ![y] = b[y] + n]
            = [a \in A |-> b[a] - (IF a = x THEN m ELSE 0) + (IF a = y THEN n ELSE 0)]
  <1> DEFINE old == [b EXCEPT ![x] = b[x] - m, ![y] = b[y] + n]
             new == [a \in A |-> b[a] - (IF a = x THEN m ELSE 0) + (IF a = y THEN n ELSE 0)]
  <1>1. ASSUME NEW a \in A
        PROVE  old[a] = new[a]
    <2>1. b[a] \in Int
      OBVIOUS
    <2>2. CASE a = x
      BY <2>1, <2>2
    <2>3. CASE a = y
      BY <2>1, <2>3
    <2>4. CASE a # x /\ a # y
      BY <2>1, <2>4
    <2> QED
      BY <2>2, <2>3, <2>4
  <1>2. /\ old = [a \in A |-> old[a]]
        /\ new = [a \in A |-> new[a]]
    OBVIOUS
  <1> HIDE DEF old, new
  <1>3. old = new
    BY <1>1, <1>2
  <1> QED
    BY <1>3 DEF old, new

LEMMA NothingIsBalanced ==
  ASSUME NEW A, NEW start, \A a \in A : start[a] \in Int, NEW taken, NEW given, NEW From, NEW To
  PROVE  Balanced(start, A, start, {}, taken, given, From, To)
  <1> SUFFICES ASSUME NEW a \in A
               PROVE  start[a] = start[a] + SumOfKind(given, {}, To, a)
                                          - SumOfKind(taken, {}, From, a)
    BY DEF Balanced
  <1>1. \A kind : {q \in {} : kind[q] = a} = {}
    OBVIOUS
  <1>2. \A w, kind : SumOfKind(w, {}, kind, a) = 0
    BY <1>1, SumByEmpty, Zenon DEF SumOfKind
  <1> QED
    BY <1>2

(* Such balances stay so when one more payment takes its amount from an    *)
(* account and gives it, rounded in another way perhaps, to another one.   *)
THEOREM TransferIsBooked ==
  ASSUME NEW S, IsFiniteSet(S), NEW p, p \notin S,
         NEW taken, \A q \in S : taken[q] \in Int, taken[p] \in Int,
         NEW given, \A q \in S : given[q] \in Int, given[p] \in Int,
         NEW From, NEW To, NEW A, NEW start, \A a \in A : start[a] \in Int, NEW b \in [A -> Int],
         Balanced(b, A, start, S, taken, given, From, To),
         NEW new,
         new = [a \in A |-> b[a] - (IF a = From[p] THEN taken[p] ELSE 0)
                                 + (IF a = To[p] THEN given[p] ELSE 0)]
  PROVE  Balanced(new, A, start, S \cup {p}, taken, given, From, To)
  <1> SUFFICES ASSUME NEW a \in A
               PROVE  new[a] = start[a] + SumOfKind(given, S \cup {p}, To, a)
                                        - SumOfKind(taken, S \cup {p}, From, a)
    BY DEF Balanced
  <1>1. ASSUME NEW kind
        PROVE  /\ SumOfKind(given, S, kind, a) \in Int
               /\ kind[p] = a => SumOfKind(given, S \cup {p}, kind, a)
                                   = SumOfKind(given, S, kind, a) + given[p]
               /\ kind[p] # a => SumOfKind(given, S \cup {p}, kind, a)
                                   = SumOfKind(given, S, kind, a)
    BY SumByFilter, SMTT(60)
  <1>2. ASSUME NEW kind
        PROVE  /\ SumOfKind(taken, S, kind, a) \in Int
               /\ kind[p] = a => SumOfKind(taken, S \cup {p}, kind, a)
                                   = SumOfKind(taken, S, kind, a) + taken[p]
               /\ kind[p] # a => SumOfKind(taken, S \cup {p}, kind, a)
                                   = SumOfKind(taken, S, kind, a)
    BY SumByFilter, SMTT(60)
  <1> DEFINE in == SumOfKind(given, S, To, a)
             out == SumOfKind(taken, S, From, a)
             newIn == SumOfKind(given, S \cup {p}, To, a)
             newOut == SumOfKind(taken, S \cup {p}, From, a)
  <1>3. /\ in \in Int /\ out \in Int
        /\ To[p] = a => newIn = in + given[p]
        /\ To[p] # a => newIn = in
        /\ From[p] = a => newOut = out + taken[p]
        /\ From[p] # a => newOut = out
    BY <1>1, <1>2, Zenon
  <1>4. b[a] = start[a] + in - out /\ start[a] \in Int /\ given[p] \in Int /\ taken[p] \in Int
    BY DEF Balanced
  <1>5. new[a] = b[a] - (IF a = From[p] THEN taken[p] ELSE 0)
                      + (IF a = To[p] THEN given[p] ELSE 0)
    OBVIOUS
  <1> HIDE DEF in, out, newIn, newOut
  <1>6. new[a] = start[a] + newIn - newOut
    BY <1>3, <1>4, <1>5
  <1> QED
    BY <1>6 DEF in, out, newIn, newOut

=============================================================================
