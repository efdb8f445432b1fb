------------------------ MODULE DownloadSpaceProofs ------------------------
(***************************************************************************)
(* Type correctness of DownloadSpace and the theorem that an App whose     *)
(* size was checked fits, for every choice of volumes, Targets, Apps,      *)
(* layers, sizes and bounds.                                               *)
(*                                                                         *)
(* The sums over sets and the loop over the layers are recursive.  What    *)
(* they compute is shown by the smallest counterexample: a set of finite   *)
(* sets, or of numbers, that is not empty has a smallest member.           *)
(***************************************************************************)
EXTENDS DownloadSpace, FiniteSetTheorems, TLAPS

-----------------------------------------------------------------------------
(* Sums over finite sets. *)

\* A nonempty set of finite sets has a smallest one.
LEMMA SmallestSet ==
  ASSUME NEW S, NEW T, T \subseteq SUBSET S, IsFiniteSet(S), T # {}
  PROVE  \E x \in T : \A y \in T : ~(y \subseteq x /\ y # x)
<1>1. T \subseteq FiniteSubsetsOf(S)
  BY Zenon, FS_Subset DEF FiniteSubsetsOf
<1>2. \E x \in T : \A y \in T : ~ (<<y, x>> \in StrictSubsetOrdering(S))
  BY Zenon, <1>1, WFMin, FS_StrictSubsetOrderingWellFounded
<1>3. \A x, y \in T : y \subseteq x /\ y # x => <<y, x>> \in StrictSubsetOrdering(S)
  BY Zenon DEF StrictSubsetOrdering
<1> QED
  BY Zenon, <1>2, <1>3

\* A nonempty set of numbers has a smallest one.
LEMMA SmallestNumber ==
  ASSUME NEW T, T \subseteq Nat, T # {}
  PROVE  \E x \in T : \A y \in T : ~(y < x)
<1>1. \E x \in T : \A y \in T : ~ (<<y, x>> \in OpToRel(<, Nat))
  BY Zenon, WFMin, NatLessThanWellFounded
<1>2. \A x, y \in T : y < x => <<y, x>> \in OpToRel(<, Nat)
  BY Zenon DEF OpToRel
<1> QED
  BY Zenon, <1>1, <1>2

\* The element a sum takes next.
Pick(s) == CHOOSE x \in s : TRUE

\* A sum by the sums over smaller sets.
Value(f, g, s) == IF s = {} THEN 0 ELSE f[Pick(s)] + g[s \ {Pick(s)}]

\* The sums over the subsets of a set, as SumFunctionOnSet defines them.
IsSum(f, g, S) == g = [s \in SUBSET S |-> Value(f, g, s)]

\* A set that is not empty has the element picked.
LEMMA PickIn == ASSUME NEW s, s # {} PROVE Pick(s) \in s
<1>1. \E x : x \in s
  BY Zenon
<1> QED
  BY Zenon, <1>1 DEF Pick

\* The value of each of the sums.
LEMMA SumValue ==
  ASSUME NEW f, NEW g, NEW S, IsSum(f, g, S)
  PROVE  \A s \in SUBSET S : g[s] = Value(f, g, s)
BY Zenon DEF IsSum

\* The sums over the subsets of two sets agree where both are defined.
LEMMA SumsAgree ==
  ASSUME NEW f, NEW g, NEW h, NEW S, NEW R, IsFiniteSet(S),
         IsSum(f, g, S), IsSum(f, h, R)
  PROVE  \A s \in SUBSET S : s \subseteq R => g[s] = h[s]
<1> DEFINE bad == {s \in SUBSET S : s \subseteq R /\ g[s] # h[s]}
<1> SUFFICES ASSUME bad # {} PROVE FALSE
  BY Zenon
<1>0. bad \subseteq SUBSET S
  BY Zenon
<1>1. PICK x \in bad : \A y \in bad : ~(y \subseteq x /\ y # x)
  <2> HIDE DEF bad
  <2> QED
    BY <1>0, SmallestSet
<1>2. x \in SUBSET S /\ x \in SUBSET R /\ g[x] # h[x]
  BY Zenon
<1> HIDE DEF bad
<1>3. g[x] = Value(f, g, x) /\ h[x] = Value(f, h, x)
  BY Zenon, <1>2, SumValue
<1>4. x # {}
  BY Zenon, <1>2, <1>3 DEF Value
<1>5. x \ {Pick(x)} \in SUBSET S /\ x \ {Pick(x)} # x /\ x \ {Pick(x)} \subseteq R
  BY Zenon, <1>2, <1>4, PickIn
<1>6. g[x \ {Pick(x)}] = h[x \ {Pick(x)}]
  BY Zenon, <1>1, <1>5 DEF bad
<1> QED
  BY Zenon, <1>2, <1>3, <1>4, <1>6 DEF Value

\* There are such sums for a finite set.
LEMMA SumExists ==
  ASSUME NEW f, NEW S, IsFiniteSet(S)
  PROVE  \E g : IsSum(f, g, S)
<1> DEFINE Has(s) == \E g : IsSum(f, g, s)
           The(s) == CHOOSE g : IsSum(f, g, s)
           bad == {s \in SUBSET S : ~Has(s)}
<1>the. ASSUME NEW s, Has(s) PROVE IsSum(f, The(s), s)
  BY Zenon, <1>the
<1> HIDE DEF The
<1> SUFFICES ASSUME bad # {} PROVE FALSE
  BY Zenon
<1>0. bad \subseteq SUBSET S
  BY Zenon
<1>1. PICK x \in bad : \A y \in bad : ~(y \subseteq x /\ y # x)
  <2> HIDE DEF bad
  <2> QED
    BY <1>0, SmallestSet
<1>2. x \in SUBSET S /\ ~Has(x) /\ IsFiniteSet(x)
  BY Zenon, FS_Subset
<1>3. \A s \in SUBSET x : s # x => IsSum(f, The(s), s) /\ IsFiniteSet(s)
  BY Zenon, <1>1, <1>2, <1>the, FS_Subset
<1> HIDE DEF bad
<1> DEFINE v == [s \in SUBSET x |->
                   IF s # x THEN The(s)[s]
                   ELSE IF s = {} THEN 0
                   ELSE f[Pick(s)] + The(s \ {Pick(s)})[s \ {Pick(s)}]]
<1>4. ASSUME NEW s \in SUBSET x PROVE v[s] = Value(f, v, s)
  <2>1. CASE s = x
    <3>1. s # {} => Pick(s) \in s
      BY Zenon, PickIn
    <3>2. s # {} => v[s \ {Pick(s)}] = The(s \ {Pick(s)})[s \ {Pick(s)}]
      BY Zenon, <2>1, <3>1
    <3> QED
      BY Zenon, <2>1, <3>2 DEF Value
  <2>2. CASE s # x
    <3>1. IsSum(f, The(s), s) /\ s \in SUBSET s /\ v[s] = The(s)[s]
      BY Zenon, <1>3, <2>2
    <3>2. The(s)[s] = Value(f, The(s), s)
      BY Zenon, <3>1, SumValue
    <3>3. CASE s = {}
      BY Zenon, <3>1, <3>2, <3>3 DEF Value
    <3>4. CASE s # {}
      <4> DEFINE y == s \ {Pick(s)}
      <4>1. /\ y \in SUBSET x /\ y # x /\ y \in SUBSET s
            /\ y \in SUBSET y /\ v[y] = The(y)[y]
        BY Zenon, <2>2, <3>4, PickIn
      <4>2. IsSum(f, The(y), y) /\ IsFiniteSet(y)
        BY Zenon, <1>3, <4>1
      <4>3. The(y)[y] = The(s)[y]
        <5> HIDE DEF y, v
        <5> QED
          BY <3>1, <4>1, <4>2, SumsAgree
      <4> HIDE DEF v
      <4> QED
        BY Zenon, <3>1, <3>2, <3>4, <4>1, <4>3 DEF Value
    <3> QED
      BY Zenon, <3>3, <3>4
  <2> QED
    BY Zenon, <2>1, <2>2
<1>5. v = [s \in SUBSET x |-> Value(f, v, s)]
  BY Zenon, <1>4
<1>6. IsSum(f, v, x)
  BY Zenon, <1>5 DEF IsSum
<1> QED
  BY Zenon, <1>2, <1>6

\* The sum over a finite set: one member after the other.
LEMMA SumUnfolds ==
  ASSUME NEW f, NEW S, IsFiniteSet(S)
  PROVE  /\ SumFunctionOnSet(f, {}) = 0
         /\ S # {} => SumFunctionOnSet(f, S) =
                         f[Pick(S)] + SumFunctionOnSet(f, S \ {Pick(S)})
<1> DEFINE The(s) == CHOOSE g : IsSum(f, g, s)
<1>1. ASSUME NEW s PROVE SumFunctionOnSet(f, s) = The(s)[s]
  BY Zenon DEF SumFunctionOnSet, FoldFunctionOnSet, MapThenFoldSet, IsSum, Value, Pick
<1>2. ASSUME NEW s, IsFiniteSet(s) PROVE IsSum(f, The(s), s)
  <2>1. \E g : IsSum(f, g, s)
    BY Zenon, <1>2, SumExists
  <2> QED
    BY Zenon, <2>1
<1> HIDE DEF The
<1>3. ASSUME NEW s, IsFiniteSet(s) PROVE The(s)[s] = Value(f, The(s), s)
  <2>1. s \in SUBSET s
    BY Zenon
  <2> QED
    BY Zenon, <1>2, <1>3, <2>1, SumValue
<1>4. SumFunctionOnSet(f, {}) = 0
  BY Zenon, <1>1, <1>3, FS_EmptySet DEF Value
<1>5. ASSUME S # {}
      PROVE  SumFunctionOnSet(f, S) = f[Pick(S)] + SumFunctionOnSet(f, S \ {Pick(S)})
  <2> DEFINE y == S \ {Pick(S)}
  <2>1. IsFiniteSet(y) /\ y \in SUBSET y /\ y \subseteq S
    BY Zenon, FS_Subset
  <2>2. IsSum(f, The(y), y) /\ IsSum(f, The(S), S)
    BY Zenon, <1>2, <2>1
  <2>3. The(y)[y] = The(S)[y]
    <3> HIDE DEF y
    <3> QED
      BY <2>1, <2>2, SumsAgree
  <2>4. The(S)[S] = f[Pick(S)] + The(S)[y]
    BY Zenon, <1>3, <1>5 DEF Value
  <2>5. SumFunctionOnSet(f, S) = The(S)[S] /\ SumFunctionOnSet(f, y) = The(y)[y]
    BY Zenon, <1>1
  <2> QED
    BY Zenon, <2>3, <2>4, <2>5
<1> QED
  BY Zenon, <1>4, <1>5

\* It is a number, and zero if all members count for nothing.
LEMMA SumType ==
  ASSUME NEW S, NEW f, IsFiniteSet(S), \A x \in S : f[x] \in Nat
  PROVE  /\ SumFunctionOnSet(f, S) \in Nat
         /\ (\A x \in S : f[x] = 0) => SumFunctionOnSet(f, S) = 0
<1> DEFINE Zero(s) == \A x \in s : f[x] = 0
           Good(s) == /\ SumFunctionOnSet(f, s) \in Nat
                      /\ Zero(s) => SumFunctionOnSet(f, s) = 0
           bad == {s \in SUBSET S : ~Good(s)}
<1> SUFFICES ASSUME bad # {} PROVE FALSE
  BY Zenon
<1>0. bad \subseteq SUBSET S
  BY Zenon
<1>1. PICK x \in bad : \A y \in bad : ~(y \subseteq x /\ y # x)
  <2> HIDE DEF bad
  <2> QED
    BY <1>0, SmallestSet
<1>2. x \in SUBSET S /\ ~Good(x) /\ IsFiniteSet(x)
  BY Zenon, FS_Subset
<1>3. x # {}
  <2>1. SumFunctionOnSet(f, {}) = 0
    BY Zenon, SumUnfolds
  <2> QED
    BY <1>2, <2>1
<1> DEFINE y == x \ {Pick(x)}
<1>4. Pick(x) \in x /\ y \in SUBSET S /\ y # x
  BY Zenon, <1>2, <1>3, PickIn
<1>5. Good(y)
  BY Zenon, <1>1, <1>4
<1>6. SumFunctionOnSet(f, x) = f[Pick(x)] + SumFunctionOnSet(f, y)
  <2> HIDE DEF bad
  <2> QED
    BY Zenon, <1>2, <1>3, SumUnfolds
<1>7. f[Pick(x)] \in Nat /\ (Zero(x) => f[Pick(x)] = 0 /\ Zero(y))
  BY Zenon, <1>2, <1>4
<1> HIDE DEF bad, y, Zero
<1> QED
  BY <1>2, <1>5, <1>6, <1>7

\* Any member may be taken out first.
LEMMA SumTakesOut ==
  ASSUME NEW S, NEW f, IsFiniteSet(S), \A x \in S : f[x] \in Nat, NEW z \in S
  PROVE  SumFunctionOnSet(f, S) = f[z] + SumFunctionOnSet(f, S \ {z})
<1> DEFINE Good(s, b) ==
             SumFunctionOnSet(f, s) = f[b] + SumFunctionOnSet(f, s \ {b})
           bad == {s \in SUBSET S : \E b \in s : ~Good(s, b)}
<1> SUFFICES ASSUME bad # {} PROVE FALSE
  BY Zenon
<1>0. bad \subseteq SUBSET S
  BY Zenon
<1>1. PICK x \in bad : \A y \in bad : ~(y \subseteq x /\ y # x)
  <2> HIDE DEF bad
  <2> QED
    BY <1>0, SmallestSet
<1>2. PICK b \in x : ~Good(x, b)
  BY Zenon
<1> DEFINE p == Pick(x)
<1>3. x \in SUBSET S /\ IsFiniteSet(x) /\ p \in x
  BY Zenon, FS_Subset, PickIn
<1>4. \A s \in SUBSET x : s # x => \A c \in s : Good(s, c)
  BY Zenon, <1>1, <1>3
<1>5. Good(x, p)
  <2> HIDE DEF bad
  <2> QED
    BY Zenon, <1>3, SumUnfolds
<1> HIDE DEF p, bad
<1>6. b # p
  BY Zenon, <1>2, <1>5
<1>7. Good(x \ {p}, b) /\ Good(x \ {b}, p)
  BY Zenon, <1>3, <1>4, <1>6
<1>8. (x \ {p}) \ {b} = (x \ {b}) \ {p}
  BY Zenon
<1>9. SumFunctionOnSet(f, (x \ {b}) \ {p}) \in Nat /\ f[b] \in Nat /\ f[p] \in Nat
  <2> DEFINE r == (x \ {b}) \ {p}
  <2>1. IsFiniteSet(r) /\ \A c \in r : f[c] \in Nat
    BY Zenon, <1>3, FS_Subset
  <2>2. f[b] \in Nat /\ f[p] \in Nat
    BY Zenon, <1>3
  <2> QED
    BY Zenon, <2>1, <2>2, SumType
<1> QED
  BY <1>2, <1>5, <1>7, <1>8, <1>9

-----------------------------------------------------------------------------
(* The size of an update. *)

\* The totals that a number of the type tells.
Total == 0 .. 2^Width - 1

\* A sum that does not fit is found, whatever the sizes are.
LEMMA SumIsExact ==
  ASSUME NEW M \in Nat \ {0}, NEW t \in 0 .. M - 1, NEW n \in Nat,
         (t + n) % M >= t, (t + n) % M >= n
  PROVE  (t + n) % M = t + n
<1>1. (t + n) % M \in 0 .. M - 1
  OBVIOUS
<1>2. CASE t + n < M
  BY <1>2
<1>3. CASE t + n >= M
  <2>1. t + n < 2 * M
    BY <1>1
  <2>2. (t + n) % M = t + n - M
    BY <1>3, <2>1
  <2> QED
    BY <1>1, <2>2
<1> QED
  BY <1>2, <1>3

\* AddSize adds, or says that the total is too large.
LEMMA AddSizeIsExact ==
  ASSUME NEW t \in Total \cup {Overflow}, NEW n \in Nat
  PROVE  \/ AddSize(t, n) = Overflow
         \/ t \in Total /\ AddSize(t, n) \in Total /\ AddSize(t, n) = t + n
<1> DEFINE M == 2^Width
<1>1. M \in Nat \ {0}
  BY Zenon, DownloadSpaceAssumption
<1>2. Total = 0 .. M - 1
  BY Zenon DEF Total
<1>3. UInt(t + n) = (t + n) % M
  BY Zenon DEF UInt
<1> HIDE DEF M
<1>4. CASE AddSize(t, n) # Overflow
  <2>1. /\ t # Overflow /\ AddSize(t, n) = (t + n) % M
        /\ ~((t + n) % M < t) /\ ~((t + n) % M < n)
    BY Zenon, <1>3, <1>4 DEF AddSize
  <2>2. t \in 0 .. M - 1
    BY Zenon, <1>2, <2>1
  <2>3. (t + n) % M \in 0 .. M - 1
    BY <1>1, <2>2
  <2>4. (t + n) % M = t + n
    <3>1. (t + n) % M >= t /\ (t + n) % M >= n
      BY <2>1, <2>2, <2>3
    <3> QED
      BY Zenon, <1>1, <2>2, <3>1, SumIsExact
  <2> QED
    BY Zenon, <1>2, <2>1, <2>2, <2>3, <2>4
<1> QED
  BY Zenon, <1>4

\* The sum of the first i layers of an App, as SizeOf computes it.
AddLayer(sizes, u, total, i) ==
  IF LayersOf[u][i] \in blobs THEN total ELSE AddSize(total, sizes[LayersOf[u][i]])

\* The total after i layers, by the one before.
NextTotal(sizes, u, g, i) ==
  IF i = 0 THEN 0 ELSE AddLayer(sizes, u, g[i - 1], i)

\* The totals after each of the first n layers.
AreTotals(sizes, u, g, n) == g = [i \in 0 .. n |-> NextTotal(sizes, u, g, i)]

\* There are such totals.
LEMMA TotalsExist ==
  ASSUME NEW sizes, NEW u, NEW n \in Nat
  PROVE  \E g : AreTotals(sizes, u, g, n)
<1> DEFINE Has(k) == \E g : AreTotals(sizes, u, g, k)
           bad == {k \in Nat : ~Has(k)}
<1> SUFFICES ASSUME bad # {} PROVE FALSE
  BY Zenon
<1>0. bad \subseteq Nat
  BY Zenon
<1>1. PICK k \in bad : \A y \in bad : ~(y < k)
  <2> HIDE DEF bad
  <2> QED
    BY Zenon, <1>0, SmallestNumber
<1>2. k \in Nat /\ ~Has(k)
  BY Zenon
<1>3. k # 0
  <2> DEFINE g == [i \in 0 .. 0 |-> 0]
  <2>1. g = [i \in 0 .. 0 |-> NextTotal(sizes, u, g, i)]
    BY DEF NextTotal
  <2>2. AreTotals(sizes, u, g, 0)
    BY Zenon, <2>1 DEF AreTotals
  <2> QED
    BY Zenon, <1>2, <2>2
<1>4. k - 1 \in Nat /\ Has(k - 1)
  BY <1>1, <1>2, <1>3
<1> HIDE DEF bad
<1>5. PICK g : AreTotals(sizes, u, g, k - 1)
  BY Zenon, <1>4
<1>6. g = [i \in 0 .. k - 1 |-> NextTotal(sizes, u, g, i)]
  BY Zenon, <1>5 DEF AreTotals
<1> DEFINE h == [i \in 0 .. k |-> IF i = k THEN AddLayer(sizes, u, g[k - 1], k) ELSE g[i]]
<1>7. ASSUME NEW i \in 0 .. k PROVE h[i] = NextTotal(sizes, u, h, i)
  <2>1. CASE i = k
    <3>1. h[k - 1] = g[k - 1] /\ h[i] = AddLayer(sizes, u, g[k - 1], k)
      BY <1>2, <1>3, <2>1
    <3> QED
      BY Zenon, <1>3, <2>1, <3>1 DEF NextTotal
  <2>2. CASE i # k
    <3>1. i \in 0 .. k - 1 /\ h[i] = g[i] /\ (i # 0 => h[i - 1] = g[i - 1])
      BY <1>2, <2>2
    <3>2. g[i] = NextTotal(sizes, u, g, i)
      BY Zenon, <1>6, <3>1
    <3> QED
      BY Zenon, <3>1, <3>2 DEF NextTotal
  <2> QED
    BY Zenon, <2>1, <2>2
<1>8. h = [i \in 0 .. k |-> NextTotal(sizes, u, h, i)]
  BY Zenon, <1>7
<1>9. AreTotals(sizes, u, h, k)
  BY Zenon, <1>8 DEF AreTotals
<1> QED
  BY Zenon, <1>2, <1>9

\* If the sum is not too large, it is as large as all missing layers together.
LEMMA SizeOfCovers ==
  ASSUME NEW sizes \in [Blob -> Nat], NEW u \in App
  PROVE  /\ SizeOf(sizes, u) \in Total \cup {Overflow}
         /\ SizeOf(sizes, u) # Overflow =>
              SumFunctionOnSet(sizes, Missing(u)) <= SizeOf(sizes, u)
<1> DEFINE layers == LayersOf[u]
           n == Len(layers)
           The == CHOOSE g : AreTotals(sizes, u, g, n)
           First(i) == {layers[j] : j \in 1 .. i} \ blobs
           Good(i) == /\ The[i] \in Total \cup {Overflow}
                      /\ The[i] # Overflow => SumFunctionOnSet(sizes, First(i)) <= The[i]
<1>1. /\ layers \in Seq(Blob) /\ n \in Nat /\ DOMAIN layers = 1 .. n
      /\ \A i \in 1 .. n : layers[i] \in Blob
  BY DownloadSpaceAssumption
<1>2. SizeOf(sizes, u) = The[n]
  BY Zenon DEF SizeOf, AreTotals, NextTotal, AddLayer
<1>3. AreTotals(sizes, u, The, n)
  <2>1. \E g : AreTotals(sizes, u, g, n)
    BY Zenon, <1>1, TotalsExist
  <2> QED
    BY Zenon, <2>1
<1> HIDE DEF The, n
<1>4. ASSUME NEW i \in 0 .. n PROVE The[i] = NextTotal(sizes, u, The, i)
  BY Zenon, <1>3 DEF AreTotals
<1>5. First(n) = Missing(u)
  BY Zenon, <1>1 DEF Missing, Range
<1>6. ASSUME NEW i \in 0 .. n
      PROVE  First(i) \subseteq Blob /\ IsFiniteSet(First(i))
  <2>1. First(i) \subseteq Blob
    BY <1>1, <1>6
  <2>2. IsFiniteSet(Blob)
    BY Zenon, DownloadSpaceAssumption
  <2> HIDE DEF First
  <2> QED
    BY Zenon, <2>1, <2>2, FS_Subset
<1>7. ASSUME NEW i \in 0 .. n PROVE SumFunctionOnSet(sizes, First(i)) \in Nat
  <2> HIDE DEF First
  <2>1. \A b \in First(i) : sizes[b] \in Nat
    BY Zenon, <1>6
  <2> QED
    BY Zenon, <1>6, <2>1, SumType
<1>8. Good(0)
  <2>1. First(0) = {}
    OBVIOUS
  <2>2. SumFunctionOnSet(sizes, {}) = 0
    BY Zenon, <2>1, <1>6, FS_EmptySet, SumUnfolds
  <2>3. The[0] = 0 /\ 0 \in Total
    <3>1. 0 \in 0 .. n
      BY <1>1
    <3>2. The[0] = 0
      BY Zenon, <1>4, <3>1 DEF NextTotal
    <3>3. 2^Width \in Nat \ {0}
      BY Zenon, DownloadSpaceAssumption
    <3> QED
      BY <3>2, <3>3 DEF Total
  <2> QED
    BY <2>1, <2>2, <2>3
<1>9. ASSUME NEW i \in 1 .. n, Good(i - 1) PROVE Good(i)
  <2> DEFINE b == layers[i]
             size == SumFunctionOnSet(sizes, First(i - 1))
  <2>1. /\ b \in Blob /\ sizes[b] \in Nat /\ i \in 0 .. n /\ i - 1 \in 0 .. n /\ i # 0
        /\ The[i] = AddLayer(sizes, u, The[i - 1], i)
    BY <1>1, <1>4 DEF NextTotal
  <2>2. First(i) = IF b \in blobs THEN First(i - 1) ELSE First(i - 1) \cup {b}
    BY <1>1, <2>1
  <2>3. size \in Nat
    BY Zenon, <1>7, <2>1
  <2>4. CASE b \in blobs
    BY Zenon, <1>9, <2>1, <2>2, <2>4 DEF AddLayer
  <2>5. CASE b \notin blobs
    <3> DEFINE more == SumFunctionOnSet(sizes, First(i))
    <3>1. The[i] = AddSize(The[i - 1], sizes[b])
      BY Zenon, <2>1, <2>5 DEF AddLayer
    <3>2. more <= size + sizes[b]
      <4>1. CASE b \in First(i - 1)
        <5>1. First(i) = First(i - 1)
          BY Zenon, <2>2, <2>5, <4>1
        <5>2. more = size
          BY Zenon, <5>1
        <5> HIDE DEF more, size, b
        <5> QED
          BY <2>1, <2>3, <5>2
      <4>2. CASE b \notin First(i - 1)
        <5>1. b \in First(i) /\ First(i) \ {b} = First(i - 1)
          BY Zenon, <2>2, <2>5, <4>2
        <5>2. IsFiniteSet(First(i)) /\ \A c \in First(i) : sizes[c] \in Nat
          BY Zenon, <1>6, <2>1
        <5>3. more = sizes[b] + SumFunctionOnSet(sizes, First(i) \ {b})
          <6> HIDE DEF First
          <6> QED
            BY Zenon, <5>1, <5>2, SumTakesOut
        <5>4. more = sizes[b] + size
          BY Zenon, <5>1, <5>3
        <5> HIDE DEF more, size, b
        <5> QED
          BY <2>1, <2>3, <5>4
      <4> QED
        BY Zenon, <4>1, <4>2
    <3>3. \/ The[i] = Overflow
          \/ /\ The[i - 1] \in Total /\ The[i] \in Total
             /\ The[i] = The[i - 1] + sizes[b]
      BY Zenon, <1>9, <2>1, <3>1, AddSizeIsExact
    <3>4. Total \subseteq Nat /\ Overflow \notin Total
      BY DownloadSpaceAssumption DEF Total, Overflow
    <3>5. more \in Nat
      BY Zenon, <1>7, <2>1
    <3> HIDE DEF First, size, more, b
    <3>6. CASE The[i] = Overflow
      BY Zenon, <3>6
    <3>7. CASE /\ The[i - 1] \in Total /\ The[i] \in Total
               /\ The[i] = The[i - 1] + sizes[b]
      <4>1. size <= The[i - 1]
        BY Zenon, <1>9, <3>4, <3>7 DEF size
      <4>2. more <= The[i]
        <5>1. The[i - 1] \in Nat /\ The[i] = The[i - 1] + sizes[b] /\ sizes[b] \in Nat
          BY Zenon, <2>1, <3>4, <3>7
        <5> QED
          BY <2>3, <3>2, <3>5, <4>1, <5>1
      <4> QED
        BY Zenon, <3>7, <4>2 DEF more
    <3> QED
      BY Zenon, <3>3, <3>6, <3>7
  <2> QED
    BY Zenon, <2>4, <2>5
<1>10. Good(n)
  <2> DEFINE bad == {i \in 0 .. n : ~Good(i)}
  <2> HIDE DEF Good
  <2> SUFFICES ASSUME bad # {} PROVE FALSE
    BY <1>1
  <2>1. bad \subseteq Nat
    BY <1>1
  <2>2. PICK i \in bad : \A j \in bad : ~(j < i)
    <3> HIDE DEF bad
    <3> QED
      BY Zenon, <2>1, SmallestNumber
  <2>3. i \in 0 .. n /\ ~Good(i)
    BY Zenon
  <2>4. i # 0
    BY Zenon, <1>8, <2>3
  <2>5. i - 1 \in 0 .. n /\ Good(i - 1)
    BY <1>1, <2>2, <2>3, <2>4
  <2> QED
    BY <1>1, <1>9, <2>3, <2>4, <2>5
<1> QED
  BY Zenon, <1>2, <1>5, <1>10

\* The size an App update requires is a number or too large, and precise
\* metadata that can be read gives at least what is missing.
LEMMA RequiredSizeCovers ==
  ASSUME NEW u \in App, NEW readable
  PROVE  LET need == RequiredSize(u, readable)
         IN  /\ need.skopeo \in Total \cup {Overflow}
             /\ need.docker \in Total \cup {Overflow}
             /\ need.skopeo # Overflow =>
                  SumFunctionOnSet(BlobSize, Missing(u)) <= need.skopeo
             /\ /\ Meta[u] = "precise" /\ readable
                /\ need.skopeo # Overflow /\ SizeOf(BlobUsage, u) # Overflow
                => SumFunctionOnSet(BlobUsage, Missing(u)) <= need.docker
<1> DEFINE size == SizeOf(BlobSize, u)
           usage == SizeOf(BlobUsage, u)
           need == RequiredSize(u, readable)
<1>1. BlobSize \in [Blob -> Nat] /\ BlobUsage \in [Blob -> Nat]
  BY Zenon, DownloadSpaceAssumption
<1>2. /\ size \in Total \cup {Overflow}
      /\ size # Overflow => SumFunctionOnSet(BlobSize, Missing(u)) <= size
  BY Zenon, <1>1, SizeOfCovers
<1>3. /\ usage \in Total \cup {Overflow}
      /\ usage # Overflow => SumFunctionOnSet(BlobUsage, Missing(u)) <= usage
  BY Zenon, <1>1, SizeOfCovers
<1>4. size # Overflow =>
        GetDockerStoreSizeForAppUpdate(size) \in Total \cup {Overflow}
  <2> DEFINE M == 2^Width
  <2>1. M \in Nat \ {0} /\ Total = 0 .. M - 1
    BY Zenon, DownloadSpaceAssumption DEF Total
  <2>2. GetDockerStoreSizeForAppUpdate(size) = IF 5 * size >= M THEN Overflow ELSE 5 * size
    BY Zenon DEF GetDockerStoreSizeForAppUpdate, CompressionRatio
  <2> HIDE DEF M, size
  <2> QED
    BY <1>2, <2>1, <2>2
<1>5. \/ /\ need.skopeo = size /\ need.docker = usage
         /\ Overflow \notin {size, usage}
      \/ /\ need.skopeo = size
         /\ need.docker = IF size = Overflow THEN Overflow
                          ELSE GetDockerStoreSizeForAppUpdate(size)
         /\ ~(Meta[u] = "precise" /\ readable /\ Overflow \notin {size, usage})
  BY Zenon DEF RequiredSize, GetPreciseAppUpdateSize, GetAppUpdateSize
<1> HIDE DEF size, usage, need
<1> QED
  BY Zenon, <1>2, <1>3, <1>4, <1>5 DEF size, usage, need

-----------------------------------------------------------------------------
(* Volumes. *)

\* The stores and what lies in them.
StoresOK ==
  /\ repo \subseteq Hash /\ fetched \subseteq App
  /\ blobs \subseteq Blob /\ loaded \subseteq Blob
  /\ other \in [Volume -> Nat]

\* A sum over a part of a finite set is a number.
LEMMA PartSum ==
  ASSUME NEW S, IsFiniteSet(S), NEW f \in [S -> Nat], NEW s, s \subseteq S
  PROVE  SumFunctionOnSet(f, s) \in Nat
<1>1. IsFiniteSet(s)
  BY Zenon, FS_Subset
<1>2. \A x \in s : f[x] \in Nat
  BY Zenon
<1> QED
  BY Zenon, <1>1, <1>2, SumType

\* The temporary files of all Apps take a number of blocks, and none if there
\* are none.
LEMMA TmpSum ==
  /\ NoTmp \in [App -> Nat] /\ SumFunction(NoTmp) = 0
  /\ \A temp \in [App -> Nat] : SumFunction(temp) \in Nat
<1>1. IsFiniteSet(App)
  BY Zenon, DownloadSpaceAssumption
<1>2. ASSUME NEW temp \in [App -> Nat] PROVE SumFunction(temp) = SumFunctionOnSet(temp, App)
  BY Zenon DEF SumFunction, FoldFunction, SumFunctionOnSet
<1>3. NoTmp \in [App -> Nat] /\ \A x \in App : NoTmp[x] = 0
  BY Zenon DEF NoTmp
<1>4. \A x \in App : NoTmp[x] \in Nat
  BY Zenon, <1>3
<1>5. SumFunctionOnSet(NoTmp, App) = 0
  BY Zenon, <1>1, <1>3, <1>4, SumType
<1>6. ASSUME NEW temp \in [App -> Nat] PROVE SumFunction(temp) \in Nat
  BY Zenon, <1>1, <1>2, PartSum
<1> QED
  BY Zenon, <1>2, <1>3, <1>5, <1>6

\* The free space of a volume is a number, below zero if more is used than there
\* is; without the temporary files it is not less.
LEMMA FreeType ==
  ASSUME StoresOK, NEW path \in Path, NEW temp \in [App -> Nat]
  PROVE  /\ Free(path, temp) \in Int
         /\ Free(path, temp) <= Free(path, NoTmp)
<1> DEFINE v == VolumeOf[path]
           base == Size[v] - other[v]
           On(p, size) == IF VolumeOf[p] = v THEN size ELSE 0
           commits == On("repo", SumFunctionOnSet(CommitSize, repo))
           archives == SumFunctionOnSet(Archive, fetched) + SumFunctionOnSet(BlobSize, blobs)
           images == On("docker", SumFunctionOnSet(BlobUsage, loaded))
<1>1. base \in Int
  BY DownloadSpaceAssumption DEF StoresOK
<1>2. commits \in Nat
  <2>1. SumFunctionOnSet(CommitSize, repo) \in Nat
    BY Zenon, DownloadSpaceAssumption, PartSum DEF StoresOK
  <2> QED
    BY Zenon, <2>1
<1>3. archives \in Nat
  <2>1. SumFunctionOnSet(Archive, fetched) \in Nat
    BY Zenon, DownloadSpaceAssumption, PartSum DEF StoresOK
  <2>2. BlobSize \in [Blob -> Nat]
    BY Zenon, DownloadSpaceAssumption
  <2>3. SumFunctionOnSet(BlobSize, blobs) \in Nat
    BY Zenon, <2>2, DownloadSpaceAssumption, PartSum DEF StoresOK
  <2> QED
    BY <2>1, <2>3
<1>4. images \in Nat
  <2>1. BlobUsage \in [Blob -> Nat]
    BY Zenon, DownloadSpaceAssumption
  <2>2. SumFunctionOnSet(BlobUsage, loaded) \in Nat
    BY Zenon, <2>1, DownloadSpaceAssumption, PartSum DEF StoresOK
  <2> QED
    BY Zenon, <2>2
<1>5. SumFunction(temp) \in Nat /\ SumFunction(NoTmp) = 0
  BY Zenon, TmpSum
<1>6. ASSUME NEW t
      PROVE  Free(path, t) = base - commits - On("store", archives + SumFunction(t)) - images
  BY Zenon DEF Free
<1> HIDE DEF base, commits, archives, images
<1>7. Free(path, temp) = base - commits - On("store", archives + SumFunction(temp)) - images
  BY Zenon, <1>6
<1>8. Free(path, NoTmp) = base - commits - On("store", archives + SumFunction(NoTmp)) - images
  BY Zenon, <1>6
<1> QED
  BY <1>1, <1>2, <1>3, <1>4, <1>5, <1>7, <1>8

\* What is available on a volume is a number; without the temporary files it is
\* not less.
LEMMA AvailableType ==
  ASSUME StoresOK, NEW path \in Path, NEW temp \in [App -> Nat]
  PROVE  /\ Available(path, temp) \in Nat
         /\ Available(path, temp) <= Available(path, NoTmp)
<1> DEFINE free == Free(path, temp)
           most == Free(path, NoTmp)
           all == Size[VolumeOf[path]]
           percent == ReservedPercentage(path)
           kept == Reserved(path)
<1>1. free \in Int /\ free <= most
  BY Zenon, FreeType
<1>2. most \in Int
  BY Zenon, FreeType, TmpSum
<1>3. all \in Nat /\ percent \in Nat
  BY DownloadSpaceAssumption DEF ReservedPercentage
<1>4. kept \in Nat
  <2>1. kept = (all * percent + 99) \div 100
    BY Zenon DEF Reserved
  <2> HIDE DEF all, percent, kept
  <2>2. all * percent \in Nat
    BY <1>3
  <2>3. ASSUME NEW n \in Nat PROVE (n + 99) \div 100 \in Nat
    OBVIOUS
  <2> QED
    BY Zenon, <2>1, <2>2, <2>3
<1>5. /\ Available(path, temp) = IF free > kept THEN free - kept ELSE 0
      /\ Available(path, NoTmp) = IF most > kept THEN most - kept ELSE 0
  BY Zenon DEF Available
<1> HIDE DEF free, most, kept
<1> QED
  BY <1>1, <1>2, <1>4, <1>5

-----------------------------------------------------------------------------
(* The check of an App's size. *)

\* An App whose size the check accepts is one whose needs the stores have room
\* for, each its own, and both together if they share a volume: clearing the
\* temporary files for the sum takes nothing from the docker store.
LEMMA FitsIsRoom ==
  ASSUME StoresOK, tmp \in [App -> Nat], NEW need,
         need.skopeo \in Total, need.docker \in Total,
         NEW temp, temp = Cleared(need.skopeo, tmp),
         NEW check, check = CheckAvailableStorageInStores(need, temp)
  PROVE  /\ check.temp \in [App -> Nat]
         /\ check.path \in Path /\ check.required \in Nat
         /\ check.error = "none" =>
              /\ need.skopeo <= Available("store", check.temp)
              /\ need.docker <= Available("docker", check.temp)
              /\ sameVolume =>
                   need.skopeo + need.docker <= Available("store", check.temp)
<1> DEFINE M == 2^Width
           sum == UInt(need.skopeo + need.docker)
           last == Cleared(sum, temp)
<1>0. M \in Nat \ {0} /\ Total = 0 .. M - 1 /\ sum = (need.skopeo + need.docker) % M
  BY Zenon, DownloadSpaceAssumption DEF Total, UInt
<1>1. sum \in Nat
  <2> HIDE DEF M, sum
  <2> QED
    BY <1>0
<1>2. sum >= need.skopeo /\ sum >= need.docker => sum = need.skopeo + need.docker
  <2> HIDE DEF M, sum
  <2>1. need.skopeo \in 0 .. M - 1 /\ need.docker \in Nat
    BY <1>0
  <2> QED
    BY Zenon, <1>0, <2>1, SumIsExact
<1> HIDE DEF M, sum
<1>3. temp \in {tmp, NoTmp} /\ last \in {temp, NoTmp}
  BY Zenon DEF Cleared
<1>4. NoTmp \in [App -> Nat] /\ temp \in [App -> Nat] /\ last \in [App -> Nat]
  BY Zenon, <1>3, TmpSum
<1>5. Available("docker", temp) <= Available("docker", last)
  <2>1. /\ Available("docker", temp) \in Nat
        /\ Available("docker", temp) <= Available("docker", NoTmp)
    BY Zenon, <1>4, AvailableType DEF Path
  <2>2. CASE last = temp
    BY <2>1, <2>2
  <2>3. CASE last = NoTmp
    BY Zenon, <2>1, <2>3
  <2> QED
    BY Zenon, <1>3, <2>2, <2>3
<1>6. /\ Available("docker", temp) \in Nat /\ Available("docker", last) \in Nat
      /\ Available("store", temp) \in Nat /\ Available("store", last) \in Nat
  BY Zenon, <1>4, AvailableType DEF Path
<1>7. /\ need.skopeo <= Available("store", NoTmp) => need.skopeo <= Available("store", temp)
      /\ sum <= Available("store", NoTmp) => sum <= Available("store", last)
  BY Zenon DEF Cleared, RoomFor
<1> HIDE DEF last
<1>8. \/ /\ check.error = "none" /\ check.temp = temp /\ ~sameVolume
         /\ need.skopeo <= Available("store", NoTmp)
         /\ need.docker <= Available("docker", temp)
         /\ check.path \in Path /\ check.required \in Nat
      \/ /\ check.error = "none" /\ check.temp = last
         /\ ~(sum < need.skopeo) /\ ~(sum < need.docker)
         /\ need.docker <= Available("docker", temp)
         /\ sum <= Available("store", NoTmp)
         /\ check.path \in Path /\ check.required \in Nat
      \/ /\ check.error # "none" /\ check.temp \in {NoTmp, temp}
         /\ check.path \in Path /\ check.required \in Nat
  <2>1. need.skopeo \in Nat /\ need.docker \in Nat
    BY <1>0
  <2> QED
    BY Zenon, <1>1, <2>1 DEF CheckAvailableStorageInStores, RoomFor, Fits, NoRoom, TooLarge, Path, last, sum
<1>9. need.skopeo \in Nat /\ need.docker \in Nat
  BY <1>0
<1> HIDE DEF Total
<1>a. CASE /\ check.error = "none" /\ check.temp = temp /\ ~sameVolume
           /\ need.skopeo <= Available("store", NoTmp)
           /\ need.docker <= Available("docker", temp)
           /\ check.path \in Path /\ check.required \in Nat
  BY Zenon, <1>a, <1>4, <1>7
<1>b. CASE /\ check.error = "none" /\ check.temp = last
           /\ ~(sum < need.skopeo) /\ ~(sum < need.docker)
           /\ need.docker <= Available("docker", temp)
           /\ sum <= Available("store", NoTmp)
           /\ check.path \in Path /\ check.required \in Nat
  <2>1. sum = need.skopeo + need.docker
    BY <1>1, <1>2, <1>9, <1>b
  <2>2. sum <= Available("store", last)
    BY Zenon, <1>b, <1>7
  <2>3. need.skopeo <= Available("store", last)
    BY <2>1, <2>2, <1>6, <1>9
  <2>4. need.docker <= Available("docker", last)
    BY <1>b, <1>5, <1>6, <1>9
  <2> QED
    BY Zenon, <1>b, <1>4, <2>1, <2>2, <2>3, <2>4
<1>c. CASE /\ check.error # "none" /\ check.temp \in {NoTmp, temp}
           /\ check.path \in Path /\ check.required \in Nat
  BY Zenon, <1>c, <1>4
<1> QED
  BY Zenon, <1>8, <1>a, <1>b, <1>c

-----------------------------------------------------------------------------
(* Types. *)

\* What a job is about at each point of it.
Shape ==
  /\ job.at # "idle" => job.target \in Target
  /\ job.at = "ostree" => job.remotes >= 1
  /\ job.at \in {"size", "images", "abort"} => job.app \in App

\* The inductive invariant.
TypeInv == TypeOK /\ Shape

\* The types of what the steps of a download leave alone.
WorldOK ==
  /\ sameVolume \in BOOLEAN
  /\ current \in Target \union {NoTarget} /\ failing \subseteq Target
  /\ published \in Target /\ result \in Results

\* The types of the counters.
CountsOK ==
  /\ failures \in 0 .. MaxFailures /\ crashes \in 0 .. MaxCrashes
  /\ publishes \in 0 .. MaxPublish /\ others \in 0 .. MaxOther

\* The type invariant is made of these parts.
LEMMA TypeParts ==
  /\ TypeOK <=> /\ StoresOK /\ tmp \in [App -> Nat] /\ WorldOK /\ CountsOK
                /\ noSpace \in NoSpaceState /\ job \in Job
  /\ TypeOK' <=> /\ StoresOK' /\ tmp' \in [App -> Nat] /\ WorldOK' /\ CountsOK'
                 /\ noSpace' \in NoSpaceState /\ job' \in Job
BY Zenon DEF TypeOK, StoresOK, WorldOK, CountsOK

\* What is remembered if no download lacked room, and the job there is none of.
LEMMA NothingType ==
  ASSUME Target # {}
  PROVE  Undefined \in NoSpaceState /\ NoJob \in Job
<1>1. Hash # {}
  BY Zenon, DownloadSpaceAssumption
<1>2. Pick(Hash) \in Hash
  BY Zenon, <1>1, PickIn
<1>3. Undefined \in NoSpaceState
  BY Zenon, <1>2 DEF Undefined, NoSpaceState, Path, Pick
<1> QED
  BY <1>3, DownloadSpaceAssumption DEF NoJob, Job, MaxTries

\* What a download has lacked is the hash of its Target, a path and a size.
LEMMA LackType ==
  ASSUME job.target \in Target, NEW path \in Path, NEW n \in Nat, NEW ok \in BOOLEAN
  PROVE  Lack(path, n, ok) \in NoSpaceState
BY Zenon, DownloadSpaceAssumption DEF Lack, NoSpaceState

\* Each try of a download is a job, with a Target and a remote to pull from.
LEMMA AttemptType ==
  ASSUME published \in Target, NEW n \in 0 .. MaxTries, NEW t \in Target
  PROVE  /\ Attempt(n) \in Job /\ Attempt(n).at = "ostree"
         /\ Attempt(n).target = published /\ Attempt(n).remotes >= 1
         /\ [Attempt(n) EXCEPT !.target = t] \in Job
         /\ [Attempt(n) EXCEPT !.target = t].at = "ostree"
         /\ [Attempt(n) EXCEPT !.target = t].target = t
         /\ [Attempt(n) EXCEPT !.target = t].remotes >= 1
<1> DEFINE Tried(of) ==
             [at |-> "ostree", target |-> of, tries |-> n, remotes |-> Remotes,
              left |-> {}, app |-> NoApp, lack |-> Undefined]
<1>1. Undefined \in NoSpaceState
  BY Zenon, NothingType
<1>2. Remotes \in Nat \ {0}
  BY Zenon, DownloadSpaceAssumption
<1>3. Attempt(n) = Tried(published) /\ [Attempt(n) EXCEPT !.target = t] = Tried(t)
  <2>1. Attempt(n) = Tried(published)
    <3> DEFINE Rec(at, of, k, m) ==
                 [at |-> at, target |-> of, tries |-> k, remotes |-> m,
                  left |-> {}, app |-> NoApp, lack |-> Undefined]
    <3>1. NoJob = Rec("idle", NoTarget, 0, 0)
      BY Zenon DEF NoJob
    <3>2. [Rec("idle", NoTarget, 0, 0) EXCEPT !.at = "ostree"] = Rec("ostree", NoTarget, 0, 0)
      BY SMT
    <3>3. [Rec("ostree", NoTarget, 0, 0) EXCEPT !.target = published] =
            Rec("ostree", published, 0, 0)
      BY SMT
    <3>4. [Rec("ostree", published, 0, 0) EXCEPT !.tries = n] = Rec("ostree", published, n, 0)
      BY SMT
    <3>5. [Rec("ostree", published, n, 0) EXCEPT !.remotes = Remotes] =
            Rec("ostree", published, n, Remotes)
      BY SMT
    <3>6. Rec("ostree", published, n, Remotes) = Tried(published)
      BY Zenon
    <3> HIDE DEF Rec, Tried
    <3> QED
      BY Zenon, <3>1, <3>2, <3>3, <3>4, <3>5, <3>6 DEF Attempt
  <2>2. [Tried(published) EXCEPT !.target = t] = Tried(t)
    BY SMT
  <2> QED
    BY Zenon, <2>1, <2>2
<1>4. Tried(published) \in Job /\ Tried(t) \in Job
  BY <1>1, <1>2 DEF Job
<1> QED
  BY <1>2, <1>3, <1>4

\* The invariant holds at first.
LEMMA InitTyped == Init => TypeInv
<1> SUFFICES ASSUME Init PROVE TypeInv
  BY Zenon
<1>1. Undefined \in NoSpaceState /\ NoJob \in Job
  BY Zenon, NothingType DEF Init
<1>2. StoresOK
  BY Zenon, DownloadSpaceAssumption DEF Init, StoresOK
<1>3. tmp \in [App -> Nat]
  BY Zenon, TmpSum DEF Init
<1>4. WorldOK
  <2>1. \A known : SameVolume(known) \in BOOLEAN
    BY Zenon DEF SameVolume
  <2>2. sameVolume \in BOOLEAN
    BY Zenon, <2>1 DEF Init
  <2> QED
    BY Zenon, <2>2 DEF Init, WorldOK, Results
<1>5. CountsOK
  BY DownloadSpaceAssumption DEF Init, CountsOK
<1>6. Shape
  BY Zenon DEF Init, Shape, NoJob
<1> QED
  BY Zenon, <1>1, <1>2, <1>3, <1>4, <1>5, <1>6, TypeParts DEF Init, TypeInv

\* A step that leaves the stores, or the world around, or the counters alone
\* leaves their types alone.
LEMMA SameTypes ==
  /\ StoresOK /\ UNCHANGED <<repo, fetched, blobs, loaded, other>> => StoresOK'
  /\ WorldOK /\ UNCHANGED <<sameVolume, current, failing, published, result>> => WorldOK'
  /\ CountsOK /\ UNCHANGED counts => CountsOK'
BY Zenon DEF StoresOK, WorldOK, CountsOK, counts

\* A failure, or none, is counted.
LEMMA FailureCounts ==
  ASSUME CountsOK, UNCHANGED <<crashes, publishes, others>>,
         UNCHANGED failures \/ \E kind : Fails(kind)
  PROVE  CountsOK'
BY DownloadSpaceAssumption DEF CountsOK, Fails

\* The start and the end of a download keep the invariant.
LEMMA PullAndInstallTyped ==
  ASSUME TypeInv, RefuseDownload \/ StartDownload \/ DownloadReturns
  PROVE  TypeInv'
<1> USE DEF TypeInv
<1>t. /\ StoresOK /\ tmp \in [App -> Nat] /\ WorldOK /\ CountsOK
      /\ noSpace \in NoSpaceState /\ job \in Job /\ published \in Target
  BY Zenon, TypeParts DEF WorldOK
<1>n. Undefined \in NoSpaceState /\ NoJob \in Job /\ NoJob.at = "idle"
  <2>1. NoJob.at = "idle"
    BY SMT DEF NoJob
  <2> QED
    BY Zenon, <1>t, <2>1, NothingType
<1>1. CASE RefuseDownload
  <2>1. StoresOK' /\ tmp' \in [App -> Nat] /\ CountsOK'
    BY Zenon, <1>t, <1>1, SameTypes DEF RefuseDownload, stores
  <2>2. WorldOK'
    BY SMT, <1>t, <1>1 DEF RefuseDownload, WorldOK, Results
  <2>3. noSpace' \in NoSpaceState /\ job' \in Job /\ Shape'
    BY Zenon, <1>t, <1>1 DEF RefuseDownload, Shape
  <2> QED
    BY Zenon, <2>1, <2>2, <2>3, TypeParts
<1>2. CASE StartDownload
  <2>1. StoresOK' /\ tmp' \in [App -> Nat]
    BY Zenon, <1>t, <1>2, SameTypes DEF StartDownload, stores
  <2>2. WorldOK'
    BY SMT, <1>t, <1>2 DEF StartDownload, WorldOK, Results
  <2>3. CountsOK'
    BY Zenon, <1>t, <1>2, FailureCounts DEF StartDownload
  <2>4. noSpace' \in NoSpaceState
    BY Zenon, <1>n, <1>2 DEF StartDownload
  <2>5. 1 \in 0 .. MaxTries
    BY SMT DEF MaxTries
  <2>6. /\ job' \in Job /\ job'.at = "ostree" /\ job'.target \in Target
        /\ job'.remotes >= 1
    BY Zenon, <1>t, <1>2, <2>5, AttemptType DEF StartDownload
  <2>7. Shape'
    BY SMT, <2>6 DEF Shape
  <2> QED
    BY Zenon, <2>1, <2>2, <2>3, <2>4, <2>6, <2>7, TypeParts
<1>3. CASE DownloadReturns
  <2>1. StoresOK' /\ tmp' \in [App -> Nat] /\ CountsOK'
    BY Zenon, <1>t, <1>3, SameTypes DEF DownloadReturns, stores
  <2>2. WorldOK'
    BY SMT, <1>t, <1>3 DEF DownloadReturns, WorldOK, Results
  <2>3. job.lack \in NoSpaceState /\ job.tries \in 0 .. MaxTries
    BY SMT, <1>t DEF Job
  <2>4. job.target \in Target
    BY SMT, <1>3 DEF DownloadReturns, Shape
  <2>5. noSpace' \in NoSpaceState
    BY Zenon, <1>t, <1>3, <2>3 DEF DownloadReturns
  <2>6. CASE job' = NoJob
    <3>1. Shape'
      BY SMT, <2>6, <1>n DEF Shape
    <3> QED
      BY Zenon, <1>n, <2>1, <2>2, <2>5, <2>6, <3>1, TypeParts
  <2>7. CASE /\ job.tries < MaxTries
             /\ job' = [Attempt(job.tries + 1) EXCEPT !.target = job.target]
    <3>1. job.tries + 1 \in 0 .. MaxTries
      BY SMT, <2>3, <2>7 DEF MaxTries
    <3>2. /\ job' \in Job /\ job'.at = "ostree" /\ job'.target \in Target
          /\ job'.remotes >= 1
      BY Zenon, <1>t, <2>4, <2>7, <3>1, AttemptType
    <3>3. Shape'
      BY SMT, <3>2 DEF Shape
    <3> QED
      BY Zenon, <2>1, <2>2, <2>5, <3>2, <3>3, TypeParts
  <2> QED
    BY Zenon, <1>3, <2>6, <2>7 DEF DownloadReturns
<1> QED
  BY Zenon, <1>1, <1>2, <1>3

\* The points a job passes after it has begun.
Going == {"ostree", "app", "size", "images", "abort", "failed"}

\* The ostree pull keeps the invariant.
LEMMA DownloadTyped ==
  ASSUME TypeInv, PullOstree \/ PullOstreeFails
  PROVE  TypeInv'
<1> USE DEF TypeInv
<1>t. /\ StoresOK /\ tmp \in [App -> Nat] /\ WorldOK /\ CountsOK
      /\ noSpace \in NoSpaceState /\ job \in Job
  BY Zenon, TypeParts
<1>g. job.at = "ostree" /\ job.target \in Target
  BY SMT DEF PullOstree, PullOstreeFails, Shape
<1>1. CASE PullOstree
  <2> DEFINE hash == HashOf[job.target]
             available == Available("repo", tmp)
             apps == AppsOf[job.target] \ IF current = NoTarget THEN {} ELSE AppsOf[current]
  <2>1. hash \in Hash /\ CommitSize[hash] \in Nat
    BY SMT, <1>g, DownloadSpaceAssumption
  <2>2. available \in Nat
    BY Zenon, <1>t, AvailableType DEF Path
  <2>3. apps \in SUBSET App
    BY SMT, <1>g, DownloadSpaceAssumption
  <2>4. WorldOK' /\ tmp' \in [App -> Nat] /\ noSpace' \in NoSpaceState
    BY Zenon, <1>t, <1>1, SameTypes DEF PullOstree
  <2>5. CountsOK'
    BY Zenon, <1>t, <1>1, FailureCounts DEF PullOstree, MayFail
  <2>6. StoresOK'
    BY SMT, <1>t, <1>1, <2>1 DEF PullOstree, StoresOK
  <2>7. \/ job' = [job EXCEPT !.at = "app", !.left = apps]
        \/ \E n \in Nat, readable \in BOOLEAN :
             job' = [job EXCEPT !.at = "failed", !.lack = Lack("repo", n, readable)]
    <3> DEFINE Delta(b) == GetDeltaStatIfAvailable(hash, b # "delta")
               Lacks(b) == b # "stat" /\ IF Delta(b) THEN available < CommitSize[hash] ELSE available = 0
               Needed(b) == IF Delta(b) THEN CommitSize[hash]
                            ELSE IF Lacks(b) THEN Slack ELSE available + Slack
    <3>1. ASSUME NEW b PROVE Needed(b) \in Nat /\ (b # "stat") \in BOOLEAN
      <4> HIDE DEF Delta, Lacks, available, hash
      <4>1. Needed(b) \in Nat
        BY SMT, <2>1, <2>2 DEF Slack
      <4> QED
        BY Zenon, <4>1
    <3>2. \E b : \/ job' = [job EXCEPT !.at = "app", !.left = apps]
                \/ job' = [job EXCEPT !.at = "failed", !.lack = Lack("repo", Needed(b), b # "stat")]
      BY Zenon, <1>1 DEF PullOstree
    <3> HIDE DEF Needed
    <3> QED
      BY Zenon, <3>1, <3>2
  <2>8. \A n \in Nat, readable \in BOOLEAN : Lack("repo", n, readable) \in NoSpaceState
    BY Zenon, <1>g, LackType DEF Path
  <2> HIDE DEF apps
  <2>9. job' \in Job /\ job'.at \in {"app", "failed"} /\ job'.target = job.target
    <3>1. CASE job' = [job EXCEPT !.at = "app", !.left = apps]
      BY Zenon, <1>t, <2>3, <3>1 DEF Job
    <3>2. ASSUME NEW n \in Nat, NEW readable \in BOOLEAN,
                 job' = [job EXCEPT !.at = "failed", !.lack = Lack("repo", n, readable)]
          PROVE  job' \in Job /\ job'.at \in {"app", "failed"} /\ job'.target = job.target
      <4> DEFINE lack == Lack("repo", n, readable)
      <4>1. lack \in NoSpaceState
        BY Zenon, <2>8
      <4> HIDE DEF lack
      <4>2. job' = [job EXCEPT !.at = "failed", !.lack = lack]
        BY Zenon, <3>2 DEF lack
      <4> QED
        BY Zenon, <1>t, <4>1, <4>2 DEF Job
    <3> QED
      BY Zenon, <2>7, <3>1, <3>2
  <2>10. Shape'
    BY SMT, <1>g, <2>9 DEF Shape
  <2> QED
    BY Zenon, <2>4, <2>5, <2>6, <2>9, <2>10, TypeParts
<1>2. CASE PullOstreeFails
  <2>1. /\ StoresOK' /\ WorldOK' /\ tmp' \in [App -> Nat]
        /\ noSpace' \in NoSpaceState
    BY Zenon, <1>t, <1>2, SameTypes DEF PullOstreeFails, stores
  <2>2. CountsOK'
    BY Zenon, <1>t, <1>2, FailureCounts DEF PullOstreeFails
  <2>3. job.remotes \in Nat /\ job.remotes >= 1
    BY SMT, <1>t, <1>g DEF Job, Shape
  <2>4. job' \in Job /\ job'.target = job.target /\ job'.remotes = job.remotes - 1
        /\ job'.at = IF job.remotes = 1 THEN "failed" ELSE "ostree"
    <3> DEFINE r == job.remotes - 1
               at == IF job.remotes = 1 THEN "failed" ELSE "ostree"
    <3>1. r \in 0 .. Remotes /\ at \in Going
      BY SMT, <1>t, <2>3, DownloadSpaceAssumption DEF Job, Going
    <3>2. job' = [job EXCEPT !.remotes = r, !.at = at]
      BY Zenon, <1>2 DEF PullOstreeFails
    <3> HIDE DEF r, at
    <3>3. job' \in Job /\ job'.target = job.target /\ job'.remotes = r /\ job'.at = at
      BY Zenon, <1>t, <3>1, <3>2 DEF Job, Going
    <3> QED
      BY Zenon, <3>3 DEF r, at
  <2>5. Shape'
    BY SMT, <1>g, <2>3, <2>4 DEF Shape
  <2> QED
    BY Zenon, <2>1, <2>2, <2>4, <2>5, TypeParts
<1> QED
  BY Zenon, <1>1, <1>2

\* The layers of an App are layers.
LEMMA LayersType ==
  ASSUME NEW u \in App
  PROVE  Range(LayersOf[u]) \subseteq Blob /\ Missing(u) \subseteq Blob
<1>1. LayersOf[u] \in Seq(Blob)
  BY Zenon, DownloadSpaceAssumption
<1>2. Range(LayersOf[u]) \subseteq Blob
  BY <1>1 DEF Range
<1> QED
  BY Zenon, <1>2 DEF Missing

\* The pull of an App's archive keeps the invariant.
LEMMA PullAppTyped ==
  ASSUME TypeInv, PullApp
  PROVE  TypeInv'
<1> USE DEF TypeInv
<1>t. /\ StoresOK /\ tmp \in [App -> Nat] /\ WorldOK /\ CountsOK
      /\ noSpace \in NoSpaceState /\ job \in Job
  BY Zenon, TypeParts
<1>g. job.target \in Target /\ job.left \subseteq App
  BY SMT, <1>t DEF PullApp, Shape, Job
<1>1. WorldOK' /\ tmp' \in [App -> Nat] /\ noSpace' \in NoSpaceState
  BY Zenon, <1>t, SameTypes DEF PullApp
<1>2. CountsOK'
  BY Zenon, <1>t, FailureCounts DEF PullApp, MayFail
<1>3. PICK u \in App :
        \/ /\ job' = [job EXCEPT !.at = "abort", !.app = u,
                                 !.lack = Lack("store", UInt(3 * Archive[u]), TRUE)]
           /\ UNCHANGED fetched
        \/ /\ fetched' = fetched \union {u}
           /\ job' = [job EXCEPT !.at = "size", !.app = u]
  BY Zenon, <1>g DEF PullApp
<1>4. StoresOK'
  BY SMT, <1>t, <1>3 DEF PullApp, StoresOK
<1>5. Lack("store", UInt(3 * Archive[u]), TRUE) \in NoSpaceState
  <2> DEFINE M == 2^Width
  <2>1. M \in Nat \ {0} /\ Archive[u] \in Nat
    BY SMT, DownloadSpaceAssumption
  <2>2. UInt(3 * Archive[u]) = (3 * Archive[u]) % M
    BY Zenon DEF UInt
  <2> HIDE DEF M
  <2>3. UInt(3 * Archive[u]) \in Nat
    BY SMT, <2>1, <2>2
  <2> QED
    BY Zenon, <1>g, <2>3, LackType DEF Path
<1> DEFINE lack == Lack("store", UInt(3 * Archive[u]), TRUE)
<1> HIDE DEF lack
<1>6. /\ job' \in Job /\ job'.at \in {"abort", "size"} /\ job'.target = job.target
      /\ job'.app = u
  <2>1. CASE job' = [job EXCEPT !.at = "abort", !.app = u, !.lack = lack]
    BY Zenon, <1>t, <1>5, <2>1 DEF Job, lack
  <2>2. CASE job' = [job EXCEPT !.at = "size", !.app = u]
    BY Zenon, <1>t, <2>2 DEF Job
  <2> QED
    BY Zenon, <1>3, <2>1, <2>2 DEF lack
<1>7. Shape'
  BY SMT, <1>g, <1>6 DEF Shape
<1> QED
  BY Zenon, <1>1, <1>2, <1>4, <1>6, <1>7, TypeParts

\* What a check of an App's size may do to the job and the temporary files.
Checked(need, check) ==
  \/ /\ Meta[job.app] = "none"
     /\ job' = [job EXCEPT !.at = "images"] /\ UNCHANGED tmp
  \/ job' = [job EXCEPT !.at = "abort"] /\ UNCHANGED tmp
  \/ /\ need.docker # Overflow
     /\ job' = [job EXCEPT !.at = "abort", !.lack = Lack("docker", need.docker, FALSE)]
     /\ UNCHANGED tmp
  \/ /\ Meta[job.app] # "none" /\ need.skopeo # Overflow /\ need.docker # Overflow
     /\ tmp' = check.temp
     /\ job' = [job EXCEPT
          !.at = IF check.error = "none" THEN "images" ELSE "abort",
          !.lack = IF check.error = "space"
                   THEN Lack(check.path, check.required, TRUE) ELSE @]

\* It is what the check does, for the size that was found.
LEMMA CheckSteps ==
  ASSUME CheckAppUpdateSize
  PROVE  \E broken, need, temp, check :
           /\ need = RequiredSize(job.app, broken # "pull")
           /\ temp = Cleared(need.skopeo, tmp)
           /\ check = CheckAvailableStorageInStores(need, temp)
           /\ MayFail(broken, {"pull", "stat"})
           /\ Checked(need, check)
<1> DEFINE Then(broken, need, check) ==
             IF Meta[job.app] = "none"
             THEN job' = [job EXCEPT !.at = "images"] /\ UNCHANGED tmp
             ELSE IF Overflow \in {need.skopeo, need.docker}
             THEN job' = [job EXCEPT !.at = "abort"] /\ UNCHANGED tmp
             ELSE IF broken = "stat" /\ need.docker > 0
             THEN /\ job' = [job EXCEPT !.at = "abort",
                                        !.lack = Lack("docker", need.docker, FALSE)]
                  /\ UNCHANGED tmp
             ELSE /\ tmp' = check.temp
                  /\ job' = [job EXCEPT
                       !.at = IF check.error = "none" THEN "images" ELSE "abort",
                       !.lack = IF check.error = "space"
                                THEN Lack(check.path, check.required, TRUE) ELSE @]
<1>1. PICK broken \in {"none", "pull", "stat"} :
       /\ MayFail(broken, {"pull", "stat"})
       /\ \E need \in {RequiredSize(job.app, broken # "pull")} :
          \E temp \in {Cleared(need.skopeo, tmp)} :
          \E check \in {CheckAvailableStorageInStores(need, temp)} :
            Then(broken, need, check)
  BY Zenon DEF CheckAppUpdateSize
<1>2. ASSUME NEW need, NEW check, Then(broken, need, check)
      PROVE  Checked(need, check)
  <2>2. CASE Meta[job.app] = "none"
    BY Zenon, <1>2, <2>2 DEF Checked
  <2>3. CASE Meta[job.app] # "none" /\ Overflow \in {need.skopeo, need.docker}
    BY Zenon, <1>2, <2>3 DEF Checked
  <2>4. CASE Meta[job.app] # "none" /\ Overflow \notin {need.skopeo, need.docker}
    BY Zenon, <1>2, <2>4 DEF Checked
  <2> QED
    BY Zenon, <2>2, <2>3, <2>4
<1> HIDE DEF Then
<1> QED
  BY Zenon, <1>1, <1>2

\* The size that was found and the outcome of the check have their types.
LEMMA CheckTypes ==
  ASSUME TypeInv, job.at = "size", NEW readable, NEW need, NEW temp, NEW check,
         need = RequiredSize(job.app, readable),
         temp = Cleared(need.skopeo, tmp),
         check = CheckAvailableStorageInStores(need, temp)
  PROVE  /\ job.app \in App /\ job.target \in Target
         /\ need.skopeo \in Total \cup {Overflow}
         /\ need.docker \in Total \cup {Overflow}
         /\ need.docker # Overflow => need.docker \in Nat
         /\ need.skopeo # Overflow /\ need.docker # Overflow =>
              /\ check.temp \in [App -> Nat]
              /\ check.path \in Path /\ check.required \in Nat
<1>1. StoresOK /\ tmp \in [App -> Nat]
  BY Zenon, TypeParts DEF TypeInv
<1>2. job.app \in App /\ job.target \in Target
  BY Zenon DEF TypeInv, Shape
<1>3. need.skopeo \in Total \cup {Overflow} /\ need.docker \in Total \cup {Overflow}
  BY Zenon, <1>2, RequiredSizeCovers
<1>4. Total \subseteq Nat
  BY DownloadSpaceAssumption DEF Total
<1>5. need.docker # Overflow => need.docker \in Nat
  BY Zenon, <1>3, <1>4
<1>6. ASSUME need.skopeo # Overflow, need.docker # Overflow
      PROVE  check.temp \in [App -> Nat] /\ check.path \in Path /\ check.required \in Nat
  <2>1. need.skopeo \in Total /\ need.docker \in Total
    BY Zenon, <1>3, <1>6
  <2> QED
    BY Zenon, <1>1, <2>1, FitsIsRoom
<1> QED
  BY Zenon, <1>2, <1>3, <1>5, <1>6

\* The check of an App's size keeps the invariant.
LEMMA CheckAppUpdateSizeTyped ==
  ASSUME TypeInv, CheckAppUpdateSize
  PROVE  TypeInv'
<1> USE DEF TypeInv
<1>t. /\ StoresOK /\ tmp \in [App -> Nat] /\ WorldOK /\ CountsOK
      /\ noSpace \in NoSpaceState /\ job \in Job
  BY Zenon, TypeParts
<1>1. StoresOK' /\ WorldOK' /\ noSpace' \in NoSpaceState
  BY Zenon, <1>t, SameTypes DEF CheckAppUpdateSize
<1>2. CountsOK'
  BY Zenon, <1>t, FailureCounts DEF CheckAppUpdateSize, MayFail
<1>3. PICK broken, need, temp, check :
        /\ need = RequiredSize(job.app, broken # "pull")
        /\ temp = Cleared(need.skopeo, tmp)
        /\ check = CheckAvailableStorageInStores(need, temp)
        /\ MayFail(broken, {"pull", "stat"})
        /\ Checked(need, check)
  BY Zenon, CheckSteps
<1>4. /\ job.app \in App /\ job.target \in Target
      /\ need.docker # Overflow => need.docker \in Nat
      /\ need.skopeo # Overflow /\ need.docker # Overflow =>
           /\ check.temp \in [App -> Nat]
           /\ check.path \in Path /\ check.required \in Nat
  <2>1. job.at = "size"
    BY Zenon DEF CheckAppUpdateSize
  <2> QED
    BY Zenon, <1>3, <2>1, CheckTypes
<1> DEFINE Good == /\ job' \in Job /\ job'.at \in {"images", "abort"}
                   /\ job'.target = job.target /\ job'.app = job.app
                   /\ tmp' \in [App -> Nat]
<1>5. ASSUME job' = [job EXCEPT !.at = "images"], UNCHANGED tmp
      PROVE  Good
  BY Zenon, <1>t, <1>5 DEF Job
<1>6. ASSUME job' = [job EXCEPT !.at = "abort"], UNCHANGED tmp
      PROVE  Good
  BY Zenon, <1>t, <1>6 DEF Job
<1>7. ASSUME need.docker # Overflow, UNCHANGED tmp,
             job' = [job EXCEPT !.at = "abort", !.lack = Lack("docker", need.docker, FALSE)]
      PROVE  Good
  <2> DEFINE lack == Lack("docker", need.docker, FALSE)
  <2>1. lack \in NoSpaceState
    BY Zenon, <1>4, <1>7, LackType DEF Path
  <2>2. job' = [job EXCEPT !.at = "abort", !.lack = lack]
    BY Zenon, <1>7
  <2> HIDE DEF lack
  <2> QED
    BY Zenon, <1>t, <1>7, <2>1, <2>2 DEF Job
<1>8. ASSUME need.skopeo # Overflow, need.docker # Overflow,
             tmp' = check.temp,
             job' = [job EXCEPT
               !.at = IF check.error = "none" THEN "images" ELSE "abort",
               !.lack = IF check.error = "space"
                        THEN Lack(check.path, check.required, TRUE) ELSE @]
      PROVE  Good
  <2> DEFINE at == IF check.error = "none" THEN "images" ELSE "abort"
             lack == IF check.error = "space"
                     THEN Lack(check.path, check.required, TRUE) ELSE job.lack
  <2>1. lack \in NoSpaceState
    <3>1. Lack(check.path, check.required, TRUE) \in NoSpaceState
      BY Zenon, <1>4, <1>8, LackType
    <3>2. job.lack \in NoSpaceState
      BY Zenon, <1>t DEF Job
    <3> QED
      BY Zenon, <3>1, <3>2
  <2>2. at \in {"images", "abort"}
    BY Zenon
  <2>3. job' = [job EXCEPT !.at = at, !.lack = lack]
    BY SMT, <1>8
  <2> HIDE DEF lack, at
  <2>4. /\ job' \in Job /\ job'.at = at
        /\ job'.target = job.target /\ job'.app = job.app
    BY Zenon, <1>t, <2>1, <2>2, <2>3 DEF Job
  <2> QED
    BY Zenon, <1>4, <1>8, <2>2, <2>4
<1>9. Good
  BY Zenon, <1>3, <1>5, <1>6, <1>7, <1>8 DEF Checked
<1>10. Shape'
  BY SMT, <1>4, <1>9 DEF Shape
<1> QED
  BY Zenon, <1>1, <1>2, <1>9, <1>10, TypeParts

\* The pull of an App's layers, and its failure, keep the invariant.
LEMMA PullAppImagesTyped ==
  ASSUME TypeInv, PullAppImages \/ PullFails \/ FetchAbort
  PROVE  TypeInv'
<1> USE DEF TypeInv
<1>t. /\ StoresOK /\ tmp \in [App -> Nat] /\ WorldOK /\ CountsOK
      /\ noSpace \in NoSpaceState /\ job \in Job
  BY Zenon, TypeParts
<1>g. /\ job.target \in Target /\ job.left \subseteq App
      /\ job.at \in {"images", "abort"} => job.app \in App
  <2>1. job.at \in {"images", "abort", "app"}
    BY Zenon DEF PullAppImages, PullFails, FetchAbort
  <2>2. job.left \subseteq App
    BY Zenon, <1>t DEF Job
  <2> QED
    BY SMT, <2>1, <2>2 DEF Shape
<1>1. CASE PullAppImages
  <2>1. WorldOK' /\ tmp' \in [App -> Nat] /\ noSpace' \in NoSpaceState /\ CountsOK'
    BY Zenon, <1>t, <1>1, SameTypes DEF PullAppImages
  <2>2. Range(LayersOf[job.app]) \subseteq Blob
    BY Zenon, <1>g, <1>1, LayersType DEF PullAppImages
  <2>3. StoresOK'
    BY SMT, <1>t, <1>1, <2>2 DEF PullAppImages, StoresOK
  <2> DEFINE apps == job.left \ {job.app}
  <2>4. apps \subseteq App
    BY Zenon, <1>g
  <2>5. job' = [job EXCEPT !.at = "app", !.left = apps, !.app = NoApp]
    BY Zenon, <1>1 DEF PullAppImages
  <2> HIDE DEF apps
  <2>6. job' \in Job /\ job'.at = "app" /\ job'.target = job.target
    BY Zenon, <1>t, <2>4, <2>5 DEF Job
  <2>7. Shape'
    BY SMT, <1>g, <2>6 DEF Shape
  <2> QED
    BY Zenon, <2>1, <2>3, <2>6, <2>7, TypeParts
<1>2. CASE PullFails
  <2>1. WorldOK' /\ tmp' \in [App -> Nat] /\ noSpace' \in NoSpaceState
    BY Zenon, <1>t, <1>2, SameTypes DEF PullFails
  <2>2. CountsOK'
    BY Zenon, <1>t, <1>2, FailureCounts DEF PullFails
  <2>3. PICK u \in App :
          /\ \/ job' = [job EXCEPT !.at = "abort"] /\ u = job.app
             \/ job' = [job EXCEPT !.at = "abort", !.app = u]
          /\ blobs' = blobs \/ \E some \in SUBSET Missing(u) : blobs' = blobs \union some
    BY Zenon, <1>g, <1>2 DEF PullFails
  <2>4. Missing(u) \subseteq Blob
    BY Zenon, LayersType
  <2>5. blobs' \subseteq Blob
    BY SMT, <1>t, <2>3, <2>4 DEF StoresOK
  <2>6. StoresOK'
    BY Zenon, <1>t, <1>2, <2>5 DEF PullFails, StoresOK
  <2>7. job' \in Job /\ job'.at = "abort" /\ job'.target = job.target /\ job'.app = u
    <3>1. ASSUME job' = [job EXCEPT !.at = "abort"], u = job.app
          PROVE  job' \in Job /\ job'.at = "abort" /\ job'.target = job.target /\ job'.app = u
      BY Zenon, <1>t, <3>1 DEF Job
    <3>2. ASSUME job' = [job EXCEPT !.at = "abort", !.app = u]
          PROVE  job' \in Job /\ job'.at = "abort" /\ job'.target = job.target /\ job'.app = u
      BY Zenon, <1>t, <3>2 DEF Job
    <3> QED
      BY Zenon, <2>3, <3>1, <3>2
  <2>8. Shape'
    BY SMT, <1>g, <2>7 DEF Shape
  <2> QED
    BY Zenon, <2>1, <2>2, <2>6, <2>7, <2>8, TypeParts
<1>3. CASE FetchAbort
  <2>1. WorldOK' /\ noSpace' \in NoSpaceState /\ CountsOK'
    BY Zenon, <1>t, <1>3, SameTypes DEF FetchAbort
  <2>2. StoresOK' /\ tmp' \in [App -> Nat]
    <3>1. StoresOK'
      BY Zenon, <1>t, <1>3 DEF FetchAbort, StoresOK
    <3>2. tmp' = [tmp EXCEPT ![job.app] = 0]
      BY Zenon, <1>3 DEF FetchAbort
    <3>3. tmp' \in [App -> Nat]
      <4>1. \A u \in App : [tmp EXCEPT ![u] = 0] \in [App -> Nat]
        BY SMT, <1>t
      <4>2. job.app \in App
        BY Zenon, <1>g, <1>3 DEF FetchAbort
      <4> QED
        BY Zenon, <3>2, <4>1, <4>2
    <3> QED
      BY Zenon, <3>1, <3>3
  <2>3. job' \in Job /\ job'.at = "failed" /\ job'.target = job.target
    BY Zenon, <1>t, <1>3 DEF FetchAbort, Job
  <2>4. Shape'
    BY SMT, <1>g, <2>3 DEF Shape
  <2> QED
    BY Zenon, <2>1, <2>2, <2>3, <2>4, TypeParts
<1> QED
  BY Zenon, <1>1, <1>2, <1>3

\* The installation keeps the invariant.
LEMMA InstallTyped ==
  ASSUME TypeInv, Install
  PROVE  TypeInv'
<1> USE DEF TypeInv
<1>t. /\ StoresOK /\ tmp \in [App -> Nat] /\ WorldOK /\ CountsOK
      /\ noSpace \in NoSpaceState /\ job \in Job /\ published \in Target
  BY Zenon, TypeParts DEF WorldOK
<1>g. job.target \in Target
  BY SMT DEF Install, Shape
<1>1. AppsOf[job.target] \subseteq App
  BY SMT, <1>g, DownloadSpaceAssumption
<1>2. LayersOfTarget(job.target) \subseteq Blob
  BY SMT, <1>1, LayersType DEF LayersOfTarget
<1>3. {HashOf[t] : t \in {current, job.target} \ {NoTarget}} \subseteq Hash
  BY SMT, <1>t, <1>g, DownloadSpaceAssumption DEF WorldOK
<1>4. StoresOK'
  BY Zenon, <1>t, <1>1, <1>2, <1>3 DEF Install, StoresOK, stores
<1>5. tmp' \in [App -> Nat]
  <2>1. [u \in App |-> IF u \in AppsOf[job.target] THEN tmp[u] ELSE 0] \in [App -> Nat]
    BY SMT, <1>t
  <2> QED
    BY Zenon, <1>t, <2>1 DEF Install, stores
<1>6. WorldOK'
  BY SMT, <1>t, <1>g DEF Install, WorldOK, Results
<1>7. CountsOK' /\ noSpace' \in NoSpaceState
  BY Zenon, <1>t, SameTypes DEF Install
<1>8. job' \in Job
  BY Zenon, <1>t, NothingType DEF Install
<1>9. Shape'
  BY SMT DEF Install, Shape, NoJob
<1> QED
  BY Zenon, <1>4, <1>5, <1>6, <1>7, <1>8, <1>9, TypeParts

\* What happens around the daemon keeps the invariant.
LEMMA EnvironmentTyped ==
  ASSUME TypeInv, Publish \/ OtherUse \/ Crash
  PROVE  TypeInv'
<1> USE DEF TypeInv
<1>t. /\ StoresOK /\ tmp \in [App -> Nat] /\ WorldOK /\ CountsOK
      /\ noSpace \in NoSpaceState /\ job \in Job /\ published \in Target
  BY Zenon, TypeParts DEF WorldOK
<1>1. CASE Publish
  <2>1. StoresOK' /\ tmp' \in [App -> Nat] /\ noSpace' \in NoSpaceState /\ job' \in Job
    BY Zenon, <1>t, <1>1, SameTypes DEF Publish, stores
  <2>2. WorldOK'
    BY Zenon, <1>t, <1>1 DEF Publish, WorldOK
  <2>3. CountsOK'
    BY SMT, <1>t, <1>1, DownloadSpaceAssumption DEF Publish, CountsOK
  <2>4. Shape'
    BY Zenon, <1>1 DEF Publish, Shape
  <2> QED
    BY Zenon, <2>1, <2>2, <2>3, <2>4, TypeParts
<1>2. CASE OtherUse
  <2>1. tmp' \in [App -> Nat] /\ noSpace' \in NoSpaceState /\ job' \in Job /\ WorldOK'
    BY Zenon, <1>t, <1>2, SameTypes DEF OtherUse, stores
  <2>2. PICK v \in Volume : \E n \in OtherLevels[v] : other' = [other EXCEPT ![v] = n]
    BY Zenon, <1>2 DEF OtherUse
  <2>3. other' \in [Volume -> Nat]
    <3>1. \A n \in OtherLevels[v] : n \in Nat
      BY Zenon, DownloadSpaceAssumption
    <3>2. other \in [Volume -> Nat]
      BY Zenon, <1>t DEF StoresOK
    <3>3. PICK n \in Nat : other' = [other EXCEPT ![v] = n]
      BY Zenon, <2>2, <3>1
    <3> QED
      BY SMT, <3>2, <3>3
  <2>4. StoresOK'
    BY Zenon, <1>t, <1>2, <2>3 DEF OtherUse, StoresOK, stores
  <2>5. CountsOK'
    BY SMT, <1>t, <1>2, DownloadSpaceAssumption DEF OtherUse, CountsOK
  <2>6. Shape'
    BY Zenon, <1>2 DEF OtherUse, Shape
  <2> QED
    BY Zenon, <2>1, <2>4, <2>5, <2>6, TypeParts
<1>3. CASE Crash
  <2>1. StoresOK'
    BY Zenon, <1>t, <1>3, SameTypes DEF Crash
  <2>2. noSpace' \in NoSpaceState /\ job' \in Job
    BY Zenon, <1>t, <1>3, NothingType DEF Crash
  <2>3. Shape'
    BY SMT, <1>3 DEF Crash, Shape, NoJob
  <2>4. sameVolume' \in BOOLEAN
    <3>1. \A known : SameVolume(known) \in BOOLEAN
      BY Zenon DEF SameVolume
    <3> QED
      BY Zenon, <1>3, <3>1 DEF Crash
  <2>5. WorldOK'
    BY Zenon, <1>t, <1>3, <2>4 DEF Crash, WorldOK, Results
  <2>6. CountsOK'
    <3>1. UNCHANGED failures \/ \E kind : Fails(kind)
      BY Zenon, <1>3 DEF Crash, MayFail
    <3>2. failures' \in 0 .. MaxFailures
      BY SMT, <1>t, <3>1, DownloadSpaceAssumption DEF CountsOK, Fails
    <3>3. crashes' \in 0 .. MaxCrashes
      BY SMT, <1>t, <1>3, DownloadSpaceAssumption DEF CountsOK, Crash
    <3> QED
      BY Zenon, <1>t, <1>3, <3>2, <3>3 DEF CountsOK, Crash
  <2>7. CASE UNCHANGED tmp
    BY Zenon, <1>t, <2>1, <2>2, <2>3, <2>5, <2>6, <2>7, TypeParts
  <2>8. CASE /\ job.at = "images"
             /\ \E b \in Missing(job.app) : tmp' = [tmp EXCEPT ![job.app] = @ + BlobSize[b]]
    <3>1. job.app \in App
      BY SMT, <2>8 DEF Shape
    <3>2. PICK b \in Missing(job.app) : tmp' = [tmp EXCEPT ![job.app] = @ + BlobSize[b]]
      BY Zenon, <2>8
    <3>3. b \in Blob
      BY Zenon, <3>1, LayersType
    <3>4. BlobSize[b] \in Nat
      BY SMT, <3>3, DownloadSpaceAssumption
    <3>5. tmp' \in [App -> Nat]
      BY SMT, <1>t, <3>1, <3>2, <3>4
    <3> QED
      BY Zenon, <2>1, <2>2, <2>3, <2>5, <2>6, <3>5, TypeParts
  <2> QED
    BY Zenon, <1>3, <2>7, <2>8 DEF Crash
<1> QED
  BY Zenon, <1>1, <1>2, <1>3

\* The types, and what a job is about, are an inductive invariant.
LEMMA SpaceTypeInv == Spec => []TypeInv
<1>1. Init => TypeInv
  BY Zenon, InitTyped
<1>2. TypeInv /\ [Next]_vars => TypeInv'
  <2> SUFFICES ASSUME TypeInv, [Next]_vars PROVE TypeInv'
    BY Zenon
  <2>1. CASE UNCHANGED vars
    <3>1. UNCHANGED <<repo, fetched, blobs, tmp, loaded, other, sameVolume, noSpace,
                      current, failing, published, job, result, failures, crashes,
                      publishes, others>>
      BY Zenon, <2>1 DEF vars, stores, counts
    <3> QED
      BY Zenon, <3>1 DEF TypeInv, TypeOK, Shape
  <2>2. CASE Next
    BY Zenon, <2>2, PullAndInstallTyped, DownloadTyped, PullAppTyped,
       CheckAppUpdateSizeTyped, PullAppImagesTyped, InstallTyped, EnvironmentTyped
       DEF Next, Daemon
  <2> QED
    BY Zenon, <2>1, <2>2
<1> QED
  BY <1>1, <1>2, PTL DEF Spec

\* The types, and what a job is about, hold whatever sizes, Apps and layers there
\* are: what is remembered of a download that had no room is always the hash of a
\* Target and a number, and the availability it is compared with is never below
\* zero.
THEOREM SpaceIsTyped == Spec => []TypeOK
<1>1. Spec => []TypeInv
  BY Zenon, SpaceTypeInv
<1>2. TypeInv => TypeOK
  BY Zenon DEF TypeInv
<1> QED
  BY <1>1, <1>2, PTL

-----------------------------------------------------------------------------
(* The App that is checked fits. *)

\* The step that ends the check of an App's size.
LEMMA CheckedStep ==
  ASSUME TypeInv, CheckAppUpdateSize
  PROVE  AppFits
<1> DEFINE size == SumFunctionOnSet(BlobSize, Missing(job.app))
           usage == SumFunctionOnSet(BlobUsage, Missing(job.app))
           precise == /\ Meta[job.app] = "precise" /\ UNCHANGED failures
                      /\ SizeOf(BlobUsage, job.app) # Overflow
           Fit == /\ size <= Available("store", tmp')
                  /\ precise =>
                       /\ usage <= Available("docker", tmp')
                       /\ sameVolume => size + usage <= Available("store", tmp')
<1>0. SUFFICES ASSUME job'.at = "images", Meta[job.app] # "none" PROVE Fit
  BY Zenon DEF AppFits
<1>t. StoresOK /\ tmp \in [App -> Nat] /\ job \in Job /\ CountsOK
  BY Zenon, TypeParts DEF TypeInv
<1>1. PICK broken, need, temp, check :
        /\ need = RequiredSize(job.app, broken # "pull")
        /\ temp = Cleared(need.skopeo, tmp)
        /\ check = CheckAvailableStorageInStores(need, temp)
        /\ MayFail(broken, {"pull", "stat"})
        /\ Checked(need, check)
  BY Zenon, CheckSteps
<1>2. /\ job.app \in App
      /\ need.skopeo \in Total \cup {Overflow}
      /\ need.docker \in Total \cup {Overflow}
  <2>1. job.at = "size"
    BY Zenon DEF CheckAppUpdateSize
  <2> QED
    BY Zenon, <1>1, <2>1, CheckTypes
<1>3. /\ need.skopeo # Overflow /\ need.docker # Overflow
      /\ check.error = "none" /\ tmp' = check.temp
  <2>1. ASSUME NEW lack, NEW at, job' = [job EXCEPT !.at = at, !.lack = lack] PROVE job'.at = at
    BY Zenon, <1>t, <2>1 DEF Job
  <2>2. ASSUME NEW at, job' = [job EXCEPT !.at = at] PROVE job'.at = at
    BY Zenon, <1>t, <2>2 DEF Job
  <2>3. "images" # "abort"
    BY Zenon
  <2>4. ASSUME tmp' = check.temp, need.skopeo # Overflow, need.docker # Overflow,
               job' = [job EXCEPT
                 !.at = IF check.error = "none" THEN "images" ELSE "abort",
                 !.lack = IF check.error = "space"
                          THEN Lack(check.path, check.required, TRUE) ELSE @]
        PROVE  check.error = "none"
    <3> DEFINE at == IF check.error = "none" THEN "images" ELSE "abort"
               lack == IF check.error = "space"
                       THEN Lack(check.path, check.required, TRUE) ELSE job.lack
    <3>1. job' = [job EXCEPT !.at = at, !.lack = lack]
      BY SMT, <2>4
    <3>2. job'.at = at
      <4> HIDE DEF at, lack
      <4> QED
        BY Zenon, <2>1, <3>1
    <3> QED
      BY Zenon, <1>0, <2>3, <3>2
  <2> QED
    BY Zenon, <1>0, <1>1, <2>1, <2>2, <2>3, <2>4 DEF Checked
<1>4. need.skopeo \in Total /\ need.docker \in Total
  BY Zenon, <1>2, <1>3
<1>5. /\ check.temp \in [App -> Nat]
      /\ need.skopeo <= Available("store", check.temp)
      /\ need.docker <= Available("docker", check.temp)
      /\ sameVolume => need.skopeo + need.docker <= Available("store", check.temp)
  BY Zenon, <1>t, <1>1, <1>3, <1>4, FitsIsRoom
<1>6. /\ size <= need.skopeo
      /\ /\ Meta[job.app] = "precise" /\ broken # "pull"
         /\ SizeOf(BlobUsage, job.app) # Overflow
         => usage <= need.docker
  BY Zenon, <1>1, <1>2, <1>3, RequiredSizeCovers
<1>7. precise => broken # "pull"
  <2>1. failures \in Nat
    BY <1>t, DownloadSpaceAssumption DEF CountsOK
  <2>2. broken = "none" \/ failures' = failures + 1
    BY Zenon, <1>1 DEF MayFail, Fails
  <2>3. ASSUME precise PROVE broken = "none"
    BY <2>1, <2>2, <2>3
  <2> QED
    BY Zenon, <2>3
<1>8. size \in Nat /\ usage \in Nat
  <2>1. Missing(job.app) \subseteq Blob /\ IsFiniteSet(Blob)
    BY Zenon, <1>2, LayersType, DownloadSpaceAssumption
  <2>2. BlobSize \in [Blob -> Nat] /\ BlobUsage \in [Blob -> Nat]
    BY Zenon, DownloadSpaceAssumption
  <2> QED
    BY Zenon, <2>1, <2>2, PartSum
<1>9. need.skopeo \in Nat /\ need.docker \in Nat
  <2>1. Total \subseteq Nat
    BY DownloadSpaceAssumption DEF Total
  <2> QED
    BY Zenon, <1>4, <2>1
<1>10. Available("store", check.temp) \in Nat /\ Available("docker", check.temp) \in Nat
  BY Zenon, <1>t, <1>5, AvailableType DEF Path
<1>11. precise => usage <= need.docker
  BY Zenon, <1>6, <1>7
<1> HIDE DEF size, usage, precise
<1>12. /\ size <= Available("store", check.temp)
       /\ precise =>
            /\ usage <= Available("docker", check.temp)
            /\ sameVolume => size + usage <= Available("store", check.temp)
  BY <1>5, <1>6, <1>8, <1>9, <1>10, <1>11
<1> QED
  BY Zenon, <1>3, <1>12

\* When the check of an App's size passes, the layers that are missing fit into
\* the stores, whatever their sizes, however wide the numbers they are added in
\* and whatever else is on the volume.
THEOREM CheckedAppsFit == Spec => CheckedAppFits
<1>1. Spec => []TypeInv
  BY Zenon, SpaceTypeInv
<1>2. TypeInv /\ [Next]_vars => [AppFits]_vars
  <2> SUFFICES ASSUME TypeInv, Next PROVE AppFits
    BY Zenon
  <2>1. CASE CheckAppUpdateSize
    BY Zenon, <2>1, CheckedStep
  <2>2. ASSUME job.at = "size", job'.at = "images" PROVE CheckAppUpdateSize
    <3>1. job \in Job
      BY Zenon, TypeParts DEF TypeInv
    <3>2. job' = job \/ job' = NoJob \/ CheckAppUpdateSize
          \/ job.at # "size"
      BY Zenon, <2>2 DEF Next, Daemon, Publish, OtherUse, Crash, RefuseDownload, StartDownload,
        DownloadReturns, PullOstree, PullOstreeFails, PullApp, PullAppImages, PullFails,
        FetchAbort, Install
    <3> QED
      BY <2>2, <3>1, <3>2 DEF NoJob, Job
  <2> QED
    BY Zenon, <2>1, <2>2 DEF AppFits
<1> QED
  BY <1>1, <1>2, PTL DEF Spec, CheckedAppFits
=============================================================================
