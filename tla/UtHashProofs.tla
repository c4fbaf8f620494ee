---------------------------- MODULE UtHashProofs ----------------------------
(***************************************************************************)
(* Theorems about UtHash, for any pairs, keys, hash function, number of     *)
(* buckets and threshold: the pointers of the hash table are those of the   *)
(* sequences order and chain, HASH_FIND finds what is there, no bucket is   *)
(* over its threshold, and UtHash implements UtMap.                         *)
(*                                                                          *)
(* The invariant says of the lists what Fsck does, and more: where a search *)
(* and an expansion in progress are, and that the shares the buckets have   *)
(* of the pairs (Share) sum to at most the number of buckets, without which *)
(* ChainsBounded is not inductive.                                          *)
(***************************************************************************)
EXTENDS UtHash, SeqLemmas, FiniteSetTheorems, WellFoundedInduction

----------------------------------------------------------------------------
(* Sums, and induction. *)

(* A set of naturals with an element has a least one. *)
LEMMA Smallest ==
  ASSUME NEW S, S \subseteq Nat, S # {}
  PROVE  \E m \in S : \A n \in S : m <= n
<1> DEFINE T == {U \in SUBSET Nat : \E n \in S : U = 0..n}
<1>1. T \subseteq FiniteSubsetsOf(Nat)
  <2>1. ASSUME NEW n \in Nat PROVE IsFiniteSet(0..n)
    BY FS_Interval
  <2>2. QED BY <2>1 DEF FiniteSubsetsOf
<1>2. T # {}
  <2>1. PICK n \in S : TRUE
    OBVIOUS
  <2>2. 0..n \in T
    BY <2>1
  <2>3. QED BY <2>2
<1>3. IsWellFoundedOn(StrictSubsetOrdering(Nat), FiniteSubsetsOf(Nat))
  BY FS_StrictSubsetOrderingWellFounded
<1>4. PICK x \in T : \A y \in T : ~ (<<y, x>> \in StrictSubsetOrdering(Nat))
  <2> HIDE DEF T
  <2>1. QED BY <1>1, <1>2, <1>3, WFMin
<1>5. PICK m \in S : x = 0..m
  OBVIOUS
<1>6. ASSUME NEW n \in S, ~(m <= n) PROVE FALSE
  <2>1. 0..n \in T /\ m \in Nat /\ n \in Nat
    BY <1>6
  <2>2. 0..n \subseteq 0..m /\ 0..n # 0..m
    <3>1. m \in 0..m /\ m \notin 0..n
      BY <2>1, <1>6
    <3>2. QED BY <3>1, <2>1, <1>6
  <2>3. <<0..n, 0..m>> \in StrictSubsetOrdering(Nat)
    BY <2>1, <2>2, <1>5 DEF StrictSubsetOrdering
  <2>4. QED BY <2>1, <2>3, <1>4, <1>5
<1>7. QED BY <1>6

(* Induction on the naturals, as a fact about the set of those a formula is
   true of: the theorem of NaturalsInduction takes the formula as a parameter,
   which the provers cannot instantiate.                                      *)
LEMMA Induction ==
  ASSUME NEW S, 0 \in S, \A n \in S \cap Nat : n + 1 \in S
  PROVE  Nat \subseteq S
<1> SUFFICES ASSUME Nat \ S # {} PROVE FALSE
  OBVIOUS
<1>1. PICK m \in Nat \ S : \A n \in Nat \ S : m <= n
  BY Smallest
<1>2. m # 0 /\ m - 1 \in Nat /\ m - 1 \notin Nat \ S
  BY <1>1
<1>3. m - 1 + 1 \in S
  BY <1>2
<1>4. QED BY <1>1, <1>3

----------------------------------------------------------------------------
(* The sum of the values f[0] to f[n - 1], by its partial sums. *)
Counts(f, n) == \A b \in 0..(n - 1) : f[b] \in Nat

Partials(f, n) == {s \in [0..n -> Nat] : s[0] = 0 /\ \A b \in 0..(n - 1) : s[b + 1] = s[b] + f[b]}

Total(f, n) == CHOOSE t \in Nat : \E s \in Partials(f, n) : t = s[n]

(* There are partial sums, *)
LEMMA PartialsExist ==
  ASSUME NEW f, NEW n \in Nat, Counts(f, n)
  PROVE  \E s : s \in Partials(f, n)
<1> DEFINE S == {m \in Nat : m <= n => \E s : s \in Partials(f, m)}
<1>1. 0 \in S
  <2>1. [b \in 0..0 |-> 0] \in Partials(f, 0)
    BY DEF Partials
  <2>2. QED BY <2>1
<1>2. ASSUME NEW m \in S, m + 1 <= n PROVE m + 1 \in S
  <2>1. m <= n /\ m \in Nat /\ f[m] \in Nat
    BY <1>2 DEF Counts
  <2>2. PICK s : s \in Partials(f, m)
    BY <2>1
  <2> DEFINE t == [b \in 0..(m + 1) |-> IF b = m + 1 THEN s[m] + f[m] ELSE s[b]]
  <2>3. s \in [0..m -> Nat] /\ s[0] = 0 /\ \A b \in 0..(m - 1) : s[b + 1] = s[b] + f[b]
    BY <2>2 DEF Partials
  <2>4. t \in [0..(m + 1) -> Nat] /\ t[0] = 0
    BY <2>1, <2>3
  <2>5. \A b \in 0..m : t[b + 1] = t[b] + f[b]
    BY <2>1, <2>3
  <2>6. t \in Partials(f, m + 1)
    <3>1. m + 1 - 1 = m
      BY <2>1
    <3> HIDE DEF t
    <3>2. QED BY <2>4, <2>5, <3>1 DEF Partials
  <2>7. QED BY <2>1, <2>6
<1>3. \A m \in S \cap Nat : m + 1 \in S
  BY <1>2
<1>4. Nat \subseteq S
  <2> HIDE DEF S
  <2>1. QED BY <1>1, <1>3, Induction
<1>5. QED BY <1>4

(* they are determined, *)
LEMMA PartialsAgree ==
  ASSUME NEW f, NEW m \in Nat, NEW n \in Nat, m <= n,
         NEW s \in Partials(f, m), NEW t \in Partials(f, n)
  PROVE  s[m] = t[m]
<1> DEFINE S == {b \in Nat : b <= m => s[b] = t[b]}
<1>1. 0 \in S
  BY DEF Partials
<1>2. ASSUME NEW b \in S, b + 1 <= m PROVE b + 1 \in S
  <2>1. b \in 0..(m - 1) /\ b \in 0..(n - 1) /\ s[b] = t[b] /\ b + 1 \in Nat
    BY <1>2
  <2>2. s[b + 1] = s[b] + f[b] /\ t[b + 1] = t[b] + f[b]
    BY <2>1 DEF Partials
  <2>3. QED BY <2>1, <2>2
<1>3. \A b \in S \cap Nat : b + 1 \in S
  BY <1>2
<1>4. Nat \subseteq S
  <2> HIDE DEF S
  <2>1. QED BY <1>1, <1>3, Induction
<1>5. QED BY <1>4

(* and the sum is the last of them. *)
LEMMA TotalIs ==
  ASSUME NEW f, NEW n \in Nat, NEW s \in Partials(f, n)
  PROVE  Total(f, n) \in Nat /\ Total(f, n) = s[n]
<1>1. s[n] \in Nat
  BY DEF Partials
<1>2. \A t \in Partials(f, n) : t[n] = s[n]
  BY PartialsAgree
<1>3. QED BY <1>1, <1>2 DEF Total

(* n + 1 times c. *)
LEMMA AddTimes ==
  ASSUME NEW a \in Nat, NEW b \in Nat, NEW d \in Nat, NEW u \in Nat, NEW v \in Nat
  PROVE  /\ a * d <= u /\ b * d <= v => (a + b) * d <= u + v
         /\ u <= a * d /\ v <= b * d => u + v <= (a + b) * d
<1>1. (a + b) * d = a * d + b * d /\ a * d \in Nat /\ b * d \in Nat
  OBVIOUS
<1>2. QED BY <1>1

(* The sum of the first n values, one more value at a time. *)
LEMMA TotalStep ==
  ASSUME NEW f, NEW n \in Nat, Counts(f, n)
  PROVE  /\ Total(f, n) \in Nat
         /\ n = 0 => Total(f, n) = 0
         /\ n > 0 => Counts(f, n - 1) /\ Total(f, n) = Total(f, n - 1) + f[n - 1]
<1>1. PICK s : s \in Partials(f, n)
  BY PartialsExist
<1>2. Total(f, n) \in Nat /\ Total(f, n) = s[n]
  BY <1>1, TotalIs
<1>3. n = 0 => Total(f, n) = 0
  BY <1>1, <1>2 DEF Partials
<1>4. ASSUME n > 0 PROVE Counts(f, n - 1) /\ Total(f, n) = Total(f, n - 1) + f[n - 1]
  <2>1. n - 1 \in Nat /\ n - 1 + 1 = n /\ n - 1 \in 0..(n - 1)
    BY <1>4
  <2>2. Counts(f, n - 1)
    BY <2>1 DEF Counts
  <2>3. PICK t : t \in Partials(f, n - 1)
    BY <2>1, <2>2, PartialsExist
  <2>4. Total(f, n - 1) = t[n - 1]
    BY <2>1, <2>3, TotalIs
  <2>5. t[n - 1] = s[n - 1]
    BY <2>1, <2>3, <1>1, PartialsAgree
  <2>6. s[n - 1 + 1] = s[n - 1] + f[n - 1]
    BY <2>1, <1>1 DEF Partials
  <2>7. QED BY <2>1, <2>2, <2>4, <2>5, <2>6, <1>2
<1>5. QED BY <1>2, <1>3, <1>4

(* A bound on each value is one on their sum. *)
LEMMA TotalLe ==
  ASSUME NEW f, NEW g, NEW d \in Nat, NEW n \in Nat, Counts(f, n), Counts(g, n),
         \A b \in 0..(n - 1) : f[b] * d <= g[b]
  PROVE  Total(f, n) * d <= Total(g, n)
<1> DEFINE S == {m \in Nat : m <= n => Total(f, m) * d <= Total(g, m)}
<1>0. ASSUME NEW m \in Nat, m <= n PROVE Counts(f, m) /\ Counts(g, m)
  BY <1>0 DEF Counts
<1>1. 0 \in S
  <2>1. Total(f, 0) = 0 /\ Total(g, 0) = 0
    BY <1>0, TotalStep
  <2>2. QED BY <2>1
<1>2. ASSUME NEW m \in S, m + 1 <= n PROVE m + 1 \in S
  <2>1. m \in Nat /\ m + 1 \in Nat /\ m + 1 > 0 /\ m + 1 - 1 = m /\ m <= n /\ m \in 0..(n - 1)
    BY <1>2
  <2>2. /\ Total(f, m) \in Nat /\ Total(g, m) \in Nat
        /\ Total(f, m + 1) = Total(f, m) + f[m]
        /\ Total(g, m + 1) = Total(g, m) + g[m]
    BY <1>2, <2>1, <1>0, TotalStep
  <2>3. Total(f, m) * d <= Total(g, m) /\ f[m] * d <= g[m] /\ f[m] \in Nat /\ g[m] \in Nat
    BY <1>2, <2>1 DEF Counts
  <2>4. (Total(f, m) + f[m]) * d <= Total(g, m) + g[m]
    <3> HIDE DEF S
    <3> QED BY <2>2, <2>3, AddTimes
  <2>5. QED BY <2>1, <2>2, <2>4
<1>3. \A m \in S \cap Nat : m + 1 \in S
  BY <1>2
<1>4. Nat \subseteq S
  <2> HIDE DEF S
  <2>1. QED BY <1>1, <1>3, Induction
<1>5. QED BY <1>4

(* The same from above. *)
LEMMA TotalLess ==
  ASSUME NEW f, NEW g, NEW d \in Nat, NEW n \in Nat, Counts(f, n), Counts(g, n),
         \A b \in 0..(n - 1) : g[b] <= (f[b] + 1) * d
  PROVE  Total(g, n) <= (Total(f, n) + n) * d
<1> DEFINE S == {m \in Nat : m <= n => Total(g, m) <= (Total(f, m) + m) * d}
<1>0. ASSUME NEW m \in Nat, m <= n PROVE Counts(f, m) /\ Counts(g, m)
  BY <1>0 DEF Counts
<1>1. 0 \in S
  <2>1. Total(f, 0) = 0 /\ Total(g, 0) = 0
    BY <1>0, TotalStep
  <2>2. QED BY <2>1
<1>2. ASSUME NEW m \in S, m + 1 <= n PROVE m + 1 \in S
  <2>1. m \in Nat /\ m + 1 \in Nat /\ m + 1 > 0 /\ m + 1 - 1 = m /\ m <= n /\ m \in 0..(n - 1)
    BY <1>2
  <2>2. /\ Total(f, m) \in Nat /\ Total(g, m) \in Nat
        /\ Total(f, m + 1) = Total(f, m) + f[m]
        /\ Total(g, m + 1) = Total(g, m) + g[m]
    BY <1>2, <2>1, <1>0, TotalStep
  <2>3. /\ Total(g, m) <= (Total(f, m) + m) * d /\ g[m] <= (f[m] + 1) * d
        /\ f[m] \in Nat /\ g[m] \in Nat
    BY <1>2, <2>1 DEF Counts
  <2>4. Total(g, m) + g[m] <= ((Total(f, m) + m) + (f[m] + 1)) * d
    <3> HIDE DEF S
    <3>1. Total(f, m) + m \in Nat /\ f[m] + 1 \in Nat
      BY <2>1, <2>2, <2>3
    <3>2. QED BY <2>2, <2>3, <3>1, AddTimes
  <2>5. (Total(f, m) + m) + (f[m] + 1) = (Total(f, m) + f[m]) + (m + 1)
    BY <2>1, <2>2, <2>3
  <2>6. QED BY <2>1, <2>2, <2>4, <2>5
<1>3. \A m \in S \cap Nat : m + 1 \in S
  BY <1>2
<1>4. Nat \subseteq S
  <2> HIDE DEF S
  <2>1. QED BY <1>1, <1>3, Induction
<1>5. QED BY <1>4

(* The sum depends on the values only. *)
LEMMA TotalSame ==
  ASSUME NEW f, NEW g, NEW n \in Nat, Counts(f, n), \A b \in 0..(n - 1) : g[b] = f[b]
  PROVE  Counts(g, n) /\ Total(g, n) = Total(f, n)
<1>1. Counts(g, n)
  BY DEF Counts
<1>2. Partials(f, n) = Partials(g, n)
  BY DEF Partials
<1>3. QED BY <1>1, <1>2 DEF Total

(* One value that is one more. *)
LEMMA TotalMore ==
  ASSUME NEW f, NEW g, NEW n \in Nat, NEW c \in 0..(n - 1), Counts(f, n),
         g[c] = f[c] + 1, \A b \in 0..(n - 1) : b # c => g[b] = f[b]
  PROVE  Counts(g, n) /\ Total(g, n) = Total(f, n) + 1
<1> DEFINE S == {m \in Nat : c < m /\ m <= n => Total(g, m) = Total(f, m) + 1}
<1>0. Counts(g, n)
  BY DEF Counts
<1>1. ASSUME NEW m \in Nat, m <= n PROVE Counts(f, m) /\ Counts(g, m)
  BY <1>0, <1>1 DEF Counts
<1>2. 0 \in S
  OBVIOUS
<1>3. ASSUME NEW m \in S, m + 1 <= n, c < m + 1 PROVE m + 1 \in S
  <2>1. m \in Nat /\ m + 1 \in Nat /\ m + 1 > 0 /\ m + 1 - 1 = m /\ m <= n /\ m \in 0..(n - 1)
    BY <1>3
  <2>2. /\ Total(f, m) \in Nat /\ Total(g, m) \in Nat
        /\ Total(f, m + 1) = Total(f, m) + f[m]
        /\ Total(g, m + 1) = Total(g, m) + g[m]
    BY <1>3, <2>1, <1>1, TotalStep
  <2>3. f[m] \in Nat /\ g[m] \in Nat
    BY <1>0, <2>1 DEF Counts
  <2>4. CASE c = m
    <3>1. Counts(f, m) /\ \A b \in 0..(m - 1) : g[b] = f[b]
      BY <2>1, <2>4, <1>1
    <3>2. Total(g, m) = Total(f, m)
      BY <2>1, <3>1, TotalSame
    <3>3. QED BY <2>1, <2>2, <2>3, <2>4, <3>2
  <2>5. CASE c # m
    <3>1. c < m /\ g[m] = f[m]
      BY <2>1, <2>5, <1>3
    <3>2. QED BY <2>1, <2>2, <2>3, <3>1, <1>3
  <2>6. QED BY <2>4, <2>5
<1>4. \A m \in S \cap Nat : m + 1 \in S
  BY <1>3
<1>5. Nat \subseteq S
  <2> HIDE DEF S
  <2>1. QED BY <1>2, <1>4, Induction
<1>6. c < n
  OBVIOUS
<1>7. QED BY <1>0, <1>5, <1>6

(* The sum of zeros. *)
LEMMA TotalZero ==
  ASSUME NEW f, NEW n \in Nat, \A b \in 0..(n - 1) : f[b] = 0
  PROVE  Counts(f, n) /\ Total(f, n) = 0
<1>1. Counts(f, n)
  BY DEF Counts
<1>2. [b \in 0..n |-> 0] \in Partials(f, n)
  BY DEF Partials
<1>3. Total(f, n) = [b \in 0..n |-> 0][n]
  BY <1>2, TotalIs
<1>4. QED BY <1>1, <1>3

----------------------------------------------------------------------------
(* Division. *)

(* Division with remainder. *)
LEMMA DivMod ==
  ASSUME NEW m \in Nat, NEW n \in Nat \ {0}
  PROVE  /\ m \div n \in Nat /\ m % n \in 0..(n - 1)
         /\ n * (m \div n) <= m /\ m < n * (m \div n) + n
         /\ m % n = 0 => m = n * (m \div n)
<1>1. m \div n \in Nat
  OBVIOUS
<1>2. m % n \in 0..(n - 1)
  OBVIOUS
<1>3. n * (m \div n) <= m
  OBVIOUS
<1>4. m < n * (m \div n) + n
  OBVIOUS
<1>5. ASSUME NEW q \in Nat, q = m \div n, m % n = 0 PROVE m = n * q
  BY <1>5
<1>6. QED BY <1>1, <1>2, <1>3, <1>4, <1>5

(* A product that is less has the lesser factor. *)
LEMMA Cancel ==
  ASSUME NEW a \in Nat, NEW b \in Nat, NEW n \in Nat \ {0}, n * a <= n * b
  PROVE  a <= b
OBVIOUS

(* A remainder is what is missing from a multiple. *)
LEMMA NoRest ==
  ASSUME NEW m \in Nat, NEW n \in Nat \ {0}, NEW q \in Nat, q = m \div n, n * q = m
  PROVE  m % n = 0
OBVIOUS

(* The quotient rounded up. *)
LEMMA IdealBounds ==
  ASSUME NEW m \in Nat, NEW n \in Nat \ {0}
  PROVE  /\ IdealChainMaxlen(m, n) \in Nat
         /\ m <= n * IdealChainMaxlen(m, n)
         /\ m > 0 => IdealChainMaxlen(m, n) > 0
         /\ \A t \in Nat : m <= n * t => IdealChainMaxlen(m, n) <= t
<1> DEFINE q == m \div n
           r == m % n
           x == q + (IF r = 0 THEN 0 ELSE 1)
<1>1. /\ q \in Nat /\ r \in 0..(n - 1)
      /\ n * q <= m /\ m < n * q + n
      /\ r = 0 => m = n * q
  BY DivMod
<1>2. IdealChainMaxlen(m, n) = x
  BY DEF IdealChainMaxlen
<1> HIDE DEF q, r
<1>3. x \in Nat
  BY <1>1
<1>4. m <= n * x
  <2>1. CASE r = 0
    BY <2>1, <1>1
  <2>2. CASE r # 0
    <3>1. x = q + 1 /\ n * (q + 1) = n * q + n
      BY <2>2, <1>1
    <3>2. n * x = n * q + n
      BY <3>1
    <3>3. QED BY <3>2, <1>1
  <2>3. QED BY <2>1, <2>2
<1>5. ASSUME m > 0, x = 0 PROVE FALSE
  <2>1. n * x = 0
    BY <1>5
  <2>2. QED BY <2>1, <1>4, <1>5
<1>6. ASSUME NEW t \in Nat, m <= n * t PROVE x <= t
  <2>1. CASE r = 0
    <3>1. n * q <= n * t
      BY <2>1, <1>1, <1>6
    <3>2. q <= t
      BY <3>1, <1>1, Cancel
    <3>3. QED BY <3>2, <2>1, <1>1
  <2>2. CASE r # 0
    <3>1. n * q # m
      <4>1. SUFFICES ASSUME n * q = m PROVE FALSE
        OBVIOUS
      <4>2. q = m \div n /\ r = m % n
        BY DEF q, r
      <4>3. QED BY <4>1, <4>2, <2>2, NoRest, <1>1
    <3>2. n * q < n * t
      BY <3>1, <1>1, <1>6
    <3>3. q < t
      <4>1. SUFFICES ASSUME t <= q PROVE FALSE
        BY <1>1
      <4>2. n * t <= n * q
        BY <4>1, <1>1
      <4>3. QED BY <4>2, <3>2, <1>1
    <3>4. QED BY <3>3, <2>2, <1>1
  <2>3. QED BY <2>1, <2>2
<1>7. QED BY <1>2, <1>3, <1>4, <1>5, <1>6

----------------------------------------------------------------------------
(* Doubly linked lists, on the pointers f forth and p back. *)

(* The list s, forth from its first pair and back. *)
Forward(s, first, f) ==
  /\ first = IF s = <<>> THEN NULL ELSE s[1]
  /\ \A n \in 1..Len(s) : f[s[n]] = IF n = Len(s) THEN NULL ELSE s[n + 1]

Backward(s, p) == \A n \in 1..Len(s) : p[s[n]] = IF n = 1 THEN NULL ELSE s[n - 1]

(* Linked is both. *)
LEMMA LinkedIs ==
  ASSUME NEW s \in Seq(Item), NEW first, NEW f, NEW p
  PROVE  Linked(s, first, f, p) <=> Forward(s, first, f) /\ Backward(s, p)
<1>1. DOMAIN s = 1..Len(s)
  BY LenProperties
<1>2. QED BY <1>1 DEF Linked, Forward, Backward

(* Facts about a sequence of pairs that the lemmas below keep using. *)
LEMMA SeqFacts ==
  ASSUME NEW s \in Seq(Item)
  PROVE  /\ Len(s) \in Nat
         /\ s = <<>> <=> Len(s) = 0
         /\ DOMAIN s = 1..Len(s)
         /\ \A n \in 1..Len(s) : s[n] \in Item /\ s[n] # NULL /\ s[n] \in ToSet(s)
         /\ ToSet(s) = {s[n] : n \in 1..Len(s)}
         /\ ToSet(s) \subseteq Item
         /\ s = <<>> <=> ToSet(s) = {}
         /\ IsInjective(s) => \A m, n \in 1..Len(s) : s[m] = s[n] => m = n
<1>1. Len(s) \in Nat /\ DOMAIN s = 1..Len(s)
  BY LenProperties
<1>2. s = <<>> <=> Len(s) = 0
  BY EmptySeq
<1>3. \A n \in 1..Len(s) : s[n] \in Item
  BY ElementOfSeq
<1>4. NULL \notin Item
  BY HashAssumption
<1>5. ToSet(s) = {s[n] : n \in 1..Len(s)} /\ ToSet(s) \subseteq Item
  BY ToSetDef
<1>6. s # <<>> => ToSet(s) # {}
  <2>1. s # <<>> => 1 \in 1..Len(s)
    BY <1>1, <1>2
  <2>2. QED BY <2>1, <1>5
<1>7. s = <<>> => ToSet(s) = {}
  BY <1>1, <1>2, <1>5
<1>8. IsInjective(s) => \A m, n \in 1..Len(s) : s[m] = s[n] => m = n
  BY <1>1 DEF IsInjective
<1>9. QED BY <1>1, <1>2, <1>3, <1>4, <1>5, <1>6, <1>7, <1>8

(* A field of the handles that is a pointer; its values at pairs not in I are kept. *)
Links == [Item -> Item \cup {NULL, JUNK}]

Apart(f, g, I) == \A j \in Item \ I : g[j] = f[j]

(* A list is as it was if the pointers of its pairs are, *)
LEMMA LinkedFrame ==
  ASSUME NEW s \in Seq(Item), NEW first, NEW f, NEW p, NEW f2, NEW p2, NEW I,
         Linked(s, first, f, p), Apart(f, f2, I), Apart(p, p2, I), ToSet(s) \cap I = {}
  PROVE  Linked(s, first, f2, p2)
<1>1. \A n \in 1..Len(s) : f2[s[n]] = f[s[n]] /\ p2[s[n]] = p[s[n]]
  BY SeqFacts DEF Apart
<1>2. QED BY <1>1, LinkedIs DEF Forward, Backward

(* and so are the pointers forth alone. *)
LEMMA ForwardFrame ==
  ASSUME NEW s \in Seq(Item), NEW first, NEW f, NEW f2, NEW I,
         Forward(s, first, f), Apart(f, f2, I), ToSet(s) \cap I = {}
  PROVE  Forward(s, first, f2)
<1>1. \A n \in 1..Len(s) : f2[s[n]] = f[s[n]]
  BY SeqFacts DEF Apart
<1>2. QED BY <1>1 DEF Forward

(* What the list says of its first element. *)
LEMMA FirstIs ==
  ASSUME NEW s \in Seq(Item), NEW first, NEW f, Forward(s, first, f)
  PROVE  /\ first \in Item \cup {NULL}
         /\ first = NULL <=> s = <<>>
         /\ first # NULL => first \in ToSet(s) /\ s[1] = first /\ 1 \in 1..Len(s)
<1>1. s # <<>> => 1 \in 1..Len(s)
  BY SeqFacts
<1>2. CASE s = <<>>
  BY <1>2 DEF Forward
<1>3. CASE s # <<>>
  BY <1>1, <1>3, SeqFacts DEF Forward
<1>4. QED BY <1>2, <1>3

(* A new element at the front of a list. *)
LEMMA LinkedCons ==
  ASSUME NEW s \in Seq(Item), NEW first, NEW f \in Links, NEW p \in Links, NEW i \in Item \ ToSet(s),
         Linked(s, first, f, p), IsInjective(s)
  PROVE  LET f2 == [f EXCEPT ![i] = first]
             p2 == SetIf([p EXCEPT ![i] = NULL], first, i)
         IN  /\ f2 \in Links /\ p2 \in Links
             /\ f2[i] # JUNK /\ p2[i] # JUNK
             /\ \A j \in Item : /\ f[j] # JUNK => f2[j] # JUNK
                                /\ p[j] # JUNK => p2[j] # JUNK
             /\ Linked(<<i>> \o s, i, f2, p2)
             /\ Apart(f, f2, {i}) /\ Apart(p, p2, {i} \cup ToSet(s))
<1> DEFINE f2 == [f EXCEPT ![i] = first]
           p1 == [p EXCEPT ![i] = NULL]
           p2 == SetIf(p1, first, i)
           t == <<i>> \o s
<1>0. JUNK \notin Item /\ NULL \notin Item /\ NULL # JUNK
  BY HashAssumption
<1>1. Forward(s, first, f) /\ Backward(s, p)
  BY LinkedIs
<1>2. /\ first \in Item \cup {NULL}
      /\ first = NULL <=> s = <<>>
      /\ first # NULL => first \in ToSet(s) /\ s[1] = first /\ 1 \in 1..Len(s)
  BY <1>1, FirstIs
<1>3. /\ f2 \in Links
      /\ \A j \in Item : f2[j] = IF j = i THEN first ELSE f[j]
  BY <1>2 DEF Links
<1>4. /\ p2 \in Links
      /\ \A j \in Item : p2[j] = IF j = first THEN i ELSE IF j = i THEN NULL ELSE p[j]
  <2>1. p1 \in Links /\ \A j \in Item : p1[j] = IF j = i THEN NULL ELSE p[j]
    BY DEF Links
  <2> HIDE DEF p1
  <2>2. p2 \in Links /\ \A j \in Item : p2[j] = IF j = first THEN i ELSE p1[j]
    BY <2>1, <1>0, <1>2 DEF SetIf, Links
  <2>3. i # first
    BY <1>0, <1>2
  <2> HIDE DEF p2
  <2>4. p2 \in Links
    BY <2>2
  <2>5. ASSUME NEW j \in Item PROVE p2[j] = IF j = first THEN i ELSE IF j = i THEN NULL ELSE p[j]
    BY <2>1, <2>2
  <2>6. QED BY <2>4, <2>5
<1>5. /\ t \in Seq(Item) /\ Len(t) = Len(s) + 1 /\ Len(s) \in Nat
      /\ \A n \in 1..(Len(s) + 1) : t[n] = IF n = 1 THEN i ELSE s[n - 1]
  BY ToSetCons, SeqFacts
<1> HIDE DEF f2, p1, p2, t
<1>6. t # <<>> /\ t[1] = i
  BY <1>5, SeqFacts
<1>7. Forward(t, i, f2)
  <2> SUFFICES ASSUME NEW n \in 1..Len(t)
               PROVE f2[t[n]] = IF n = Len(t) THEN NULL ELSE t[n + 1]
    BY <1>6 DEF Forward
  <2>1. CASE n = 1
    <3>1. f2[t[n]] = first
      BY <2>1, <1>3, <1>6
    <3>2. CASE s = <<>>
      BY <3>1, <3>2, <2>1, <1>2, <1>5, SeqFacts
    <3>3. CASE s # <<>>
      <4>1. n # Len(t) /\ t[n + 1] = s[1]
        BY <3>3, <2>1, <1>5, SeqFacts
      <4>2. QED BY <4>1, <3>1, <3>3, <1>2
    <3>4. QED BY <3>2, <3>3
  <2>2. CASE n # 1
    <3>1. n - 1 \in 1..Len(s) /\ t[n] = s[n - 1]
      BY <2>2, <1>5
    <3>2. f2[t[n]] = f[s[n - 1]]
      BY <3>1, <1>3, SeqFacts
    <3>3. f[s[n - 1]] = IF n - 1 = Len(s) THEN NULL ELSE s[n - 1 + 1]
      BY <3>1, <1>1 DEF Forward
    <3>4. n # Len(t) => t[n + 1] = s[n]
      BY <2>2, <1>5
    <3>5. (n = Len(t) <=> n - 1 = Len(s)) /\ n - 1 + 1 = n
      BY <1>5
    <3>6. QED BY <3>2, <3>3, <3>4, <3>5
  <2>3. QED BY <2>1, <2>2
<1>8. Backward(t, p2)
  <2> SUFFICES ASSUME NEW n \in 1..Len(t)
               PROVE p2[t[n]] = IF n = 1 THEN NULL ELSE t[n - 1]
    BY DEF Backward
  <2>1. CASE n = 1
    BY <2>1, <1>2, <1>4, <1>6
  <2>2. CASE n # 1
    <3>1. n - 1 \in 1..Len(s) /\ t[n] = s[n - 1] /\ s[n - 1] # i /\ s[n - 1] \in Item
      BY <2>2, <1>5, SeqFacts
    <3>2. CASE n = 2
      <4>1. t[n] = first /\ first \in Item
        BY <3>1, <3>2, <1>1, <1>2, SeqFacts DEF Forward
      <4>2. QED BY <4>1, <3>2, <1>4, <1>6
    <3>3. CASE n # 2
      <4>1. s[n - 1] # first
        <5>1. 1 \in 1..Len(s) /\ s[1] = first
          BY <3>1, <1>2, SeqFacts
        <5>2. QED BY <5>1, <3>1, <3>3, SeqFacts
      <4>2. p2[t[n]] = p[s[n - 1]]
        BY <4>1, <3>1, <1>4
      <4>3. p[s[n - 1]] = s[n - 1 - 1]
        BY <3>1, <3>3, <2>2, <1>1 DEF Backward
      <4>4. t[n - 1] = s[n - 1 - 1]
        BY <3>3, <2>2, <1>5
      <4>5. QED BY <4>2, <4>3, <4>4, <2>2
    <3>4. QED BY <3>2, <3>3
  <2>3. QED BY <2>1, <2>2
<1>9. Linked(t, i, f2, p2)
  BY <1>5, <1>7, <1>8, LinkedIs
<1>10. Apart(f, f2, {i}) /\ Apart(p, p2, {i} \cup ToSet(s))
  <2>1. ASSUME NEW j \in Item \ {i} PROVE f2[j] = f[j]
    BY <1>3
  <2>2. ASSUME NEW j \in Item \ ({i} \cup ToSet(s)) PROVE p2[j] = p[j]
    BY <1>2, <1>4, <1>0
  <2>3. QED BY <2>1, <2>2 DEF Apart
<1>11. /\ f2[i] # JUNK /\ p2[i] # JUNK
       /\ \A j \in Item : (f[j] # JUNK => f2[j] # JUNK) /\ (p[j] # JUNK => p2[j] # JUNK)
  BY <1>0, <1>2, <1>3, <1>4
<1>12. QED BY <1>3, <1>4, <1>9, <1>10, <1>11 DEF f2, p1, p2, t

(* A new element at the end of a list. *)
LEMMA LinkedAppend ==
  ASSUME NEW s \in Seq(Item), NEW first, NEW f \in Links, NEW p \in Links, NEW i \in Item \ ToSet(s),
         Linked(s, first, f, p), IsInjective(s)
  PROVE  LET last == IF s = <<>> THEN NULL ELSE s[Len(s)]
             f2 == SetIf([f EXCEPT ![i] = NULL], last, i)
             p2 == [p EXCEPT ![i] = last]
         IN  /\ f2 \in Links /\ p2 \in Links
             /\ f2[i] # JUNK /\ p2[i] # JUNK
             /\ \A j \in Item : /\ f[j] # JUNK => f2[j] # JUNK
                                /\ p[j] # JUNK => p2[j] # JUNK
             /\ Linked(Append(s, i), IF s = <<>> THEN i ELSE first, f2, p2)
             /\ s # <<>> => last \in Item
<1> DEFINE last == IF s = <<>> THEN NULL ELSE s[Len(s)]
           f1 == [f EXCEPT ![i] = NULL]
           f2 == SetIf(f1, last, i)
           p2 == [p EXCEPT ![i] = last]
           t == Append(s, i)
           top == IF s = <<>> THEN i ELSE first
<1>0. JUNK \notin Item /\ NULL \notin Item /\ NULL # JUNK
  BY HashAssumption
<1>1. Forward(s, first, f) /\ Backward(s, p)
  BY LinkedIs
<1>2. /\ last \in Item \cup {NULL} /\ last # i
      /\ last = NULL <=> s = <<>>
      /\ last # NULL => last = s[Len(s)] /\ last \in Item /\ Len(s) \in 1..Len(s)
  <2>1. s # <<>> => Len(s) \in 1..Len(s)
    BY SeqFacts
  <2>2. QED BY <1>0, <2>1, SeqFacts
<1> HIDE DEF last
<1>3. /\ p2 \in Links
      /\ \A j \in Item : p2[j] = IF j = i THEN last ELSE p[j]
  BY <1>2 DEF Links
<1>4. f1 \in Links /\ \A j \in Item : f1[j] = IF j = i THEN NULL ELSE f[j]
  BY DEF Links
<1> HIDE DEF f1, p2
<1>5. f2 \in Links /\ \A j \in Item : f2[j] = IF j = last THEN i ELSE f1[j]
  BY <1>0, <1>2, <1>4 DEF SetIf, Links
<1>6. /\ t \in Seq(Item) /\ Len(t) = Len(s) + 1 /\ Len(s) \in Nat
      /\ \A n \in 1..(Len(s) + 1) : t[n] = IF n <= Len(s) THEN s[n] ELSE i
  BY ToSetAppend, SeqFacts
<1> HIDE DEF f2, t
<1>7. Forward(t, top, f2)
  <2>1. t # <<>> /\ top = t[1]
    <3>1. CASE s = <<>>
      BY <3>1, <1>6, SeqFacts
    <3>2. CASE s # <<>>
      BY <3>2, <1>1, <1>6, SeqFacts DEF Forward
    <3>3. QED BY <3>1, <3>2
  <2>2. ASSUME NEW n \in 1..Len(t) PROVE f2[t[n]] = IF n = Len(t) THEN NULL ELSE t[n + 1]
    <3>1. CASE n = Len(t)
      <4>1. t[n] = i
        BY <3>1, <1>6
      <4>2. QED BY <4>1, <3>1, <1>2, <1>4, <1>5
    <3>2. CASE n # Len(t)
      <4>1. n \in 1..Len(s) /\ t[n] = s[n] /\ s[n] # i /\ s[n] \in Item
        BY <3>2, <1>6, SeqFacts
      <4>2. f[s[n]] = IF n = Len(s) THEN NULL ELSE s[n + 1]
        BY <4>1, <1>1 DEF Forward
      <4>3. s # <<>>
        BY <4>1, <1>6, SeqFacts
      <4>4. CASE n = Len(s)
        <5>1. s[n] = last /\ t[n + 1] = i
          BY <4>3, <4>4, <1>2, <1>6
        <5>2. QED BY <5>1, <4>1, <3>2, <1>5
      <4>5. CASE n # Len(s)
        <5>1. s[n] # last
          BY <4>1, <4>3, <4>5, <1>2, SeqFacts
        <5>2. t[n + 1] = s[n + 1]
          BY <4>1, <4>5, <1>6
        <5>3. QED BY <5>1, <5>2, <4>1, <4>2, <4>5, <3>2, <1>4, <1>5
      <4>6. QED BY <4>4, <4>5
    <3>3. QED BY <3>1, <3>2
  <2>3. QED BY <2>1, <2>2 DEF Forward
<1>8. Backward(t, p2)
  <2> SUFFICES ASSUME NEW n \in 1..Len(t)
               PROVE p2[t[n]] = IF n = 1 THEN NULL ELSE t[n - 1]
    BY DEF Backward
  <2>1. CASE n = Len(t)
    <3>1. t[n] = i /\ p2[t[n]] = last
      BY <2>1, <1>3, <1>6
    <3>2. CASE s = <<>>
      BY <3>1, <3>2, <2>1, <1>2, <1>6, SeqFacts
    <3>3. CASE s # <<>>
      <4>1. n # 1 /\ t[n - 1] = s[Len(s)]
        BY <3>3, <2>1, <1>6, SeqFacts
      <4>2. QED BY <4>1, <3>1, <3>3, <1>2
    <3>4. QED BY <3>2, <3>3
  <2>2. CASE n # Len(t)
    <3>1. n \in 1..Len(s) /\ t[n] = s[n] /\ s[n] # i /\ s[n] \in Item
      BY <2>2, <1>6, SeqFacts
    <3>2. p2[t[n]] = IF n = 1 THEN NULL ELSE s[n - 1]
      BY <3>1, <1>1, <1>3 DEF Backward
    <3>3. n # 1 => t[n - 1] = s[n - 1]
      BY <3>1, <1>6
    <3>4. QED BY <3>2, <3>3
  <2>3. QED BY <2>1, <2>2
<1>9. Linked(t, top, f2, p2)
  BY <1>6, <1>7, <1>8, LinkedIs
<1>10. /\ f2[i] # JUNK /\ p2[i] # JUNK
       /\ \A j \in Item : (f[j] # JUNK => f2[j] # JUNK) /\ (p[j] # JUNK => p2[j] # JUNK)
  BY <1>0, <1>2, <1>3, <1>4, <1>5
<1>11. QED BY <1>2, <1>3, <1>5, <1>9, <1>10 DEF last, f1, f2, p2, t, top

(* An element taken out of a list wherever it is. *)
(* Item i, at place k of the list s, is taken out of it. *)
TakenOut(s, first, f, p, k, i, f2, p2) ==
  /\ s \in Seq(Item) /\ IsInjective(s) /\ k \in 1..Len(s) /\ i = s[k]
  /\ f \in Links /\ p \in Links /\ Linked(s, first, f, p)
  /\ f2 = [SetIf(f, p[i], f[i]) EXCEPT ![i] = JUNK]
  /\ p2 = [SetIf(p, f[i], p[i]) EXCEPT ![i] = JUNK]

(* HASH_DELETE and HASH_DEL_IN_BKT: the neighbours are linked to each other, and
   no other pair is written to.                                               *)
LEMMA LinkedRemove ==
  ASSUME NEW s, NEW first, NEW f, NEW p, NEW k, NEW i, NEW f2, NEW p2,
         TakenOut(s, first, f, p, k, i, f2, p2)
  PROVE  /\ f2 \in Links /\ p2 \in Links
         /\ f[i] \in Item \cup {NULL} /\ p[i] \in Item \cup {NULL}
         /\ p[i] = NULL <=> k = 1
         /\ f[i] = NULL <=> k = Len(s)
         /\ first = i <=> k = 1
         /\ \A j \in Item \ {i} : /\ f[j] # JUNK => f2[j] # JUNK
                                  /\ p[j] # JUNK => p2[j] # JUNK
         /\ Linked(RemoveAt(s, k), IF k = 1 THEN f[i] ELSE first, f2, p2)
         /\ Apart(f, f2, ToSet(s)) /\ Apart(p, p2, ToSet(s))
<1> DEFINE f1 == SetIf(f, p[i], f[i])
           p1 == SetIf(p, f[i], p[i])
           t == RemoveAt(s, k)
           top == IF k = 1 THEN f[i] ELSE first
<1> s \in Seq(Item) /\ IsInjective(s) /\ k \in 1..Len(s) /\ i = s[k] /\ f \in Links /\ p \in Links
      /\ f2 = [f1 EXCEPT ![i] = JUNK] /\ p2 = [p1 EXCEPT ![i] = JUNK]
  BY DEF TakenOut
<1>0. JUNK \notin Item /\ NULL \notin Item /\ NULL # JUNK
  BY HashAssumption
<1>1. Forward(s, first, f) /\ Backward(s, p)
  BY LinkedIs DEF TakenOut
<1>2. Len(s) \in Nat /\ i \in Item /\ s # <<>> /\ 1 \in 1..Len(s)
  BY SeqFacts
<1>3. f[i] = (IF k = Len(s) THEN NULL ELSE s[k + 1]) /\ p[i] = (IF k = 1 THEN NULL ELSE s[k - 1])
  BY <1>1 DEF Forward, Backward
<1>4. /\ k # Len(s) => k + 1 \in 1..Len(s)
      /\ k # 1 => k - 1 \in 1..Len(s)
  BY <1>2
<1>5. /\ f[i] \in Item \cup {NULL} /\ p[i] \in Item \cup {NULL}
      /\ p[i] = NULL <=> k = 1
      /\ f[i] = NULL <=> k = Len(s)
      /\ p[i] # i /\ f[i] # i
  <2>1. k # Len(s) => s[k + 1] \in Item /\ s[k + 1] # NULL /\ s[k + 1] # i
    BY <1>2, <1>4, SeqFacts
  <2>2. k # 1 => s[k - 1] \in Item /\ s[k - 1] # NULL /\ s[k - 1] # i
    BY <1>2, <1>4, SeqFacts
  <2>3. QED BY <2>1, <2>2, <1>0, <1>2, <1>3
<1>6. first = i <=> k = 1
  <2>1. first = s[1]
    BY <1>1, <1>2 DEF Forward
  <2>2. QED BY <2>1, <1>2, SeqFacts
<1>7. /\ f1 \in Links /\ \A j \in Item : f1[j] = IF j = p[i] THEN f[i] ELSE f[j]
      /\ p1 \in Links /\ \A j \in Item : p1[j] = IF j = f[i] THEN p[i] ELSE p[j]
  <2>1. f[i] \in Item \cup {NULL, JUNK} /\ p[i] \in Item \cup {NULL, JUNK}
    BY <1>5
  <2>2. f1 \in Links /\ \A j \in Item : f1[j] = IF j = p[i] THEN f[i] ELSE f[j]
    BY <2>1, <1>0, <1>5 DEF SetIf, Links
  <2>3. p1 \in Links /\ \A j \in Item : p1[j] = IF j = f[i] THEN p[i] ELSE p[j]
    BY <2>1, <1>0, <1>5 DEF SetIf, Links
  <2>4. QED BY <2>2, <2>3
<1> HIDE DEF f1, p1
<1>8. /\ f2 \in Links /\ \A j \in Item : f2[j] = IF j = i THEN JUNK ELSE f1[j]
      /\ p2 \in Links /\ \A j \in Item : p2[j] = IF j = i THEN JUNK ELSE p1[j]
  <2>1. f2 = [f1 EXCEPT ![i] = JUNK] /\ p2 = [p1 EXCEPT ![i] = JUNK]
    BY DEF f1, p1
  <2>2. QED BY <2>1, <1>7 DEF Links
<1>9. /\ t \in Seq(Item) /\ Len(t) = Len(s) - 1
      /\ \A n \in 1..(Len(s) - 1) : t[n] = IF n < k THEN s[n] ELSE s[n + 1]
  BY ToSetRemoveAt
<1>10. \A m, n \in 1..Len(s) : s[m] = s[n] => m = n
  BY SeqFacts
<1> HIDE DEF t
<1>11. Forward(t, top, f2)
  <2>1. top = IF t = <<>> THEN NULL ELSE t[1]
    <3>1. CASE k = 1
      <4>1. t = <<>> <=> Len(s) = 1
        BY <1>2, <1>9, SeqFacts
      <4>2. Len(s) # 1 => t[1] = s[2]
        BY <3>1, <1>2, <1>9
      <4>3. QED BY <4>1, <4>2, <3>1, <1>3
    <3>2. CASE k # 1
      <4>1. t # <<>> /\ t[1] = s[1]
        BY <3>2, <1>2, <1>9, SeqFacts
      <4>2. QED BY <4>1, <3>2, <1>1, <1>2 DEF Forward
    <3>3. QED BY <3>1, <3>2
  <2>2. ASSUME NEW n \in 1..Len(t) PROVE f2[t[n]] = IF n = Len(t) THEN NULL ELSE t[n + 1]
    <3>1. CASE n < k - 1
      <4>1. /\ n \in 1..Len(s) /\ n # k /\ n # Len(s) /\ n # k - 1 /\ t[n] = s[n] /\ t[n + 1] = s[n + 1]
            /\ k - 1 \in 1..Len(s) /\ n # Len(t)
        BY <3>1, <1>2, <1>9
      <4>2. s[n] # i /\ s[n] # p[i] /\ s[n] \in Item
        BY <4>1, <1>3, <1>10, SeqFacts
      <4>3. f[s[n]] = s[n + 1]
        BY <4>1, <1>1 DEF Forward
      <4>4. QED BY <4>1, <4>2, <4>3, <1>7, <1>8
    <3>2. CASE n = k - 1
      <4>1. /\ n \in 1..Len(s) /\ k # 1 /\ n # k /\ t[n] = s[n] /\ s[n] = p[i] /\ k = n + 1
            /\ n = Len(t) <=> k = Len(s)
            /\ n # Len(t) => t[n + 1] = s[k + 1]
        BY <3>2, <1>2, <1>3, <1>9
      <4>2. s[n] # i /\ s[n] \in Item
        BY <4>1, <1>10, SeqFacts
      <4>3. f2[t[n]] = f[i]
        BY <4>1, <4>2, <1>7, <1>8
      <4>4. QED BY <4>1, <4>3, <1>3
    <3>3. CASE n >= k
      <4>1. /\ n + 1 \in 1..Len(s) /\ n + 1 # k /\ n + 1 # k - 1 /\ t[n] = s[n + 1]
            /\ n = Len(t) <=> n + 1 = Len(s)
            /\ n # Len(t) => t[n + 1] = s[n + 1 + 1]
        BY <3>3, <1>2, <1>9
      <4>2. s[n + 1] # i /\ s[n + 1] # p[i] /\ s[n + 1] \in Item
        <5>1. s[n + 1] # i /\ s[n + 1] \in Item /\ s[n + 1] # NULL
          BY <4>1, <1>10, SeqFacts
        <5>2. k # 1 => s[k - 1] # s[n + 1]
          BY <4>1, <1>4, <1>10
        <5>3. QED BY <5>1, <5>2, <1>3
      <4>3. f[s[n + 1]] = IF n + 1 = Len(s) THEN NULL ELSE s[n + 1 + 1]
        BY <4>1, <1>1 DEF Forward
      <4>4. QED BY <4>1, <4>2, <4>3, <1>7, <1>8
    <3>4. QED BY <3>1, <3>2, <3>3, <1>9, <1>2
  <2>3. QED BY <2>1, <2>2 DEF Forward
<1>12. Backward(t, p2)
  <2> SUFFICES ASSUME NEW n \in 1..Len(t)
               PROVE p2[t[n]] = IF n = 1 THEN NULL ELSE t[n - 1]
    BY DEF Backward
  <2>1. CASE n < k
    <3>1. /\ n \in 1..Len(s) /\ n # k /\ n # k + 1 /\ t[n] = s[n]
          /\ n # 1 => t[n - 1] = s[n - 1]
      BY <2>1, <1>2, <1>9
    <3>2. s[n] # i /\ s[n] # f[i] /\ s[n] \in Item
      <4>1. s[n] # i /\ s[n] \in Item /\ s[n] # NULL
        BY <3>1, <1>10, SeqFacts
      <4>2. k # Len(s) => s[k + 1] # s[n]
        BY <3>1, <1>4, <1>10
      <4>3. QED BY <4>1, <4>2, <1>3
    <3>3. p[s[n]] = IF n = 1 THEN NULL ELSE s[n - 1]
      BY <3>1, <1>1 DEF Backward
    <3>4. QED BY <3>1, <3>2, <3>3, <1>7, <1>8
  <2>2. CASE n = k
    <3>1. /\ n + 1 \in 1..Len(s) /\ k # Len(s) /\ t[n] = s[k + 1] /\ s[k + 1] = f[i]
          /\ n # 1 => t[n - 1] = s[k - 1]
      BY <2>2, <1>2, <1>3, <1>9
    <3>2. f[i] # i /\ f[i] \in Item
      BY <3>1, <1>0, <1>5
    <3>3. p2[t[n]] = p[i]
      BY <3>1, <3>2, <1>7, <1>8
    <3>4. QED BY <3>1, <3>3, <2>2, <1>3
  <2>3. CASE n > k
    <3>1. /\ n + 1 \in 1..Len(s) /\ n + 1 # k /\ n + 1 # k + 1 /\ t[n] = s[n + 1] /\ n # 1
          /\ t[n - 1] = s[n]
      <4>1. n \in Nat /\ Len(t) \in Nat /\ n <= Len(s) - 1 /\ k \in Nat /\ k >= 1
        BY <1>2, <1>9
      <4>2. n - 1 \in 1..(Len(s) - 1) /\ ~(n - 1 < k) /\ n - 1 + 1 = n
        BY <4>1, <2>3, <1>2
      <4>3. t[n - 1] = s[n]
        BY <4>2, <1>9
      <4>4. n \in 1..(Len(s) - 1) /\ ~(n < k)
        BY <4>1, <2>3, <1>2
      <4>5. t[n] = s[n + 1]
        BY <4>4, <1>9
      <4>6. QED BY <4>1, <4>3, <4>5, <2>3, <1>2
    <3>2. s[n + 1] # i /\ s[n + 1] # f[i] /\ s[n + 1] \in Item
      <4>1. s[n + 1] # i /\ s[n + 1] \in Item /\ s[n + 1] # NULL
        BY <3>1, <1>10, SeqFacts
      <4>2. k # Len(s) => s[k + 1] # s[n + 1]
        BY <3>1, <1>4, <1>10
      <4>3. QED BY <4>1, <4>2, <1>3
    <3>3. p[s[n + 1]] = s[n]
      <4>1. n + 1 # 1 /\ n + 1 - 1 = n
        OBVIOUS
      <4>2. QED BY <4>1, <3>1, <1>1 DEF Backward
    <3>4. QED BY <3>1, <3>2, <3>3, <1>7, <1>8
  <2>4. QED BY <2>1, <2>2, <2>3, <1>9, <1>2
<1>13. Linked(t, top, f2, p2)
  BY <1>9, <1>11, <1>12, LinkedIs
<1>14. Apart(f, f2, ToSet(s)) /\ Apart(p, p2, ToSet(s))
  <2>1. ASSUME NEW j \in Item \ ToSet(s) PROVE f2[j] = f[j] /\ p2[j] = p[j]
    <3>1. j # i /\ j # p[i] /\ j # f[i]
      <4>1. /\ i \in ToSet(s)
            /\ k # 1 => s[k - 1] \in ToSet(s)
            /\ k # Len(s) => s[k + 1] \in ToSet(s)
        BY <1>4, SeqFacts
      <4>2. QED BY <4>1, <1>0, <1>3
    <3>2. QED BY <3>1, <1>7, <1>8
  <2>2. QED BY <2>1 DEF Apart
<1>15. ASSUME NEW j \in Item \ {i}
       PROVE (f[j] # JUNK => f2[j] # JUNK) /\ (p[j] # JUNK => p2[j] # JUNK)
  BY <1>0, <1>5, <1>7, <1>8
<1>16. QED BY <1>5, <1>6, <1>8, <1>13, <1>14, <1>15 DEF t, top

(* What is left of a list when its first element has gone elsewhere. *)
LEMMA ForwardTail ==
  ASSUME NEW s \in Seq(Item), NEW first, NEW f, NEW f2, s # <<>>, IsInjective(s),
         Forward(s, first, f), Apart(f, f2, {first})
  PROVE  /\ Tail(s) \in Seq(Item) /\ Len(Tail(s)) = Len(s) - 1
         /\ IsInjective(Tail(s))
         /\ ToSet(Tail(s)) = ToSet(s) \ {first}
         /\ Forward(Tail(s), f[first], f2)
<1> DEFINE t == Tail(s)
<1>1. /\ t \in Seq(Item) /\ Len(t) = Len(s) - 1
      /\ \A n \in 1..(Len(s) - 1) : t[n] = s[n + 1]
  BY SeqFacts
<1>2. Len(s) \in Nat /\ 1 \in 1..Len(s) /\ first = s[1] /\ first \in Item
  BY SeqFacts DEF Forward
<1> HIDE DEF t
<1>3. \A m, n \in 1..Len(s) : s[m] = s[n] => m = n
  BY SeqFacts
<1>4. \A n \in 1..Len(t) : n + 1 \in 1..Len(s) /\ t[n] = s[n + 1] /\ s[n + 1] # first
  BY <1>1, <1>2, <1>3
<1>5. IsInjective(t)
  <2>1. ASSUME NEW m \in 1..Len(t), NEW n \in 1..Len(t), t[m] = t[n] PROVE m = n
    BY <2>1, <1>1, <1>2, <1>3, <1>4
  <2>2. DOMAIN t = 1..Len(t)
    BY <1>1, SeqFacts
  <2>3. QED BY <2>1, <2>2 DEF IsInjective
<1>6. ToSet(t) = ToSet(s) \ {first}
  <2>1. ToSet(t) = {t[n] : n \in 1..Len(t)} /\ ToSet(s) = {s[n] : n \in 1..Len(s)}
    BY <1>1, SeqFacts
  <2>2. ToSet(t) \subseteq ToSet(s) \ {first}
    BY <2>1, <1>4
  <2>3. ASSUME NEW n \in 1..Len(s), s[n] # first PROVE s[n] \in ToSet(t)
    <3>1. n - 1 \in 1..Len(t) /\ n - 1 + 1 = n
      BY <2>3, <1>1, <1>2
    <3>2. t[n - 1] = s[n]
      BY <3>1, <1>4
    <3>3. QED BY <3>1, <3>2, <2>1
  <2>4. QED BY <2>1, <2>2, <2>3
<1>7. Forward(t, f[first], f2)
  <2>1. f[first] = IF t = <<>> THEN NULL ELSE t[1]
    <3>1. f[first] = IF 1 = Len(s) THEN NULL ELSE s[2]
      <4>1. f[s[1]] = IF 1 = Len(s) THEN NULL ELSE s[1 + 1]
        BY <1>2 DEF Forward
      <4>2. QED BY <4>1, <1>2
    <3>2. t = <<>> <=> Len(s) = 1
      <4>1. t = <<>> <=> Len(t) = 0
        BY <1>1, SeqFacts
      <4>2. QED BY <4>1, <1>1, <1>2
    <3>3. Len(s) # 1 => t[1] = s[2]
      BY <1>1, <1>2
    <3>4. QED BY <3>1, <3>2, <3>3
  <2>2. ASSUME NEW n \in 1..Len(t) PROVE f2[t[n]] = IF n = Len(t) THEN NULL ELSE t[n + 1]
    <3>1. f2[t[n]] = f[s[n + 1]]
      BY <1>4, SeqFacts DEF Apart
    <3>2. f[s[n + 1]] = IF n + 1 = Len(s) THEN NULL ELSE s[n + 1 + 1]
      BY <1>4 DEF Forward
    <3>3. (n = Len(t) <=> n + 1 = Len(s)) /\ (n # Len(t) => t[n + 1] = s[n + 1 + 1])
      BY <1>1, <1>2
    <3>4. QED BY <3>1, <3>2, <3>3
  <2>3. QED BY <2>1, <2>2 DEF Forward
<1>8. QED BY <1>1, <1>5, <1>6, <1>7 DEF t

----------------------------------------------------------------------------
(* The inductive invariant. *)

(* The list of all pairs. *)
AppOK ==
  /\ IsInjective(order)
  /\ \A i \in Item : key[i] # NULL <=> i \in ToSet(order)
  /\ tbl = NULL <=> order = <<>>
  /\ Linked(order, head, next, prev)
  /\ tbl # NULL => tbl.tail = order[Len(order)] /\ tbl.num_items = Len(order)

(* Each pair is in the bucket that its hash value leads to. *)
Placed(C, n) ==
  \A b \in 0..(n - 1) : /\ IsInjective(C[b])
                        /\ \A i \in ToSet(C[b]) : key[i] # NULL /\ ToBkt(hashv[i], n) = b

(* Pair i is in the bucket that it would be found in. *)
IsIn(i, C, n) == i \in ToSet(C[ToBkt(hashv[i], n)])

(* Each bucket is a list, and is counted. *)
LinkedBuckets(B, C, n) ==
  \A b \in 0..(n - 1) : /\ Linked(C[b], B[b].hh_head, hh_next, hh_prev)
                        /\ B[b].count = Len(C[b])

(* The lengths of the buckets. *)
Lens(C, n) == [b \in 0..(n - 1) |-> Len(C[b])]

(* What bucket r may take of the bound that all have in common: its expand_mult,
   or as many times Thresh as it has pairs, whichever is more.  The shares sum
   to at most the number of buckets; so when one bucket gets too long there are
   at most 2 * num_buckets * Thresh pairs, and twice as many buckets have an
   ideal length of at most Thresh.                                            *)
Share(r) == IF r.expand_mult > r.count \div Thresh THEN r.expand_mult ELSE r.count \div Thresh
Shares(B, n) == [b \in 0..(n - 1) |-> Share(B[b])]
Bounded(B, n) == \A b \in 0..(n - 1) : B[b].count <= (B[b].expand_mult + 1) * Thresh

(* The buckets, when they are not being doubled. *)
RestOK ==
  tbl # NULL /\ grow = NULL =>
    /\ LinkedBuckets(buckets, chain, tbl.num_buckets)
    /\ Placed(chain, tbl.num_buckets)
    /\ \A i \in Item : key[i] # NULL => IsIn(i, chain, tbl.num_buckets)
    /\ Total(Lens(chain, tbl.num_buckets), tbl.num_buckets) = tbl.num_items
    /\ ~tbl.noexpand =>
         /\ Bounded(buckets, tbl.num_buckets)
         /\ Total(Shares(buckets, tbl.num_buckets), tbl.num_buckets) <= tbl.num_buckets

(* The old buckets while they are being emptied. *)
OldOK(n) ==
  \A b \in 0..(n - 1) :
    /\ b < grow.bkt => chain[b] = <<>>
    /\ b = grow.bkt => Forward(chain[b], grow.thh, hh_next)
    /\ b > grow.bkt => Forward(chain[b], buckets[b].hh_head, hh_next)

(* expand_mult of the buckets that HASH_EXPAND_BUCKETS fills. *)
MultOK(B, n, ideal) ==
  \A b \in 0..(n - 1) :
    B[b].expand_mult = IF B[b].count > ideal THEN B[b].count \div ideal ELSE 0

(* The expansion: each pair is in an old bucket or in a new one, and the new
   buckets are to be no longer than the threshold allows.                     *)
GrowOK ==
  grow # NULL =>
    /\ ~tbl.noexpand
    /\ grow.ideal <= Thresh
    /\ tbl.num_items <= (2 * tbl.num_buckets) * grow.ideal
    /\ OldOK(tbl.num_buckets)
    /\ LinkedBuckets(new_buckets, moved, 2 * tbl.num_buckets)
    /\ MultOK(new_buckets, 2 * tbl.num_buckets, grow.ideal)
    /\ Placed(chain, tbl.num_buckets) /\ Placed(moved, 2 * tbl.num_buckets)
    /\ \A i \in Item : key[i] # NULL =>
         (IsIn(i, chain, tbl.num_buckets) <=> ~IsIn(i, moved, 2 * tbl.num_buckets))
    /\ Total(Lens(chain, tbl.num_buckets), tbl.num_buckets)
         + Total(Lens(moved, 2 * tbl.num_buckets), 2 * tbl.num_buckets) = tbl.num_items

(* The pairs that HASH_FIND went past have other keys. *)
Past(s, k, out) ==
  \E m \in 0..Len(s) : /\ \A j \in 1..m : key[s[j]] # k
                       /\ out = IF m = Len(s) THEN NULL ELSE s[m + 1]

(* HASH_FIND is in the bucket of its key, past pairs with other keys. *)
FindOK ==
  find # NULL =>
    IF tbl = NULL THEN find.out = NULL
    ELSE Past(chain[ToBkt(Hash[find.key], tbl.num_buckets)], find.key, find.out)

(* The inductive invariant. *)
IInv == UtHashTypeOK /\ AppOK /\ RestOK /\ GrowOK /\ FindOK

----------------------------------------------------------------------------
(* Finding. *)

(* What HashAssumption says of the values that stand for pointers. *)
LEMMA Basics ==
  /\ NULL \notin Item /\ JUNK \notin Item /\ NULL # JUNK
  /\ NULL \notin Key /\ JUNK \notin Nat
  /\ NULL \notin Table /\ NULL \notin Search /\ NULL \notin Growth
  /\ \A k \in Key : Hash[k] \in Nat
  /\ \A h \in Nat, n \in Nat \ {0} : ToBkt(h, n) \in 0..(n - 1)
<1>1. \A h \in Nat, n \in Nat \ {0} : h % n \in 0..(n - 1)
  BY DivMod
<1>2. QED BY <1>1, HashAssumption DEF ToBkt

(* What the type says of the table when there is one. *)
LEMMA TableIs ==
  ASSUME UtHashTypeOK, tbl # NULL
  PROVE  /\ tbl \in Table /\ tbl.num_buckets \in Nat \ {0} /\ tbl.num_items \in Nat
         /\ tbl.noexpand \in BOOLEAN /\ tbl.ineff_expands \in Nat /\ tbl.tail \in Item
         /\ tbl.num_buckets - 1 \in Nat
         /\ \A b \in 0..(tbl.num_buckets - 1) :
              /\ buckets[b] \in Bucket /\ buckets[b].hh_head \in Item \cup {NULL}
              /\ buckets[b].count \in Nat /\ buckets[b].expand_mult \in Nat
              /\ chain[b] \in Seq(Item)
         /\ \A i \in Item : key[i] # NULL =>
              /\ hashv[i] \in Nat /\ ToBkt(hashv[i], tbl.num_buckets) \in 0..(tbl.num_buckets - 1)
<1>1. /\ tbl \in Table
      /\ buckets \in [0..(tbl.num_buckets - 1) -> Bucket]
      /\ chain \in [0..(tbl.num_buckets - 1) -> Seq(Item)]
  BY DEF UtHashTypeOK
<1>2. /\ tbl.num_buckets \in Nat \ {0} /\ tbl.num_items \in Nat
      /\ tbl.noexpand \in BOOLEAN /\ tbl.ineff_expands \in Nat /\ tbl.tail \in Item
  BY <1>1 DEF Table
<1>3. \A b \in 0..(tbl.num_buckets - 1) : buckets[b] \in Bucket /\ chain[b] \in Seq(Item)
  BY <1>1
<1>4. \A r \in Bucket : r.hh_head \in Item \cup {NULL} /\ r.count \in Nat /\ r.expand_mult \in Nat
  BY DEF Bucket
<1>5. \A i \in Item : key[i] # NULL => hashv[i] \in Nat
  BY Basics DEF UtHashTypeOK
<1>6. tbl.num_buckets - 1 \in Nat
  BY <1>2
<1>7. QED BY <1>1, <1>2, <1>3, <1>4, <1>5, <1>6, Basics

(* HASH_FIND starts in the right bucket, *)
LEMMA FindBeginInv ==
  ASSUME IInv, NEW k \in Key, FindBegin(k)
  PROVE  IInv'
<1> DEFINE b == ToBkt(Hash[k], tbl.num_buckets)
<1> USE DEF IInv
<1>1. /\ find' = [key |-> k, out |-> IF head = NULL THEN NULL ELSE buckets[b].hh_head]
      /\ grow = NULL /\ ~dying
      /\ UNCHANGED <<head, tbl, buckets, prev, next, hh_prev, hh_next, hashv, key, order, chain>>
      /\ UNCHANGED <<dying, grow, new_buckets, moved>>
  BY DEF FindBegin, Idle, mem, handles, expansion
<1>2. /\ find'.out \in Item \cup {NULL}
      /\ tbl = NULL => find'.out = NULL
      /\ tbl # NULL => Past(chain[b], k, find'.out)
  <2>1. CASE tbl = NULL
    BY <2>1, <1>1 DEF UtHashTypeOK
  <2>2. CASE tbl # NULL
    <3>1. tbl.num_buckets \in Nat \ {0} /\ b \in 0..(tbl.num_buckets - 1)
      BY <2>2, TableIs, Basics
    <3>2. chain[b] \in Seq(Item) /\ buckets[b].hh_head \in Item \cup {NULL}
      BY <2>2, <3>1, TableIs
    <3>3. Linked(chain[b], buckets[b].hh_head, hh_next, hh_prev)
      BY <2>2, <3>1, <1>1 DEF RestOK, LinkedBuckets
    <3>4. Forward(chain[b], buckets[b].hh_head, hh_next)
      BY <3>2, <3>3, LinkedIs
    <3>5. find'.out = buckets[b].hh_head
      BY <2>2, <1>1 DEF UtHashTypeOK
    <3>6. Past(chain[b], k, find'.out)
      <4>1. Len(chain[b]) \in Nat /\ (chain[b] = <<>> <=> Len(chain[b]) = 0)
        BY <3>2, SeqFacts
      <4>2. find'.out = IF 0 = Len(chain[b]) THEN NULL ELSE chain[b][0 + 1]
        BY <4>1, <3>4, <3>5 DEF Forward
      <4>3. 0 \in 0..Len(chain[b]) /\ 1..0 = {}
        BY <4>1
      <4>4. QED BY <4>2, <4>3 DEF Past
    <3>7. QED BY <3>2, <3>5, <3>6, <2>2
  <2>3. QED BY <2>1, <2>2
<1>3. find' \in Search
  BY <1>1, <1>2 DEF Search
<1>4. UtHashTypeOK'
  BY <1>1, <1>3 DEF UtHashTypeOK
<1>5. AppOK'
  BY <1>1 DEF AppOK, Linked
<1>6. RestOK'
  BY <1>1 DEF RestOK, LinkedBuckets, Placed, IsIn, Bounded
<1>7. GrowOK'
  BY <1>1 DEF GrowOK
<1>8. FindOK'
  <2>1. find'.key = k
    BY <1>1
  <2>2. QED BY <1>1, <1>2, <2>1 DEF FindOK, Past
<1>9. QED BY <1>4, <1>5, <1>6, <1>7, <1>8

(* and stays in it. *)
LEMMA FindNextInv ==
  ASSUME IInv, FindNext
  PROVE  IInv'
<1> DEFINE k == find.key
           b == ToBkt(Hash[k], tbl.num_buckets)
           s == chain[b]
<1> USE DEF IInv
<1>1. /\ find # NULL /\ find.out # NULL /\ key[find.out] # k
      /\ find' = [find EXCEPT !.out = hh_next[@]]
      /\ UNCHANGED <<head, tbl, buckets, prev, next, hh_prev, hh_next, hashv, key, order, chain>>
      /\ UNCHANGED <<dying, grow, new_buckets, moved>>
  BY DEF FindNext, mem, handles, expansion
<1>2. find \in Search /\ find.key \in Key /\ find.out \in Item /\ grow = NULL /\ ~dying /\ tbl # NULL
  BY <1>1 DEF UtHashTypeOK, Search, FindOK
<1>3. find'.key = k /\ find'.out = hh_next[find.out]
  BY <1>1, <1>2 DEF Search
<1>4. s \in Seq(Item) /\ Forward(s, buckets[b].hh_head, hh_next)
  <2>1. tbl.num_buckets \in Nat \ {0} /\ b \in 0..(tbl.num_buckets - 1)
    BY <1>2, TableIs, Basics
  <2>2. chain[b] \in Seq(Item)
    BY <1>2, <2>1, TableIs
  <2>3. Linked(chain[b], buckets[b].hh_head, hh_next, hh_prev)
    BY <1>2, <2>1 DEF RestOK, LinkedBuckets
  <2>4. QED BY <2>2, <2>3, LinkedIs
<1>5. PICK m \in 0..Len(s) : /\ \A j \in 1..m : key[s[j]] # k
                             /\ find.out = IF m = Len(s) THEN NULL ELSE s[m + 1]
  BY <1>1, <1>2 DEF FindOK, Past
<1> HIDE DEF s
<1>6. Len(s) \in Nat /\ m + 1 \in 1..Len(s) /\ find.out = s[m + 1]
  BY <1>1, <1>4, <1>5, SeqFacts
<1>7. find'.out = IF m + 1 = Len(s) THEN NULL ELSE s[m + 1 + 1]
  BY <1>3, <1>4, <1>6 DEF Forward
<1>8. Past(s, k, find'.out)
  <2>1. m + 1 \in 0..Len(s)
    BY <1>6
  <2>2. \A j \in 1..(m + 1) : key[s[j]] # k
    BY <1>1, <1>5, <1>6
  <2>3. QED BY <2>1, <2>2, <1>7 DEF Past
<1>9. find' \in Search
  <2>1. find'.out \in Item \cup {NULL}
    BY <1>4, <1>6, <1>7, SeqFacts
  <2>2. find' = [key |-> k, out |-> find'.out]
    BY <1>1, <1>2, <1>3 DEF Search
  <2>3. QED BY <2>1, <2>2, <1>2 DEF Search
<1>10. UtHashTypeOK'
  BY <1>1, <1>2, <1>9 DEF UtHashTypeOK
<1>11. AppOK'
  BY <1>1 DEF AppOK, Linked
<1>12. RestOK'
  BY <1>1 DEF RestOK, LinkedBuckets, Placed, IsIn, Bounded
<1>13. GrowOK'
  BY <1>1, <1>2 DEF GrowOK
<1>14. FindOK'
  BY <1>1, <1>2, <1>3, <1>8 DEF FindOK, Past, s
<1>15. QED BY <1>10, <1>11, <1>12, <1>13, <1>14

(* A step that neither moves a pair nor looks for one. *)
LEMMA QuietInv ==
  ASSUME IInv,
         UNCHANGED <<head, tbl, buckets, prev, next, hh_prev, hh_next, hashv, key, order, chain>>,
         UNCHANGED <<grow, new_buckets, moved>>,
         find' = NULL, dying' \in BOOLEAN, grow # NULL => ~dying'
  PROVE  IInv'
<1> USE DEF IInv
<1>1. UtHashTypeOK'
  BY DEF UtHashTypeOK
<1>2. AppOK'
  BY DEF AppOK, Linked
<1>3. RestOK'
  BY DEF RestOK, LinkedBuckets, Placed, IsIn, Bounded
<1>4. GrowOK'
  BY DEF GrowOK, OldOK, LinkedBuckets, MultOK, Placed, IsIn
<1>5. FindOK'
  BY DEF FindOK
<1>6. QED BY <1>1, <1>2, <1>3, <1>4, <1>5

----------------------------------------------------------------------------
(* Expansion. *)

(* What the type says of an expansion at work. *)
LEMMA GrowthIs ==
  ASSUME UtHashTypeOK, grow # NULL
  PROVE  /\ tbl # NULL /\ find = NULL /\ ~dying
         /\ grow \in Growth /\ grow.bkt \in Nat /\ grow.thh \in Item \cup {NULL}
         /\ grow.nonideal \in Nat /\ grow.ideal \in Nat \ {0}
         /\ grow.bkt \in 0..(tbl.num_buckets - 1)
         /\ 2 * tbl.num_buckets \in Nat \ {0}
         /\ new_buckets \in [0..(2 * tbl.num_buckets - 1) -> Bucket]
         /\ moved \in [0..(2 * tbl.num_buckets - 1) -> Seq(Item)]
         /\ \A b \in 0..(2 * tbl.num_buckets - 1) :
              /\ new_buckets[b].hh_head \in Item \cup {NULL}
              /\ new_buckets[b].count \in Nat /\ new_buckets[b].expand_mult \in Nat
              /\ moved[b] \in Seq(Item)
<1>1. /\ tbl # NULL /\ find = NULL /\ ~dying
      /\ grow \in Growth /\ grow.bkt < tbl.num_buckets
      /\ new_buckets \in [0..(2 * tbl.num_buckets - 1) -> Bucket]
      /\ moved \in [0..(2 * tbl.num_buckets - 1) -> Seq(Item)]
  BY DEF UtHashTypeOK
<1>2. /\ grow.bkt \in Nat /\ grow.thh \in Item \cup {NULL}
      /\ grow.nonideal \in Nat /\ grow.ideal \in Nat \ {0}
  BY <1>1 DEF Growth
<1>3. tbl.num_buckets \in Nat \ {0}
  BY <1>1, TableIs
<1>4. \A r \in Bucket : r.hh_head \in Item \cup {NULL} /\ r.count \in Nat /\ r.expand_mult \in Nat
  BY DEF Bucket
<1>5. grow.bkt \in 0..(tbl.num_buckets - 1) /\ 2 * tbl.num_buckets \in Nat \ {0}
  BY <1>1, <1>2, <1>3
<1>6. QED BY <1>1, <1>2, <1>4, <1>5

(* The next bucket is emptied when the one before it is. *)
LEMMA ExpandBucketInv ==
  ASSUME IInv, ExpandBucket
  PROVE  IInv'
<1> USE DEF IInv
<1>1. /\ grow # NULL /\ grow.thh = NULL /\ grow.bkt + 1 < tbl.num_buckets
      /\ grow' = [grow EXCEPT !.bkt = @ + 1, !.thh = buckets[grow.bkt + 1].hh_head]
      /\ UNCHANGED <<head, tbl, buckets, prev, next, hh_prev, hh_next, hashv, key, order, chain>>
      /\ UNCHANGED <<find, dying, new_buckets, moved>>
  BY DEF ExpandBucket, mem, handles
<1>2. /\ tbl # NULL /\ find = NULL /\ ~dying /\ grow \in Growth
      /\ grow.bkt \in 0..(tbl.num_buckets - 1) /\ grow.ideal \in Nat \ {0}
      /\ tbl.num_buckets \in Nat \ {0}
  BY <1>1, GrowthIs, TableIs
<1>3. grow.bkt + 1 \in 0..(tbl.num_buckets - 1) /\ buckets[grow.bkt + 1].hh_head \in Item \cup {NULL}
  <2>1. grow.bkt + 1 \in 0..(tbl.num_buckets - 1)
    BY <1>1, <1>2
  <2>2. QED BY <2>1, <1>2, TableIs
<1>4. /\ grow' \in Growth /\ grow'.bkt = grow.bkt + 1 /\ grow'.ideal = grow.ideal
      /\ grow'.thh = buckets[grow.bkt + 1].hh_head
      /\ grow'.bkt < tbl.num_buckets
  <2> DEFINE x == grow.bkt + 1
             y == buckets[x].hh_head
  <2>1. x \in Nat /\ y \in Item \cup {NULL} /\ x < tbl.num_buckets
    BY <1>1, <1>3
  <2>2. grow' = [grow EXCEPT !.bkt = x, !.thh = y]
    BY <1>1
  <2> HIDE DEF x, y
  <2>3. grow' \in Growth /\ grow'.bkt = x /\ grow'.thh = y /\ grow'.ideal = grow.ideal
    BY <1>2, <2>1, <2>2 DEF Growth
  <2>4. QED BY <2>1, <2>3 DEF x, y
<1>5. UtHashTypeOK'
  BY <1>1, <1>2, <1>4 DEF UtHashTypeOK
<1>6. AppOK'
  BY <1>1 DEF AppOK, Linked
<1>7. RestOK'
  <2>1. grow' # NULL
    BY <1>4, Basics
  <2>2. QED BY <2>1 DEF RestOK
<1>8. OldOK(tbl.num_buckets)'
  <2>1. OldOK(tbl.num_buckets)
    BY <1>1 DEF GrowOK
  <2>2. chain[grow.bkt] = <<>>
    <3>1. chain[grow.bkt] \in Seq(Item) /\ Forward(chain[grow.bkt], grow.thh, hh_next)
      BY <2>1, <1>2, TableIs DEF OldOK
    <3>2. QED BY <3>1, <1>1, FirstIs
  <2>3. ASSUME NEW b \in 0..(tbl.num_buckets - 1)
        PROVE  /\ b < grow.bkt + 1 => chain[b] = <<>>
               /\ b = grow.bkt + 1 => Forward(chain[b], buckets[grow.bkt + 1].hh_head, hh_next)
               /\ b > grow.bkt + 1 => Forward(chain[b], buckets[b].hh_head, hh_next)
    <3>1. /\ b < grow.bkt + 1 => b < grow.bkt \/ b = grow.bkt
          /\ b >= grow.bkt + 1 => b > grow.bkt
          /\ b > grow.bkt + 1 => b > grow.bkt
      BY <1>2
    <3>2. /\ b < grow.bkt => chain[b] = <<>>
          /\ b > grow.bkt => Forward(chain[b], buckets[b].hh_head, hh_next)
      BY <2>1 DEF OldOK
    <3>3. b = grow.bkt + 1 => b > grow.bkt
      BY <1>2
    <3>4. QED BY <3>1, <3>2, <3>3, <2>2
  <2>4. QED BY <2>3, <1>1, <1>4 DEF OldOK, Forward
<1>9. GrowOK'
  BY <1>1, <1>4, <1>8 DEF GrowOK, LinkedBuckets, MultOK, Placed, IsIn
<1>10. FindOK'
  BY <1>1, <1>2 DEF FindOK
<1>11. QED BY <1>5, <1>6, <1>7, <1>9, <1>10

(* Arithmetic of the next lemma: a multiple of the lesser factor is not more, *)
LEMMA Chain ==
  ASSUME NEW a \in Nat, NEW b \in Nat, NEW c \in Nat, NEW d \in Nat, NEW e \in Nat, NEW x \in Nat,
         x <= a, a <= b, b <= c, x = e + d, c < e + d
  PROVE  FALSE
OBVIOUS

(* and dividing by the greater number does not give more. *)
LEMMA QuotientLe ==
  ASSUME NEW c \in Nat, NEW d \in Nat \ {0}, NEW t \in Nat, NEW q \in Nat, NEW w \in Nat,
         d <= t, t * w <= c, c < d * q + d
  PROVE  w <= q
<1> SUFFICES ASSUME q < w PROVE FALSE
  OBVIOUS
<1>1. d * (q + 1) <= d * w
  OBVIOUS
<1>2. d * w <= t * w
  OBVIOUS
<1>3. d * (q + 1) = d * q + d
  OBVIOUS
<1>4. d * (q + 1) \in Nat /\ d * w \in Nat /\ t * w \in Nat /\ d * q \in Nat
  OBVIOUS
<1> DEFINE x == d * (q + 1)
           a == d * w
           b == t * w
           e == d * q
<1>5. /\ x \in Nat /\ a \in Nat /\ b \in Nat /\ e \in Nat
      /\ x <= a /\ a <= b /\ b <= c /\ x = e + d /\ c < e + d
  BY <1>1, <1>2, <1>3, <1>4
<1> HIDE DEF x, a, b, e
<1>6. QED BY <1>5, Chain

(* The new buckets are no worse than the threshold allows. *)
LEMMA NewBounds ==
  ASSUME NEW B, NEW C, NEW n \in Nat \ {0}, NEW ideal \in Nat \ {0}, NEW items \in Nat,
         \A b \in 0..(n - 1) : B[b].count \in Nat /\ B[b].expand_mult \in Nat /\ B[b].count = Len(C[b]),
         MultOK(B, n, ideal), ideal <= Thresh, items <= n * ideal, Total(Lens(C, n), n) = items
  PROVE  Bounded(B, n) /\ Total(Shares(B, n), n) <= n
<1> DEFINE quot == [b \in 0..(n - 1) |-> B[b].count \div ideal]
           lens == Lens(C, n)
           shares == Shares(B, n)
<1>0. Thresh \in Nat \ {0}
  BY HashAssumption
<1>1. ASSUME NEW b \in 0..(n - 1)
      PROVE  /\ B[b].count <= (B[b].expand_mult + 1) * Thresh
             /\ quot[b] \in Nat /\ quot[b] * ideal <= lens[b] /\ lens[b] \in Nat
             /\ shares[b] \in Nat /\ shares[b] * 1 <= quot[b]
  <2> DEFINE c == B[b].count
             q == c \div ideal
             m == B[b].expand_mult
             w == c \div Thresh
  <2>1. c \in Nat /\ m \in Nat
    OBVIOUS
  <2>2. m = IF c > ideal THEN q ELSE 0
    BY DEF MultOK
  <2>3. q \in Nat /\ ideal * q <= c /\ c < ideal * q + ideal
    BY <2>1, DivMod
  <2>4. w \in Nat /\ Thresh * w <= c
    BY <2>1, <1>0, DivMod
  <2>5. quot[b] = q /\ lens[b] = c
    BY DEF Lens
  <2>6. shares[b] = IF m > w THEN m ELSE w
    BY DEF Shares, Share
  <2> HIDE DEF c, q, m, w, quot, lens, shares
  <2>7. c <= (m + 1) * Thresh
    <3>1. CASE c > ideal
      <4>1. m = q
        BY <3>1, <2>2
      <4>2. ideal * q <= Thresh * q
        BY <1>0, <2>3
      <4>3. (q + 1) * Thresh = Thresh * q + Thresh
        BY <1>0, <2>3
      <4>4. ideal * q \in Nat /\ Thresh * q \in Nat
        BY <1>0, <2>3
      <4>5. c <= Thresh * q + Thresh
        BY <4>2, <4>4, <1>0, <2>1, <2>3
      <4>6. QED BY <4>1, <4>3, <4>5
    <3>2. CASE ~(c > ideal)
      <4>1. m = 0 /\ c <= Thresh
        BY <3>2, <2>1, <2>2, <1>0
      <4>2. (0 + 1) * Thresh = Thresh
        BY <1>0
      <4>3. QED BY <4>1, <4>2
    <3>3. QED BY <3>1, <3>2
  <2>8. w <= q
    <3>1. QED BY <1>0, <2>1, <2>3, <2>4, QuotientLe
  <2>9. m <= q
    BY <2>2, <2>3
  <2>10. quot[b] * ideal <= lens[b]
    BY <2>3, <2>5
  <2>11. shares[b] \in Nat /\ shares[b] * 1 <= quot[b]
    <3>1. \A x \in Nat : x * 1 = x
      OBVIOUS
    <3>2. shares[b] \in Nat /\ shares[b] <= q
      BY <2>1, <2>4, <2>6, <2>8, <2>9
    <3>3. QED BY <3>1, <3>2, <2>5
  <2>12. QED BY <2>1, <2>3, <2>5, <2>7, <2>10, <2>11 DEF c, m
<1> HIDE DEF quot, lens, shares
<1>2. Bounded(B, n)
  BY <1>1 DEF Bounded
<1>3. Counts(quot, n) /\ Counts(lens, n) /\ Counts(shares, n)
  BY <1>1 DEF Counts
<1>4. Total(quot, n) * ideal <= Total(lens, n)
  BY <1>1, <1>3, TotalLe
<1>5. Total(shares, n) * 1 <= Total(quot, n)
  BY <1>1, <1>3, TotalLe
<1>6. Total(quot, n) \in Nat /\ Total(shares, n) \in Nat
  BY <1>3, TotalStep
<1>7. Total(lens, n) = items
  BY DEF lens
<1>8. ideal * Total(quot, n) <= ideal * n
  BY <1>4, <1>6, <1>7
<1>9. Total(quot, n) <= n
  BY <1>6, <1>8, Cancel
<1>10. Total(shares, n) <= n
  BY <1>5, <1>6, <1>9
<1>11. QED BY <1>2, <1>10 DEF shares

(* HASH_EXPAND_BUCKETS ends: all pairs are in the new buckets, whose shares sum
   to at most their number.                                                   *)
LEMMA ExpandEndInv ==
  ASSUME IInv, ExpandEnd
  PROVE  IInv'
<1> USE DEF IInv
<1> DEFINE n == tbl.num_buckets
           m == 2 * n
<1>1. /\ grow # NULL /\ grow.thh = NULL /\ grow.bkt + 1 = n
      /\ buckets' = new_buckets /\ chain' = moved
      /\ grow' = NULL /\ new_buckets' = <<>> /\ moved' = <<>>
      /\ UNCHANGED <<head, prev, next, hh_prev, hh_next, hashv, key, order, find, dying>>
  BY DEF ExpandEnd, handles
<1>2. /\ tbl # NULL /\ find = NULL /\ ~dying /\ grow \in Growth
      /\ grow.bkt \in 0..(n - 1) /\ grow.ideal \in Nat \ {0} /\ m \in Nat \ {0}
      /\ n \in Nat \ {0} /\ tbl \in Table /\ tbl.num_items \in Nat
      /\ new_buckets \in [0..(m - 1) -> Bucket] /\ moved \in [0..(m - 1) -> Seq(Item)]
  BY <1>1, GrowthIs, TableIs
<1>3. /\ tbl' \in Table /\ tbl'.num_buckets = m
      /\ tbl'.num_items = tbl.num_items /\ tbl'.tail = tbl.tail
  <2> DEFINE ineff == IF grow.nonideal > tbl.num_items \div 2 THEN tbl.ineff_expands + 1 ELSE 0
             more == tbl.noexpand \/ ineff > 1
  <2>1. ineff \in Nat /\ more \in BOOLEAN
    BY <1>2, TableIs
  <2>2. tbl' = [tbl EXCEPT !.num_buckets = m, !.ineff_expands = ineff, !.noexpand = more]
    BY <1>2 DEF ExpandEnd, Table
  <2> HIDE DEF ineff, more, m
  <2>3. QED BY <1>2, <2>1, <2>2 DEF Table
<1> HIDE DEF m
<1>4. /\ tbl.num_items <= m * grow.ideal /\ grow.ideal <= Thresh
      /\ OldOK(n)
      /\ LinkedBuckets(new_buckets, moved, m)
      /\ MultOK(new_buckets, m, grow.ideal)
      /\ Placed(moved, m)
      /\ \A i \in Item : key[i] # NULL => (IsIn(i, chain, n) <=> ~IsIn(i, moved, m))
      /\ Total(Lens(chain, n), n) + Total(Lens(moved, m), m) = tbl.num_items
  BY <1>1 DEF GrowOK, m
<1>5. ASSUME NEW b \in 0..(n - 1) PROVE chain[b] = <<>>
  <2>1. b < grow.bkt \/ b = grow.bkt
    BY <1>1, <1>2
  <2>2. CASE b = grow.bkt
    <3>1. chain[b] \in Seq(Item) /\ Forward(chain[b], grow.thh, hh_next)
      BY <2>2, <1>2, <1>4, TableIs DEF OldOK
    <3>2. QED BY <3>1, <1>1, FirstIs
  <2>3. QED BY <2>1, <2>2, <1>4 DEF OldOK
<1>6. Total(Lens(moved, m), m) = tbl.num_items
  <2>1. \A b \in 0..(n - 1) : Lens(chain, n)[b] = 0
    BY <1>5 DEF Lens
  <2>2. Total(Lens(chain, n), n) = 0
    BY <1>2, <2>1, TotalZero
  <2>3. Counts(Lens(moved, m), m)
    <3>1. \A b \in 0..(m - 1) : Len(moved[b]) \in Nat
      BY <1>2, SeqFacts
    <3>2. QED BY <3>1 DEF Counts, Lens
  <2>4. Total(Lens(moved, m), m) \in Nat
    BY <1>2, <2>3, TotalStep
  <2>5. QED BY <2>2, <2>4, <1>2, <1>4
<1>7. ASSUME NEW i \in Item, key[i] # NULL PROVE IsIn(i, moved, m)
  <2>1. ToBkt(hashv[i], n) \in 0..(n - 1)
    BY <1>2, <1>7, TableIs
  <2>2. chain[ToBkt(hashv[i], n)] = <<>>
    BY <2>1, <1>5
  <2>3. ~IsIn(i, chain, n)
    BY <2>2 DEF IsIn, ToSet
  <2>4. QED BY <2>3, <1>4, <1>7
<1>8. Bounded(new_buckets, m) /\ Total(Shares(new_buckets, m), m) <= m
  <2>1. \A b \in 0..(m - 1) : /\ new_buckets[b].count \in Nat /\ new_buckets[b].expand_mult \in Nat
                              /\ new_buckets[b].count = Len(moved[b])
    BY <1>1, <1>4, GrowthIs DEF LinkedBuckets, m
  <2>2. QED BY <2>1, <1>2, <1>4, <1>6, NewBounds
<1>9. UtHashTypeOK'
  <2>1. tbl' # NULL
    BY <1>3, Basics
  <2>2. QED BY <1>1, <1>2, <1>3, <2>1 DEF UtHashTypeOK
<1>10. AppOK'
  <2>1. tbl' # NULL
    BY <1>3, Basics
  <2>2. QED BY <1>1, <1>2, <1>3, <2>1 DEF AppOK, Linked
<1>11. RestOK'
  <2>1. LinkedBuckets(buckets, chain, tbl.num_buckets)'
    BY <1>1, <1>3, <1>4 DEF LinkedBuckets, Linked
  <2>2. Placed(chain, tbl.num_buckets)'
    BY <1>1, <1>3, <1>4 DEF Placed
  <2>3. \A i \in Item : key'[i] # NULL => IsIn(i, chain, tbl.num_buckets)'
    BY <1>1, <1>3, <1>7 DEF IsIn
  <2>4. (Total(Lens(chain, tbl.num_buckets), tbl.num_buckets) = tbl.num_items)'
    BY <1>1, <1>3, <1>6
  <2>5. (/\ Bounded(buckets, tbl.num_buckets)
         /\ Total(Shares(buckets, tbl.num_buckets), tbl.num_buckets) <= tbl.num_buckets)'
    BY <1>1, <1>3, <1>8 DEF Bounded
  <2>6. QED BY <2>1, <2>2, <2>3, <2>4, <2>5 DEF RestOK
<1>12. GrowOK'
  BY <1>1 DEF GrowOK
<1>13. FindOK'
  BY <1>1, <1>2 DEF FindOK
<1>14. QED BY <1>9, <1>10, <1>11, <1>12, <1>13

(* Two buckets have no pair in common. *)
LEMMA PlacedApart ==
  ASSUME NEW C, NEW n, Placed(C, n), NEW b \in 0..(n - 1), NEW c \in 0..(n - 1), b # c
  PROVE  ToSet(C[b]) \cap ToSet(C[c]) = {}
BY DEF Placed

(* Two sequences agree when one is the other with one more in one place. *)
LEMMA LensMore ==
  ASSUME NEW C, NEW D, NEW n \in Nat, NEW c \in 0..(n - 1),
         \A b \in 0..(n - 1) : C[b] \in Seq(Item),
         Len(D[c]) = Len(C[c]) + 1, \A b \in 0..(n - 1) : b # c => D[b] = C[b]
  PROVE  /\ Total(Lens(C, n), n) \in Nat
         /\ Total(Lens(D, n), n) = Total(Lens(C, n), n) + 1
<1> DEFINE f == Lens(C, n)
           g == Lens(D, n)
<1>1. \A b \in 0..(n - 1) : f[b] = Len(C[b]) /\ g[b] = Len(D[b]) /\ f[b] \in Nat
  BY SeqFacts DEF Lens
<1> HIDE DEF f, g
<1>2. Counts(f, n) /\ g[c] = f[c] + 1 /\ \A b \in 0..(n - 1) : b # c => g[b] = f[b]
  BY <1>1 DEF Counts
<1>3. Total(f, n) \in Nat /\ Total(g, n) = Total(f, n) + 1
  BY <1>2, TotalStep, TotalMore
<1>4. QED BY <1>3 DEF f, g

(* A pair goes from its old bucket to its new one. *)
LEMMA ExpandPairInv ==
  ASSUME IInv, ExpandPair
  PROVE  IInv'
<1> USE DEF IInv
<1> DEFINE n == tbl.num_buckets
           m == 2 * n
           i == grow.thh
           o == grow.bkt
           c == ToBkt(hashv[i], m)
           top == new_buckets[c].hh_head
           count == new_buckets[c].count + 1
           r == [hh_head |-> i, count |-> count,
                 expand_mult |-> IF count > grow.ideal THEN count \div grow.ideal
                                 ELSE new_buckets[c].expand_mult]
<1>1. /\ grow # NULL /\ i # NULL
      /\ hh_prev' = SetIf([hh_prev EXCEPT ![i] = NULL], top, i)
      /\ hh_next' = [hh_next EXCEPT ![i] = top]
      /\ grow' = [grow EXCEPT !.thh = hh_next[i],
                              !.nonideal = IF count > grow.ideal THEN @ + 1 ELSE @]
      /\ new_buckets' = [new_buckets EXCEPT ![c] = r]
      /\ moved' = [moved EXCEPT ![c] = <<i>> \o @]
      /\ chain' = [chain EXCEPT ![o] = Tail(@)]
      /\ UNCHANGED <<head, tbl, buckets, prev, next, hashv, key, order, find, dying>>
  BY DEF ExpandPair, IntoNewBkt
<1>2. /\ tbl # NULL /\ find = NULL /\ ~dying /\ grow \in Growth
      /\ o \in 0..(n - 1) /\ grow.ideal \in Nat \ {0} /\ grow.nonideal \in Nat /\ m \in Nat \ {0}
      /\ n \in Nat \ {0} /\ tbl.num_items \in Nat /\ i \in Item
      /\ new_buckets \in [0..(m - 1) -> Bucket] /\ moved \in [0..(m - 1) -> Seq(Item)]
      /\ chain \in [0..(n - 1) -> Seq(Item)]
      /\ hh_prev \in Links /\ hh_next \in Links
  BY <1>1, GrowthIs, TableIs DEF UtHashTypeOK, Links
<1> HIDE DEF m
<1>3. /\ ~tbl.noexpand /\ tbl.num_items <= m * grow.ideal /\ grow.ideal <= Thresh
      /\ OldOK(n)
      /\ LinkedBuckets(new_buckets, moved, m)
      /\ MultOK(new_buckets, m, grow.ideal)
      /\ Placed(chain, n) /\ Placed(moved, m)
      /\ \A j \in Item : key[j] # NULL => (IsIn(j, chain, n) <=> ~IsIn(j, moved, m))
      /\ Total(Lens(chain, n), n) + Total(Lens(moved, m), m) = tbl.num_items
  BY <1>1 DEF GrowOK, m
<1>4. /\ chain[o] \in Seq(Item) /\ Forward(chain[o], i, hh_next) /\ IsInjective(chain[o])
      /\ chain[o] # <<>> /\ i \in ToSet(chain[o])
  <2>1. chain[o] \in Seq(Item) /\ Forward(chain[o], i, hh_next) /\ IsInjective(chain[o])
    BY <1>2, <1>3 DEF OldOK, Placed
  <2>2. QED BY <2>1, <1>1, FirstIs
<1>5. key[i] # NULL /\ hashv[i] \in Nat /\ c \in 0..(m - 1) /\ ToBkt(hashv[i], n) = o
  <2>1. key[i] # NULL /\ ToBkt(hashv[i], n) = o
    BY <1>2, <1>3, <1>4 DEF Placed
  <2>2. hashv[i] \in Nat
    BY <2>1, <1>2, TableIs
  <2>3. QED BY <2>1, <2>2, <1>2, Basics
<1>6. \A b \in 0..(m - 1) : i \notin ToSet(moved[b])
  <2>1. ~IsIn(i, moved, m)
    BY <1>2, <1>3, <1>4, <1>5 DEF IsIn
  <2>2. QED BY <2>1, <1>3 DEF IsIn, Placed
<1>7. \A b \in 0..(n - 1) : b # o => i \notin ToSet(chain[b])
  BY <1>3, <1>5 DEF Placed
<1>8. /\ moved[c] \in Seq(Item) /\ IsInjective(moved[c])
      /\ Linked(moved[c], top, hh_next, hh_prev)
      /\ new_buckets[c].count = Len(moved[c]) /\ new_buckets[c].expand_mult \in Nat
      /\ new_buckets[c].count \in Nat
  BY <1>1, <1>2, <1>3, <1>5, GrowthIs DEF LinkedBuckets, Placed, m
<1> HIDE DEF i, o, c
<1>9. /\ hh_next' \in Links /\ hh_prev' \in Links
      /\ \A j \in Item : /\ hh_next[j] # JUNK => hh_next'[j] # JUNK
                         /\ hh_prev[j] # JUNK => hh_prev'[j] # JUNK
      /\ Linked(<<i>> \o moved[c], i, hh_next', hh_prev')
      /\ Apart(hh_next, hh_next', {i}) /\ Apart(hh_prev, hh_prev', {i} \cup ToSet(moved[c]))
  <2>1. i \in Item \ ToSet(moved[c])
    BY <1>2, <1>5, <1>6
  <2> DEFINE s == moved[c]
             f2 == [hh_next EXCEPT ![i] = top]
             p2 == SetIf([hh_prev EXCEPT ![i] = NULL], top, i)
  <2> HIDE DEF top, s
  <2>2. /\ f2 \in Links /\ p2 \in Links
        /\ \A j \in Item : /\ hh_next[j] # JUNK => f2[j] # JUNK
                           /\ hh_prev[j] # JUNK => p2[j] # JUNK
        /\ Linked(<<i>> \o s, i, f2, p2)
        /\ Apart(hh_next, f2, {i}) /\ Apart(hh_prev, p2, {i} \cup ToSet(s))
    <3>1. /\ s \in Seq(Item) /\ hh_next \in Links /\ hh_prev \in Links /\ i \in Item \ ToSet(s)
          /\ Linked(s, top, hh_next, hh_prev) /\ IsInjective(s)
      BY <2>1, <1>2, <1>8 DEF s
    <3>2. QED BY <3>1, LinkedCons
  <2>3. f2 = hh_next' /\ p2 = hh_prev'
    BY <1>1
  <2> HIDE DEF f2, p2
  <2>4. QED BY <2>2, <2>3 DEF s
<1>10. /\ <<i>> \o moved[c] \in Seq(Item) /\ Len(<<i>> \o moved[c]) = Len(moved[c]) + 1
       /\ ToSet(<<i>> \o moved[c]) = ToSet(moved[c]) \cup {i}
       /\ IsInjective(<<i>> \o moved[c])
  BY <1>2, <1>5, <1>6, <1>8, ToSetCons
<1>11. /\ Tail(chain[o]) \in Seq(Item) /\ Len(Tail(chain[o])) = Len(chain[o]) - 1
       /\ IsInjective(Tail(chain[o]))
       /\ ToSet(Tail(chain[o])) = ToSet(chain[o]) \ {i}
       /\ Forward(Tail(chain[o]), hh_next[i], hh_next')
  BY <1>4, <1>9, ForwardTail
<1>12. /\ chain' \in [0..(n - 1) -> Seq(Item)]
       /\ chain'[o] = Tail(chain[o]) /\ \A b \in 0..(n - 1) : b # o => chain'[b] = chain[b]
  BY <1>1, <1>2, <1>11
<1>13. /\ moved' \in [0..(m - 1) -> Seq(Item)]
       /\ moved'[c] = <<i>> \o moved[c] /\ \A b \in 0..(m - 1) : b # c => moved'[b] = moved[b]
  BY <1>1, <1>2, <1>5, <1>10
<1>14. /\ r \in Bucket /\ new_buckets' \in [0..(m - 1) -> Bucket]
       /\ new_buckets'[c] = r /\ \A b \in 0..(m - 1) : b # c => new_buckets'[b] = new_buckets[b]
  <2>1. count \in Nat
    BY <1>8
  <2> HIDE DEF count
  <2>2. count \div grow.ideal \in Nat
    BY <2>1, <1>2, DivMod
  <2>3. r \in Bucket
    BY <2>1, <2>2, <1>2, <1>8 DEF Bucket
  <2> HIDE DEF r
  <2>4. QED BY <2>3, <1>1, <1>2, <1>5
<1>15. /\ hh_next[i] \in Item \cup {NULL}
       /\ grow' \in Growth /\ grow'.thh = hh_next[i] /\ grow'.bkt = o /\ grow'.ideal = grow.ideal
  <2>1. hh_next[i] \in Item \cup {NULL}
    BY <1>11, FirstIs
  <2> DEFINE x == IF count > grow.ideal THEN grow.nonideal + 1 ELSE grow.nonideal
  <2>2. x \in Nat
    BY <1>2
  <2>3. grow' = [grow EXCEPT !.thh = hh_next[i], !.nonideal = x]
    BY <1>1
  <2> HIDE DEF x
  <2>4. QED BY <2>1, <2>2, <2>3, <1>2 DEF Growth, o
<1> HIDE DEF r, count, top
<1>16. UtHashTypeOK'
  <2>1. grow'.bkt < tbl.num_buckets
    BY <1>2, <1>15
  <2>2. QED BY <2>1, <1>1, <1>2, <1>9, <1>12, <1>13, <1>14, <1>15 DEF UtHashTypeOK, Links, m
<1>17. AppOK'
  BY <1>1 DEF AppOK, Linked
<1>18. RestOK'
  <2>1. grow' # NULL
    BY <1>15, Basics
  <2>2. QED BY <2>1 DEF RestOK
<1>19. OldOK(tbl.num_buckets)'
  <2>1. ASSUME NEW b \in 0..(n - 1)
        PROVE  /\ b < o => chain'[b] = <<>>
               /\ b = o => Forward(chain'[b], hh_next[i], hh_next')
               /\ b > o => Forward(chain'[b], buckets[b].hh_head, hh_next')
    <3>1. CASE b = o
      BY <3>1, <1>2, <1>11, <1>12
    <3>2. CASE b < o
      <4>1. chain[b] = <<>>
        BY <3>2, <1>3 DEF OldOK, o
      <4>2. b # o
        BY <3>2, <1>2
      <4>3. chain'[b] = <<>>
        BY <4>1, <4>2, <1>12
      <4>4. QED BY <4>2, <4>3, <3>2, <1>2
    <3>3. CASE b > o
      <4>1. chain'[b] = chain[b] /\ Forward(chain[b], buckets[b].hh_head, hh_next)
        BY <3>3, <1>2, <1>3, <1>12 DEF OldOK, o
      <4>2. chain[b] \in Seq(Item) /\ ToSet(chain[b]) \cap {i} = {}
        BY <3>3, <1>2, <1>7
      <4>3. Forward(chain[b], buckets[b].hh_head, hh_next')
        BY <4>1, <4>2, <1>9, ForwardFrame
      <4>4. QED BY <4>1, <4>3, <3>3, <1>2
    <3>4. QED BY <3>1, <3>2, <3>3, <1>2
  <2>2. QED BY <2>1, <1>1, <1>15 DEF OldOK, Forward
<1>20. LinkedBuckets(new_buckets, moved, 2 * tbl.num_buckets)'
  <2>1. ASSUME NEW b \in 0..(m - 1)
        PROVE  Linked(moved'[b], new_buckets'[b].hh_head, hh_next', hh_prev')
               /\ new_buckets'[b].count = Len(moved'[b])
    <3>1. CASE b = c
      <4>1. r.hh_head = i /\ r.count = new_buckets[c].count + 1
        BY DEF r, count
      <4>2. QED BY <4>1, <3>1, <1>8, <1>9, <1>10, <1>13, <1>14
    <3>2. CASE b # c
      <4>1. /\ moved'[b] = moved[b] /\ new_buckets'[b] = new_buckets[b] /\ moved[b] \in Seq(Item)
            /\ Linked(moved[b], new_buckets[b].hh_head, hh_next, hh_prev)
            /\ new_buckets[b].count = Len(moved[b])
        BY <3>2, <1>2, <1>3, <1>13, <1>14 DEF LinkedBuckets
      <4>2. ToSet(moved[b]) \cap ({i} \cup ToSet(moved[c])) = {}
        BY <3>2, <1>3, <1>5, <1>6, PlacedApart
      <4>3. Apart(hh_next, hh_next', {i} \cup ToSet(moved[c]))
        BY <1>9 DEF Apart
      <4>4. Linked(moved[b], new_buckets[b].hh_head, hh_next', hh_prev')
        BY <4>1, <4>2, <4>3, <1>9, LinkedFrame
      <4>5. QED BY <4>1, <4>4
    <3>3. QED BY <3>1, <3>2
  <2>2. QED BY <2>1, <1>1 DEF LinkedBuckets, Linked, m
<1>21. MultOK(new_buckets, 2 * tbl.num_buckets, grow.ideal)'
  <2>1. ASSUME NEW b \in 0..(m - 1)
        PROVE  new_buckets'[b].expand_mult =
                 IF new_buckets'[b].count > grow.ideal THEN new_buckets'[b].count \div grow.ideal ELSE 0
    <3>1. CASE b = c
      <4>1. /\ r.count = count
            /\ r.expand_mult = IF count > grow.ideal THEN count \div grow.ideal
                               ELSE new_buckets[c].expand_mult
        BY DEF r
      <4>2. ~(count > grow.ideal) => ~(new_buckets[c].count > grow.ideal)
        BY <1>2, <1>8 DEF count
      <4>3. ~(new_buckets[c].count > grow.ideal) => new_buckets[c].expand_mult = 0
        BY <1>3, <1>5 DEF MultOK
      <4>4. QED BY <4>1, <4>2, <4>3, <3>1, <1>14
    <3>2. CASE b # c
      BY <3>2, <1>3, <1>14 DEF MultOK
    <3>3. QED BY <3>1, <3>2
  <2>2. QED BY <2>1, <1>1, <1>15 DEF MultOK, m
<1>22. Placed(chain, tbl.num_buckets)'
  <2>1. ASSUME NEW b \in 0..(n - 1)
        PROVE  IsInjective(chain'[b]) /\ ToSet(chain'[b]) \subseteq ToSet(chain[b])
    BY <1>3, <1>11, <1>12 DEF Placed
  <2>2. QED BY <2>1, <1>1, <1>3 DEF Placed
<1>23. Placed(moved, 2 * tbl.num_buckets)'
  <2>1. ASSUME NEW b \in 0..(m - 1)
        PROVE  IsInjective(moved'[b]) /\ \A j \in ToSet(moved'[b]) : key[j] # NULL /\ ToBkt(hashv[j], m) = b
    <3>1. CASE b = c
      BY <3>1, <1>3, <1>5, <1>10, <1>13 DEF Placed, c
    <3>2. CASE b # c
      BY <3>2, <1>3, <1>13 DEF Placed
    <3>3. QED BY <3>1, <3>2
  <2>2. QED BY <2>1, <1>1 DEF Placed, m
<1>24. ASSUME NEW j \in Item, key[j] # NULL
       PROVE  IsIn(j, chain', n) <=> ~IsIn(j, moved', m)
  <2> DEFINE b == ToBkt(hashv[j], n)
             d == ToBkt(hashv[j], m)
  <2>1. hashv[j] \in Nat /\ b \in 0..(n - 1) /\ d \in 0..(m - 1)
    BY <1>2, <1>24, TableIs, Basics
  <2>2. j \in ToSet(chain[b]) <=> j \notin ToSet(moved[d])
    BY <1>3, <1>24 DEF IsIn
  <2>3. CASE j = i
    <3>1. j \notin ToSet(chain'[b])
      BY <2>3, <1>5, <1>11, <1>12
    <3>2. j \in ToSet(moved'[d])
      BY <2>3, <1>10, <1>13 DEF c
    <3>3. QED BY <3>1, <3>2 DEF IsIn
  <2>4. CASE j # i
    <3>1. j \in ToSet(chain'[b]) <=> j \in ToSet(chain[b])
      BY <2>1, <2>4, <1>11, <1>12
    <3>2. j \in ToSet(moved'[d]) <=> j \in ToSet(moved[d])
      BY <2>1, <2>4, <1>10, <1>13
    <3>3. QED BY <3>1, <3>2, <2>2 DEF IsIn
  <2>5. QED BY <2>3, <2>4
<1>25. Total(Lens(chain', n), n) + Total(Lens(moved', m), m) = tbl.num_items
  <2>1. Len(chain[o]) = Len(chain'[o]) + 1
    BY <1>4, <1>11, <1>12, SeqFacts
  <2>2. /\ Total(Lens(chain', n), n) \in Nat
        /\ Total(Lens(chain, n), n) = Total(Lens(chain', n), n) + 1
    <3>1. \A b \in 0..(n - 1) : chain'[b] \in Seq(Item) /\ (b # o => chain[b] = chain'[b])
      BY <1>12
    <3>2. n \in Nat /\ o \in 0..(n - 1)
      BY <1>2
    <3> DEFINE C == chain'
               D == chain
    <3>3. /\ \A b \in 0..(n - 1) : C[b] \in Seq(Item) /\ (b # o => D[b] = C[b])
          /\ Len(D[o]) = Len(C[o]) + 1
      BY <3>1, <2>1
    <3> HIDE DEF C, D
    <3>4. Total(Lens(C, n), n) \in Nat /\ Total(Lens(D, n), n) = Total(Lens(C, n), n) + 1
      BY <3>2, <3>3, LensMore
    <3>5. QED BY <3>4 DEF C, D
  <2>3. /\ Total(Lens(moved, m), m) \in Nat
        /\ Total(Lens(moved', m), m) = Total(Lens(moved, m), m) + 1
    <3>1. \A b \in 0..(m - 1) : moved[b] \in Seq(Item) /\ (b # c => moved'[b] = moved[b])
      BY <1>2, <1>13
    <3>2. m \in Nat /\ Len(moved'[c]) = Len(moved[c]) + 1
      BY <1>2, <1>10, <1>13
    <3>3. QED BY <3>1, <3>2, <1>5, LensMore
  <2>4. QED BY <2>2, <2>3, <1>2, <1>3
<1>26. GrowOK'
  <2>1. \A j \in Item : key'[j] # NULL =>
          (IsIn(j, chain, tbl.num_buckets) <=> ~IsIn(j, moved, 2 * tbl.num_buckets))'
    BY <1>1, <1>24 DEF IsIn, m
  <2>2. (Total(Lens(chain, tbl.num_buckets), tbl.num_buckets)
         + Total(Lens(moved, 2 * tbl.num_buckets), 2 * tbl.num_buckets) = tbl.num_items)'
    BY <1>1, <1>25 DEF m
  <2>3. (/\ ~tbl.noexpand /\ grow.ideal <= Thresh
         /\ tbl.num_items <= (2 * tbl.num_buckets) * grow.ideal)'
    BY <1>1, <1>3, <1>15 DEF m
  <2>4. QED BY <2>1, <2>2, <2>3, <1>19, <1>20, <1>21, <1>22, <1>23 DEF GrowOK
<1>27. FindOK'
  BY <1>1, <1>2 DEF FindOK
<1>28. QED BY <1>16, <1>17, <1>18, <1>26, <1>27

----------------------------------------------------------------------------
(* Adding. *)

(* A table t with buckets B that a pair may be added to. *)
Ready(t, B, C) ==
  /\ t \in Table
  /\ B \in [0..(t.num_buckets - 1) -> Bucket]
  /\ C \in [0..(t.num_buckets - 1) -> Seq(Item)]
  /\ LinkedBuckets(B, C, t.num_buckets)
  /\ Placed(C, t.num_buckets)
  /\ \A j \in Item : key[j] # NULL => IsIn(j, C, t.num_buckets)
  /\ Total(Lens(C, t.num_buckets), t.num_buckets) = t.num_items
  /\ ~t.noexpand =>
       /\ Bounded(B, t.num_buckets)
       /\ Total(Shares(B, t.num_buckets), t.num_buckets) <= t.num_buckets

(* Empty buckets are in order. *)
LEMMA EmptyReady ==
  ASSUME NEW n \in Nat \ {0}
  PROVE  /\ EmptyBuckets(n) \in [0..(n - 1) -> Bucket]
         /\ EmptyChains(n) \in [0..(n - 1) -> Seq(Item)]
         /\ \A b \in 0..(n - 1) : /\ EmptyBuckets(n)[b].count = 0 /\ EmptyBuckets(n)[b].expand_mult = 0
                                  /\ EmptyChains(n)[b] = <<>>
         /\ LinkedBuckets(EmptyBuckets(n), EmptyChains(n), n)
         /\ Placed(EmptyChains(n), n)
         /\ Total(Lens(EmptyChains(n), n), n) = 0
         /\ Bounded(EmptyBuckets(n), n)
         /\ Total(Shares(EmptyBuckets(n), n), n) <= n
<1> DEFINE B == EmptyBuckets(n)
           C == EmptyChains(n)
<1>0. Thresh \in Nat \ {0}
  BY HashAssumption
<1>1. \A b \in 0..(n - 1) :
        /\ B[b] = [hh_head |-> NULL, count |-> 0, expand_mult |-> 0] /\ C[b] = <<>>
  BY DEF EmptyBuckets, EmptyChains
<1>2. B \in [0..(n - 1) -> Bucket] /\ C \in [0..(n - 1) -> Seq(Item)]
  BY DEF EmptyBuckets, EmptyChains, Bucket
<1> HIDE DEF B, C
<1>3. ASSUME NEW b \in 0..(n - 1)
      PROVE  /\ B[b].hh_head = NULL /\ B[b].count = 0 /\ B[b].expand_mult = 0
             /\ C[b] = <<>> /\ Len(C[b]) = 0 /\ C[b] \in Seq(Item)
             /\ IsInjective(C[b]) /\ ToSet(C[b]) = {}
  <2>1. C[b] = <<>> /\ C[b] \in Seq(Item) /\ Len(<<>>) = 0
    BY <1>1, <1>2
  <2>2. ToSet(C[b]) = {} /\ DOMAIN C[b] = {}
    BY <2>1, SeqFacts
  <2>3. QED BY <1>1, <2>1, <2>2 DEF IsInjective
<1>4. LinkedBuckets(B, C, n)
  <2>1. ASSUME NEW b \in 0..(n - 1) PROVE Linked(C[b], B[b].hh_head, hh_next, hh_prev)
    <3>1. DOMAIN C[b] = {}
      BY <1>3, SeqFacts
    <3>2. QED BY <3>1, <1>3 DEF Linked
  <2>2. QED BY <2>1, <1>3 DEF LinkedBuckets
<1>5. Placed(C, n)
  BY <1>3 DEF Placed
<1>6. Total(Lens(C, n), n) = 0
  <2>1. \A b \in 0..(n - 1) : Lens(C, n)[b] = 0
    BY <1>3 DEF Lens
  <2>2. QED BY <2>1, TotalZero
<1>7. Bounded(B, n)
  <2>1. 0 <= (0 + 1) * Thresh
    BY <1>0
  <2>2. QED BY <2>1, <1>3 DEF Bounded
<1>8. Total(Shares(B, n), n) <= n
  <2>1. 0 \div Thresh = 0
    BY <1>0
  <2>2. \A b \in 0..(n - 1) : Shares(B, n)[b] = 0
    BY <2>1, <1>3 DEF Shares, Share
  <2>3. Total(Shares(B, n), n) = 0
    BY <2>2, TotalZero
  <2>4. QED BY <2>3
<1>9. QED BY <1>2, <1>3, <1>4, <1>5, <1>6, <1>7, <1>8 DEF B, C

(* The table that HASH_ADD_TO_TABLE adds to, its own or a new one. *)
LEMMA ReadyIs ==
  ASSUME IInv, grow = NULL, NEW i \in Item, NEW t, NEW B, NEW C,
         t = IF head = NULL THEN MakeTable(i) ELSE tbl,
         B = IF head = NULL THEN EmptyBuckets(InitBuckets) ELSE buckets,
         C = IF head = NULL THEN EmptyChains(InitBuckets) ELSE chain
  PROVE  /\ Ready(t, B, C)
         /\ t.num_items = Len(order)
         /\ head = NULL <=> order = <<>>
         /\ head # NULL => t.tail = order[Len(order)]
<1> USE DEF IInv
<1>1. (head = NULL <=> order = <<>>) /\ (head = NULL <=> tbl = NULL)
  BY DEF UtHashTypeOK, AppOK
<1>2. CASE head = NULL
  <2>1. InitBuckets \in Nat \ {0}
    BY HashAssumption
  <2>2. t \in Table /\ t.num_buckets = InitBuckets /\ t.num_items = 0
    BY <1>2, <2>1 DEF MakeTable, Table
  <2>3. \A j \in Item : key[j] = NULL
    <3>1. order \in Seq(Item) /\ order = <<>>
      BY <1>1, <1>2 DEF UtHashTypeOK
    <3>2. ToSet(order) = {}
      BY <3>1, SeqFacts
    <3>3. QED BY <3>2 DEF AppOK
  <2>4. B = EmptyBuckets(InitBuckets) /\ C = EmptyChains(InitBuckets)
    BY <1>2
  <2>5. Ready(t, B, C)
    BY <2>1, <2>2, <2>3, <2>4, EmptyReady DEF Ready
  <2>6. Len(<<>>) = 0
    OBVIOUS
  <2>7. QED BY <1>1, <1>2, <2>2, <2>5, <2>6
<1>3. CASE head # NULL
  <2>1. t = tbl /\ B = buckets /\ C = chain /\ tbl # NULL
    BY <1>1, <1>3
  <2>2. Ready(tbl, buckets, chain)
    BY <2>1 DEF Ready, RestOK, UtHashTypeOK
  <2>3. QED BY <1>1, <2>1, <2>2, <1>3 DEF AppOK
<1>4. QED BY <1>2, <1>3

(* A product is monotonic. *)
LEMMA TimesMono ==
  ASSUME NEW a \in Nat, NEW b \in Nat, NEW d \in Nat, a <= b
  PROVE  a * d <= b * d /\ a * d \in Nat /\ b * d \in Nat
OBVIOUS

(* How many pairs there are when a bucket is found too long. *)
LEMMA FewPairs ==
  ASSUME NEW B, NEW C, NEW n \in Nat \ {0}, NEW items \in Nat, NEW c \in 0..(n - 1), NEW D,
         B \in [0..(n - 1) -> Bucket],
         \A b \in 0..(n - 1) : D[b] \in Seq(Item),
         \A b \in 0..(n - 1) : B[b].count = Len(C[b]),
         Len(D[c]) = Len(C[c]) + 1, \A b \in 0..(n - 1) : b # c => D[b] = C[b],
         Total(Shares(B, n), n) <= n, Total(Lens(D, n), n) = items
  PROVE  items <= (2 * n) * Thresh
<1> DEFINE f == Shares(B, n)
           g == Lens(D, n)
<1>0. Thresh \in Nat \ {0}
  BY HashAssumption
<1>1. ASSUME NEW b \in 0..(n - 1)
      PROVE  f[b] \in Nat /\ g[b] \in Nat /\ g[b] <= (f[b] + 1) * Thresh
  <2> DEFINE x == B[b].count
             w == x \div Thresh
             y == B[b].expand_mult
  <2>1. x \in Nat /\ y \in Nat
    BY DEF Bucket
  <2>2. f[b] = (IF y > w THEN y ELSE w) /\ g[b] = Len(D[b])
    BY DEF Shares, Share, Lens
  <2>3. Len(D[b]) \in Nat /\ Len(D[b]) <= x + 1
    <3>1. Len(D[b]) \in Nat /\ x = Len(C[b])
      BY SeqFacts
    <3>2. CASE b = c
      BY <3>1, <3>2, <2>1
    <3>3. CASE b # c
      BY <3>1, <3>3, <2>1
    <3>4. QED BY <3>1, <3>2, <3>3
  <2> HIDE DEF x, y, f, g
  <2>4. w \in Nat /\ x < Thresh * w + Thresh
    BY <2>1, <1>0, DivMod
  <2> HIDE DEF w
  <2>5. f[b] \in Nat /\ w <= f[b]
    BY <2>1, <2>2, <2>4
  <2>6. (w + 1) * Thresh <= (f[b] + 1) * Thresh
    <3>1. f[b] + 1 \in Nat /\ w + 1 \in Nat /\ w + 1 <= f[b] + 1
      BY <2>4, <2>5
    <3>2. QED BY <3>1, <1>0, TimesMono
  <2>7. (w + 1) * Thresh = Thresh * w + Thresh /\ Thresh * w \in Nat
    BY <2>4, <1>0
  <2>8. (f[b] + 1) * Thresh \in Nat
    BY <2>5, <1>0
  <2>9. x + 1 <= (f[b] + 1) * Thresh
    BY <2>1, <2>4, <2>6, <2>7, <2>8, <1>0
  <2>10. QED BY <2>1, <2>2, <2>3, <2>5, <2>8, <2>9
<1> HIDE DEF f, g
<1>2. Counts(f, n) /\ Counts(g, n)
  BY <1>1 DEF Counts
<1>3. Total(g, n) <= (Total(f, n) + n) * Thresh
  BY <1>0, <1>1, <1>2, TotalLess
<1>4. Total(f, n) \in Nat /\ Total(f, n) <= n /\ Total(g, n) = items
  BY <1>2, TotalStep DEF f, g
<1>5. (Total(f, n) + n) * Thresh <= (2 * n) * Thresh
  <2>1. Total(f, n) + n \in Nat /\ Total(f, n) + n <= 2 * n
    BY <1>4
  <2>2. QED BY <2>1, <1>0
<1>6. (Total(f, n) + n) * Thresh \in Nat /\ (2 * n) * Thresh \in Nat
  BY <1>0, <1>4
<1>7. QED BY <1>3, <1>4, <1>5, <1>6

(* HASH_ADD preserves the invariant: when the bucket is too long afterwards, the
   expansion begins with a bound that it can keep.                            *)
LEMMA HashAddInv ==
  ASSUME IInv, grow = NULL, ~dying, dying' = dying, find' = NULL,
         NEW i \in Item, NEW k \in Key, HashAdd(i, k)
  PROVE  IInv'
<1> USE DEF IInv
<1> DEFINE t == IF head = NULL THEN MakeTable(i) ELSE tbl
           B == IF head = NULL THEN EmptyBuckets(InitBuckets) ELSE buckets
           C == IF head = NULL THEN EmptyChains(InitBuckets) ELSE chain
           n == t.num_buckets
           b == ToBkt(Hash[k], n)
           top == B[b].hh_head
           count == B[b].count + 1
           full == count >= (B[b].expand_mult + 1) * Thresh /\ ~tbl'.noexpand
           last == IF head = NULL THEN NULL ELSE tbl.tail
<1>1. /\ key[i] = NULL
      /\ head' = IF head = NULL THEN i ELSE head
      /\ next' = IF head = NULL THEN [next EXCEPT ![i] = NULL]
                 ELSE [next EXCEPT ![i] = NULL, ![tbl.tail] = i]
      /\ prev' = [prev EXCEPT ![i] = last]
      /\ hashv' = [hashv EXCEPT ![i] = Hash[k]]
      /\ tbl' = [t EXCEPT !.tail = i, !.num_items = @ + 1]
      /\ buckets' = [B EXCEPT ![b].count = count, ![b].hh_head = i]
      /\ hh_next' = [hh_next EXCEPT ![i] = top]
      /\ hh_prev' = SetIf([hh_prev EXCEPT ![i] = NULL], top, i)
      /\ chain' = [C EXCEPT ![b] = <<i>> \o @]
      /\ IF full THEN ExpandBegin(tbl', buckets') ELSE UNCHANGED expansion
      /\ key' = [key EXCEPT ![i] = k]
      /\ order' = Append(order, i)
  BY DEF HashAdd, AddToBkt
<1>2. /\ Ready(t, B, C)
      /\ t.num_items = Len(order)
      /\ head = NULL <=> order = <<>>
      /\ head # NULL => t.tail = order[Len(order)] /\ t = tbl
  BY ReadyIs
<1> HIDE DEF t, B, C
<1>3. /\ t \in Table /\ n \in Nat \ {0} /\ t.num_items \in Nat /\ t.noexpand \in BOOLEAN
      /\ b \in 0..(n - 1) /\ Hash[k] \in Nat
      /\ B \in [0..(n - 1) -> Bucket] /\ C \in [0..(n - 1) -> Seq(Item)]
      /\ B[b].count \in Nat /\ B[b].expand_mult \in Nat /\ C[b] \in Seq(Item)
  <2>1. t \in Table /\ B \in [0..(n - 1) -> Bucket] /\ C \in [0..(n - 1) -> Seq(Item)]
    BY <1>2 DEF Ready
  <2>2. n \in Nat \ {0} /\ t.num_items \in Nat /\ t.noexpand \in BOOLEAN
    BY <2>1 DEF Table
  <2>3. Hash[k] \in Nat /\ b \in 0..(n - 1)
    BY <2>2, Basics
  <2>4. B[b] \in Bucket /\ C[b] \in Seq(Item)
    BY <2>1, <2>3
  <2>5. QED BY <2>1, <2>2, <2>3, <2>4 DEF Bucket
<1>4. /\ tbl' \in Table /\ tbl'.num_buckets = n /\ tbl'.tail = i /\ tbl'.noexpand = t.noexpand
      /\ tbl'.num_items = t.num_items + 1
  <2> DEFINE x == t.num_items + 1
  <2>1. x \in Nat /\ tbl' = [t EXCEPT !.tail = i, !.num_items = x]
    BY <1>1, <1>3
  <2> HIDE DEF x
  <2>2. tbl' \in Table /\ tbl'.num_buckets = n /\ tbl'.tail = i /\ tbl'.noexpand = t.noexpand
        /\ tbl'.num_items = x
    BY <1>3, <2>1 DEF Table
  <2>3. QED BY <2>2 DEF x
<1> HIDE DEF n, b
<1>5. /\ LinkedBuckets(B, C, n) /\ Placed(C, n)
      /\ \A j \in Item : key[j] # NULL => IsIn(j, C, n)
      /\ Total(Lens(C, n), n) = t.num_items
      /\ ~t.noexpand => Bounded(B, n) /\ Total(Shares(B, n), n) <= n
  BY <1>2 DEF Ready, n
<1>6. \A c \in 0..(n - 1) : C[c] \in Seq(Item) /\ i \notin ToSet(C[c])
  BY <1>1, <1>3, <1>5 DEF Placed
<1>7. Linked(C[b], top, hh_next, hh_prev) /\ IsInjective(C[b]) /\ B[b].count = Len(C[b])
  BY <1>3, <1>5 DEF LinkedBuckets, Placed
<1>8. /\ hh_next' \in Links /\ hh_prev' \in Links
      /\ hh_next'[i] # JUNK /\ hh_prev'[i] # JUNK
      /\ \A j \in Item : /\ hh_next[j] # JUNK => hh_next'[j] # JUNK
                         /\ hh_prev[j] # JUNK => hh_prev'[j] # JUNK
      /\ Linked(<<i>> \o C[b], i, hh_next', hh_prev')
      /\ Apart(hh_next, hh_next', {i}) /\ Apart(hh_prev, hh_prev', {i} \cup ToSet(C[b]))
  <2> DEFINE s == C[b]
             f2 == [hh_next EXCEPT ![i] = top]
             p2 == SetIf([hh_prev EXCEPT ![i] = NULL], top, i)
  <2> HIDE DEF top, s
  <2>1. /\ s \in Seq(Item) /\ hh_next \in Links /\ hh_prev \in Links /\ i \in Item \ ToSet(s)
        /\ Linked(s, top, hh_next, hh_prev) /\ IsInjective(s)
    BY <1>3, <1>6, <1>7 DEF s, UtHashTypeOK, Links
  <2>2. /\ f2 \in Links /\ p2 \in Links
        /\ f2[i] # JUNK /\ p2[i] # JUNK
        /\ \A j \in Item : /\ hh_next[j] # JUNK => f2[j] # JUNK
                           /\ hh_prev[j] # JUNK => p2[j] # JUNK
        /\ Linked(<<i>> \o s, i, f2, p2)
        /\ Apart(hh_next, f2, {i}) /\ Apart(hh_prev, p2, {i} \cup ToSet(s))
    BY <2>1, LinkedCons
  <2>3. f2 = hh_next' /\ p2 = hh_prev'
    BY <1>1
  <2> HIDE DEF f2, p2
  <2>4. QED BY <2>2, <2>3 DEF s
<1>9. /\ <<i>> \o C[b] \in Seq(Item) /\ Len(<<i>> \o C[b]) = Len(C[b]) + 1
      /\ ToSet(<<i>> \o C[b]) = ToSet(C[b]) \cup {i}
      /\ IsInjective(<<i>> \o C[b])
  BY <1>3, <1>6, <1>7, ToSetCons
<1>10. /\ chain' \in [0..(n - 1) -> Seq(Item)]
       /\ chain'[b] = <<i>> \o C[b] /\ \A c \in 0..(n - 1) : c # b => chain'[c] = C[c]
  BY <1>1, <1>3, <1>9 DEF n
<1>11. /\ buckets' \in [0..(n - 1) -> Bucket]
       /\ buckets'[b].hh_head = i /\ buckets'[b].count = count
       /\ buckets'[b].expand_mult = B[b].expand_mult
       /\ \A c \in 0..(n - 1) : c # b => buckets'[c] = B[c]
  <2>1. count \in Nat /\ B \in [0..(n - 1) -> Bucket] /\ b \in 0..(n - 1)
    BY <1>3 DEF n
  <2> HIDE DEF count
  <2> DEFINE r == [B[b] EXCEPT !.count = count, !.hh_head = i]
  <2>2. r \in Bucket /\ r.hh_head = i /\ r.count = count /\ r.expand_mult = B[b].expand_mult
    BY <2>1 DEF Bucket
  <2>3. buckets' = [B EXCEPT ![b] = r]
    BY <1>1, <2>1
  <2> HIDE DEF r
  <2>4. QED BY <2>1, <2>2, <2>3
<1>12. /\ key' \in [Item -> Key \cup {NULL}] /\ hashv' \in [Item -> Nat \cup {JUNK}]
       /\ key'[i] = k /\ hashv'[i] = Hash[k] /\ k # NULL
       /\ \A j \in Item : j # i => key'[j] = key[j] /\ hashv'[j] = hashv[j]
  <2>1. key \in [Item -> Key \cup {NULL}] /\ hashv \in [Item -> Nat \cup {JUNK}]
    BY DEF UtHashTypeOK
  <2>2. k # NULL
    BY Basics
  <2>3. key' = [key EXCEPT ![i] = k] /\ hashv' = [hashv EXCEPT ![i] = Hash[k]] /\ Hash[k] \in Nat
    BY <1>1, <1>3
  <2>4. QED BY <2>1, <2>2, <2>3
<1>13. order \in Seq(Item) /\ IsInjective(order) /\ i \notin ToSet(order)
       /\ Linked(order, head, next, prev) /\ next \in Links /\ prev \in Links
  BY <1>1 DEF UtHashTypeOK, AppOK, Links
<1>14. /\ order' \in Seq(Item) /\ Len(order') = Len(order) + 1
       /\ order'[Len(order')] = i /\ order' # <<>>
       /\ ToSet(order') = ToSet(order) \cup {i}
       /\ IsInjective(order')
  <2>1. Len(order) \in Nat
    BY <1>13, SeqFacts
  <2>2. /\ order' \in Seq(Item) /\ Len(order') = Len(order) + 1
        /\ \A j \in 1..(Len(order) + 1) : order'[j] = IF j <= Len(order) THEN order[j] ELSE i
        /\ ToSet(order') = ToSet(order) \cup {i}
        /\ IsInjective(order')
    BY <1>1, <1>13, ToSetAppend
  <2>3. order'[Len(order')] = i
    BY <2>1, <2>2
  <2>4. order' # <<>>
    BY <2>1, <2>2, SeqFacts
  <2>5. QED BY <2>2, <2>3, <2>4
<1>15. /\ next' \in Links /\ prev' \in Links
       /\ next'[i] # JUNK /\ prev'[i] # JUNK
       /\ \A j \in Item : /\ next[j] # JUNK => next'[j] # JUNK
                          /\ prev[j] # JUNK => prev'[j] # JUNK
       /\ Linked(order', head', next', prev')
  <2> DEFINE z == IF order = <<>> THEN NULL ELSE order[Len(order)]
             f2 == SetIf([next EXCEPT ![i] = NULL], z, i)
             p2 == [prev EXCEPT ![i] = z]
  <2>1. /\ f2 \in Links /\ p2 \in Links
        /\ f2[i] # JUNK /\ p2[i] # JUNK
        /\ \A j \in Item : /\ next[j] # JUNK => f2[j] # JUNK
                           /\ prev[j] # JUNK => p2[j] # JUNK
        /\ Linked(Append(order, i), IF order = <<>> THEN i ELSE head, f2, p2)
        /\ order # <<>> => z \in Item
    BY <1>13, LinkedAppend
  <2>2. z = last
    BY <1>2
  <2> HIDE DEF z, last
  <2>3. last = (IF head = NULL THEN NULL ELSE tbl.tail) /\ (head # NULL => last \in Item)
    BY <1>2, <2>1, <2>2 DEF last
  <2>4. p2 = prev'
    BY <1>1, <2>2
  <2>5. f2 = next'
    BY <1>1, <2>2, <2>3, Basics DEF SetIf
  <2>6. head' = IF order = <<>> THEN i ELSE head
    BY <1>1, <1>2
  <2> HIDE DEF f2, p2
  <2>7. QED BY <1>1, <2>1, <2>4, <2>5, <2>6
<1> HIDE DEF top, last
<1>16. AppOK'
  <2>1. tbl' # NULL
    BY <1>4, Basics
  <2>2. \A j \in Item : key'[j] # NULL <=> j \in ToSet(order')
    BY <1>12, <1>13, <1>14 DEF AppOK
  <2>3. tbl'.num_items = Len(order')
    BY <1>2, <1>4, <1>14
  <2>4. QED BY <1>4, <1>14, <1>15, <2>1, <2>2, <2>3 DEF AppOK, Linked
<1>17. LinkedBuckets(buckets, chain, tbl.num_buckets)'
  <2>1. ASSUME NEW c \in 0..(n - 1)
        PROVE  Linked(chain'[c], buckets'[c].hh_head, hh_next', hh_prev')
               /\ buckets'[c].count = Len(chain'[c])
    <3>1. CASE c = b
      BY <3>1, <1>7, <1>8, <1>9, <1>10, <1>11
    <3>2. CASE c # b
      <4>1. /\ chain'[c] = C[c] /\ buckets'[c] = B[c] /\ C[c] \in Seq(Item)
            /\ Linked(C[c], B[c].hh_head, hh_next, hh_prev)
            /\ B[c].count = Len(C[c])
        BY <3>2, <1>5, <1>6, <1>10, <1>11 DEF LinkedBuckets
      <4>2. ToSet(C[c]) \cap ({i} \cup ToSet(C[b])) = {}
        <5>1. b \in 0..(n - 1)
          BY <1>3 DEF n
        <5>2. QED BY <5>1, <3>2, <1>5, <1>6, PlacedApart
      <4>3. Apart(hh_next, hh_next', {i} \cup ToSet(C[b]))
        BY <1>8 DEF Apart
      <4>4. Linked(C[c], B[c].hh_head, hh_next', hh_prev')
        BY <4>1, <4>2, <4>3, <1>8, LinkedFrame
      <4>5. QED BY <4>1, <4>4
    <3>3. QED BY <3>1, <3>2
  <2>2. QED BY <2>1, <1>4 DEF LinkedBuckets, Linked
<1>18. Placed(chain, tbl.num_buckets)'
  <2>1. ASSUME NEW c \in 0..(n - 1)
        PROVE  IsInjective(chain'[c])
               /\ \A j \in ToSet(chain'[c]) : key'[j] # NULL /\ ToBkt(hashv'[j], n) = c
    <3>1. \A j \in ToSet(C[c]) : j \in Item /\ j # i /\ key'[j] # NULL /\ ToBkt(hashv'[j], n) = c
      <4>1. ToSet(C[c]) \subseteq Item
        BY <1>6, SeqFacts
      <4>2. QED BY <4>1, <1>5, <1>6, <1>12 DEF Placed
    <3>2. CASE c = b
      <4>1. key'[i] # NULL /\ ToBkt(hashv'[i], n) = b
        BY <1>12 DEF b
      <4>2. QED BY <3>1, <3>2, <4>1, <1>9, <1>10
    <3>3. CASE c # b
      BY <3>1, <3>3, <1>5, <1>10 DEF Placed
    <3>4. QED BY <3>2, <3>3
  <2>2. QED BY <2>1, <1>4 DEF Placed
<1>19. ASSUME NEW j \in Item, key'[j] # NULL PROVE j \in ToSet(chain'[ToBkt(hashv'[j], n)])
  <2>1. CASE j = i
    BY <2>1, <1>9, <1>10, <1>12 DEF b
  <2>2. CASE j # i
    <3> DEFINE c == ToBkt(hashv[j], n)
    <3>1. key[j] # NULL /\ hashv'[j] = hashv[j] /\ hashv[j] \in Nat
      BY <2>2, <1>12, <1>19, Basics DEF UtHashTypeOK
    <3>2. c \in 0..(n - 1)
      BY <3>1, <1>3, Basics DEF n
    <3>3. j \in ToSet(C[c])
      BY <3>1, <1>5 DEF IsIn
    <3>4. j \in ToSet(chain'[c])
      BY <3>2, <3>3, <1>9, <1>10
    <3>5. QED BY <3>1, <3>4
  <2>3. QED BY <2>1, <2>2
<1>20. n \in Nat \ {0} /\ b \in 0..(n - 1) /\ B \in [0..(n - 1) -> Bucket]
  BY <1>3 DEF n
<1>21. Total(Lens(chain', n), n) = t.num_items + 1
  <2> DEFINE D == chain'
  <2>1. /\ \A c \in 0..(n - 1) : C[c] \in Seq(Item) /\ (c # b => D[c] = C[c])
        /\ Len(D[b]) = Len(C[b]) + 1
    BY <1>6, <1>9, <1>10
  <2> HIDE DEF D
  <2>2. Total(Lens(D, n), n) = Total(Lens(C, n), n) + 1
    BY <1>20, <2>1, LensMore
  <2>3. QED BY <2>2, <1>5 DEF D
<1>22. UtHashTypeOK' /\ RestOK' /\ GrowOK'
  <2>0. tbl' # NULL /\ tbl'.tail = i /\ key'[i] # NULL /\ head' \in Item
    <3>1. head \in Item \cup {NULL}
      BY DEF UtHashTypeOK
    <3>2. QED BY <3>1, <1>1, <1>4, <1>12, Basics
  <2>1. (grow' # NULL => /\ grow' \in Growth /\ grow'.bkt < n
                         /\ new_buckets' \in [0..(2 * n - 1) -> Bucket]
                         /\ moved' \in [0..(2 * n - 1) -> Seq(Item)])
        => UtHashTypeOK'
    <3>1. ASSUME NEW j \in Item, key'[j] # NULL
          PROVE  /\ JUNK \notin {prev'[j], next'[j], hh_prev'[j], hh_next'[j]}
                 /\ hashv'[j] = Hash[key'[j]]
      <4>1. CASE j = i
        BY <4>1, <1>8, <1>12, <1>15
      <4>2. CASE j # i
        <5>1. key[j] # NULL
          BY <4>2, <3>1, <1>12
        <5>2. /\ prev[j] # JUNK /\ next[j] # JUNK /\ hh_prev[j] # JUNK /\ hh_next[j] # JUNK
              /\ hashv[j] = Hash[key[j]]
          BY <5>1 DEF UtHashTypeOK
        <5>3. QED BY <4>2, <5>2, <1>8, <1>12, <1>15
      <4>3. QED BY <4>1, <4>2
    <3>2. head' # NULL
      BY <2>0, Basics
    <3>3. QED BY <2>0, <3>1, <3>2, <1>4, <1>8, <1>10, <1>11, <1>12, <1>14, <1>15, Basics
              DEF UtHashTypeOK, Links
  <2>2. (\A j \in Item : key[j] # NULL => IsIn(j, chain, tbl.num_buckets))'
    BY <1>4, <1>19 DEF IsIn
  <2>3. CASE ~full
    <3>1. grow' = NULL
      BY <2>3, <1>1 DEF expansion
    <3>2. ASSUME ~tbl'.noexpand
          PROVE  Bounded(buckets', n) /\ Total(Shares(buckets', n), n) <= n
      <4> DEFINE f == Shares(buckets', n)
                 g == Shares(B, n)
                 x == B[b].expand_mult
                 y == B[b].count
      <4>0. Thresh \in Nat \ {0} /\ x \in Nat /\ y \in Nat
        BY <1>3, HashAssumption
      <4>1. count < (x + 1) * Thresh /\ count = y + 1
        <5>1. ~(count >= (x + 1) * Thresh) /\ (x + 1) * Thresh \in Nat /\ count \in Nat
          BY <2>3, <3>2, <4>0
        <5>2. QED BY <5>1
      <4>2. Bounded(B, n) /\ Total(g, n) <= n
        BY <3>2, <1>4, <1>5
      <4>3. Bounded(buckets', n)
        <5>1. count <= (x + 1) * Thresh
          <6>1. (x + 1) * Thresh \in Nat /\ count \in Nat
            BY <4>0
          <6>2. QED BY <6>1, <4>1
        <5>2. QED BY <5>1, <4>2, <1>11 DEF Bounded
      <4>4. ASSUME NEW c \in 0..(n - 1)
            PROVE  f[c] \in Nat /\ g[c] \in Nat /\ f[c] * 1 <= g[c]
        <5> DEFINE u == B[c].count \div Thresh
                   v == B[c].expand_mult
        <5>1. u \in Nat /\ v \in Nat
          <6>1. B[c].count \in Nat /\ v \in Nat
            BY <1>20 DEF Bucket
          <6>2. QED BY <6>1, <4>0, DivMod
        <5>2. g[c] = IF v > u THEN v ELSE u
          BY DEF Shares, Share
        <5>3. CASE c # b
          <6>1. f[c] = g[c]
            BY <5>3, <1>11 DEF Shares
          <6> HIDE DEF f, g, u, v
          <6>2. g[c] \in Nat
            BY <5>1, <5>2
          <6>3. QED BY <6>1, <6>2
        <5>4. CASE c = b
          <6> DEFINE w == count \div Thresh
          <6>1. f[b] = IF x > w THEN x ELSE w
            BY <1>11, <1>20 DEF Shares, Share
          <6>2. count \in Nat
            BY <4>0
          <6>3. w \in Nat /\ Thresh * w <= count
            <7> HIDE DEF count
            <7>1. QED BY <6>2, <4>0, DivMod
          <6>4. w <= x
            <7> HIDE DEF count, w, x, y
            <7>1. (x + 1) * Thresh = Thresh * x + Thresh
              BY <4>0
            <7>2. count < Thresh * x + Thresh
              BY <4>1, <7>1
            <7>3. Thresh <= Thresh
              BY <4>0
            <7>4. QED BY <4>0, <6>2, <6>3, <7>2, <7>3, QuotientLe
          <6>5. x = v
            BY <5>4
          <6> HIDE DEF f, g, u, v, w, x, count
          <6>6. f[b] = x
            BY <6>1, <6>3, <6>4, <4>0
          <6>7. f[c] = x /\ x <= g[c] /\ g[c] \in Nat
            BY <6>5, <6>6, <5>1, <5>2, <5>4
          <6>8. QED BY <6>7, <4>0
        <5>5. QED BY <5>3, <5>4
      <4> HIDE DEF f, g
      <4>5. Counts(f, n) /\ Counts(g, n)
        BY <4>4 DEF Counts
      <4>6. Total(f, n) * 1 <= Total(g, n)
        BY <1>20, <4>4, <4>5, TotalLe
      <4>7. Total(f, n) \in Nat /\ Total(g, n) \in Nat
        BY <1>20, <4>5, TotalStep
      <4>8. Total(f, n) <= n
        BY <1>20, <4>2, <4>6, <4>7
      <4>9. QED BY <4>3, <4>8 DEF f
    <3>3. RestOK'
      <4>1. (Total(Lens(chain, tbl.num_buckets), tbl.num_buckets) = tbl.num_items)'
        BY <1>4, <1>21
      <4>2. (~tbl.noexpand => /\ Bounded(buckets, tbl.num_buckets)
                              /\ Total(Shares(buckets, tbl.num_buckets), tbl.num_buckets)
                                   <= tbl.num_buckets)'
        BY <3>2, <1>4 DEF Bounded
      <4>3. QED BY <4>1, <4>2, <2>2, <1>17, <1>18 DEF RestOK
    <3>4. GrowOK'
      BY <3>1 DEF GrowOK
    <3>5. UtHashTypeOK'
      BY <2>1, <3>1
    <3>6. QED BY <3>3, <3>4, <3>5
  <2>4. CASE full
    <3> DEFINE m == 2 * n
               items == t.num_items + 1
               ideal == IdealChainMaxlen(items, m)
    <3>1. /\ grow' = [bkt |-> 0, thh |-> buckets'[0].hh_head, nonideal |-> 0, ideal |-> ideal]
          /\ new_buckets' = EmptyBuckets(m) /\ moved' = EmptyChains(m)
      BY <2>4, <1>1, <1>4 DEF ExpandBegin
    <3>2. m \in Nat \ {0} /\ items \in Nat \ {0} /\ Thresh \in Nat
      BY <1>3, <1>20, HashAssumption
    <3>3. ~tbl'.noexpand /\ ~t.noexpand
      BY <2>4, <1>4
    <3>4. items <= m * Thresh
      <4> DEFINE D == chain'
      <4>1. /\ \A c \in 0..(n - 1) : D[c] \in Seq(Item) /\ (c # b => D[c] = C[c])
            /\ Len(D[b]) = Len(C[b]) + 1
            /\ Total(Lens(D, n), n) = items
        BY <1>9, <1>10, <1>21
      <4>2. \A c \in 0..(n - 1) : B[c].count = Len(C[c])
        BY <1>5 DEF LinkedBuckets
      <4>3. Total(Shares(B, n), n) <= n
        BY <3>3, <1>5
      <4> HIDE DEF D, items
      <4>4. QED BY <4>1, <4>2, <4>3, <3>2, <1>20, FewPairs
    <3> HIDE DEF m, items
    <3>5. ideal \in Nat \ {0} /\ items <= m * ideal /\ ideal <= Thresh
      BY <3>2, <3>4, IdealBounds
    <3> HIDE DEF ideal
    <3>6. /\ 0 \in 0..(n - 1) /\ buckets'[0] \in Bucket
      BY <1>11, <1>20
    <3>7. /\ grow' \in Growth /\ grow'.bkt = 0 /\ grow'.thh = buckets'[0].hh_head
          /\ grow'.ideal = ideal
      <4>1. buckets'[0].hh_head \in Item \cup {NULL}
        BY <3>6 DEF Bucket
      <4>2. QED BY <4>1, <3>1, <3>5 DEF Growth
    <3>8. UtHashTypeOK'
      <4>1. new_buckets' \in [0..(m - 1) -> Bucket] /\ moved' \in [0..(m - 1) -> Seq(Item)]
        BY <3>1, <3>2, EmptyReady
      <4>2. QED BY <4>1, <3>7, <1>20, <2>1 DEF m
    <3>9. RestOK'
      <4>1. grow' # NULL
        BY <3>7, Basics
      <4>2. QED BY <4>1 DEF RestOK
    <3>10. OldOK(tbl.num_buckets)'
      <4>1. ASSUME NEW c \in 0..(n - 1)
            PROVE  ~(c < 0) /\ Forward(chain'[c], buckets'[c].hh_head, hh_next')
        <5>1. chain'[c] \in Seq(Item)
          BY <1>10
        <5>2. Linked(chain'[c], buckets'[c].hh_head, hh_next', hh_prev')
          BY <1>4, <1>17 DEF LinkedBuckets, Linked
        <5>3. QED BY <5>1, <5>2, LinkedIs
      <4>2. QED BY <4>1, <1>4, <3>7 DEF OldOK, Forward
    <3>11. LinkedBuckets(new_buckets, moved, 2 * tbl.num_buckets)'
      <4>1. ASSUME NEW c \in 0..(m - 1)
            PROVE  Linked(moved'[c], new_buckets'[c].hh_head, hh_next', hh_prev')
                   /\ new_buckets'[c].count = Len(moved'[c])
        <5>1. moved'[c] = <<>> /\ new_buckets'[c].hh_head = NULL /\ new_buckets'[c].count = 0
          BY <3>1 DEF EmptyBuckets, EmptyChains
        <5>2. Len(<<>>) = 0 /\ DOMAIN <<>> = {}
          OBVIOUS
        <5>3. QED BY <5>1, <5>2 DEF Linked
      <4>2. QED BY <4>1, <1>4 DEF LinkedBuckets, Linked, m
    <3>12. MultOK(new_buckets, 2 * tbl.num_buckets, grow.ideal)'
      <4>1. ASSUME NEW c \in 0..(m - 1)
            PROVE  new_buckets'[c].expand_mult = 0 /\ ~(new_buckets'[c].count > ideal)
        <5>1. new_buckets'[c].expand_mult = 0 /\ new_buckets'[c].count = 0
          BY <3>1 DEF EmptyBuckets
        <5>2. QED BY <5>1, <3>5
      <4>2. QED BY <4>1, <1>4, <3>7 DEF MultOK, m
    <3>13. \A c \in 0..(m - 1) : IsInjective(moved'[c]) /\ ToSet(moved'[c]) = {}
      <4>1. ASSUME NEW c \in 0..(m - 1) PROVE moved'[c] = <<>>
        BY <3>1 DEF EmptyChains
      <4>2. DOMAIN <<>> = {}
        OBVIOUS
      <4>3. IsInjective(<<>>) /\ ToSet(<<>>) = {}
        BY <4>2 DEF IsInjective, ToSet
      <4>4. QED BY <4>1, <4>3
    <3>14. Placed(moved, 2 * tbl.num_buckets)'
      BY <3>13, <1>4 DEF Placed, m
    <3>15. (\A j \in Item : key[j] # NULL =>
             (IsIn(j, chain, tbl.num_buckets) <=> ~IsIn(j, moved, 2 * tbl.num_buckets)))'
      <4>1. ASSUME NEW j \in Item, key'[j] # NULL PROVE j \notin ToSet(moved'[ToBkt(hashv'[j], m)])
        <5>1. hashv'[j] \in Nat
          <6>1. CASE j = i
            BY <6>1, <1>3, <1>12
          <6>2. CASE j # i
            <7>1. key[j] # NULL /\ hashv'[j] = hashv[j]
              BY <6>2, <4>1, <1>12
            <7>2. key[j] \in Key /\ hashv[j] = Hash[key[j]]
              BY <7>1 DEF UtHashTypeOK
            <7>3. QED BY <7>1, <7>2, Basics
          <6>3. QED BY <6>1, <6>2
        <5>2. ToBkt(hashv'[j], m) \in 0..(m - 1)
          BY <5>1, <3>2, Basics
        <5>3. QED BY <5>2, <3>13
      <4>2. QED BY <4>1, <1>4, <1>19 DEF IsIn, m
    <3>16. (Total(Lens(chain, tbl.num_buckets), tbl.num_buckets)
            + Total(Lens(moved, 2 * tbl.num_buckets), 2 * tbl.num_buckets) = tbl.num_items)'
      <4>1. Total(Lens(moved', m), m) = 0
        BY <3>1, <3>2, EmptyReady
      <4>2. QED BY <4>1, <1>3, <1>4, <1>21 DEF m
    <3>17. (/\ ~tbl.noexpand /\ grow.ideal <= Thresh
            /\ tbl.num_items <= (2 * tbl.num_buckets) * grow.ideal)'
      BY <3>3, <3>5, <3>7, <1>4 DEF m, items
    <3>18. GrowOK'
      BY <3>10, <3>11, <3>12, <3>14, <3>15, <3>16, <3>17, <1>18 DEF GrowOK
    <3>19. QED BY <3>8, <3>9, <3>18
  <2>5. QED BY <2>3, <2>4
<1>23. FindOK'
  BY DEF FindOK
<1>24. QED BY <1>16, <1>22, <1>23

----------------------------------------------------------------------------
(* Deleting. *)

(* Unlink takes out the one place that the element is at. *)
LEMMA UnlinkIs ==
  ASSUME NEW s \in Seq(Item), IsInjective(s), NEW i \in ToSet(s)
  PROVE  \E p \in 1..Len(s) :
           /\ s[p] = i /\ Unlink(s, i) = RemoveAt(s, p)
           /\ Unlink(s, i) \in Seq(Item)
           /\ Len(Unlink(s, i)) = Len(s) - 1 /\ Len(s) > 0
           /\ \A j \in 1..(Len(s) - 1) : Unlink(s, i)[j] = IF j < p THEN s[j] ELSE s[j + 1]
           /\ ToSet(Unlink(s, i)) = ToSet(s) \ {i}
           /\ IsInjective(Unlink(s, i))
<1>1. PICK p \in 1..Len(s) : s[p] = i
  BY SeqFacts
<1>2. DOMAIN s = 1..Len(s) /\ \A m, n \in 1..Len(s) : s[m] = s[n] => m = n
  BY SeqFacts
<1>3. (CHOOSE n \in DOMAIN s : s[n] = i) = p
  BY <1>1, <1>2
<1>4. Unlink(s, i) = RemoveAt(s, p)
  BY <1>3 DEF Unlink
<1> DEFINE u == RemoveAt(s, p)
<1>5. /\ u \in Seq(Item) /\ Len(u) = Len(s) - 1 /\ Len(s) > 0
      /\ \A j \in 1..(Len(s) - 1) : u[j] = IF j < p THEN s[j] ELSE s[j + 1]
      /\ ToSet(u) = ToSet(s) \ {s[p]}
      /\ IsInjective(u)
  BY ToSetRemoveAt
<1> HIDE DEF u
<1>6. Unlink(s, i) = u
  BY <1>4 DEF u
<1>7. QED BY <1>1, <1>4, <1>5, <1>6

(* What all ways of deleting a pair have in common. *)
LEMMA DeleteFacts ==
  ASSUME IInv, NEW i \in Item, key[i] # NULL, HashDelete(i)
  PROVE  /\ tbl # NULL /\ i \in ToSet(order)
         /\ key' \in [Item -> Key \cup {NULL}] /\ hashv' \in [Item -> Nat \cup {JUNK}]
         /\ key'[i] = NULL
         /\ \A j \in Item : j # i => key'[j] = key[j] /\ hashv'[j] = hashv[j]
         /\ order' = Unlink(order, i)
         /\ order' \in Seq(Item) /\ Len(order') = Len(order) - 1 /\ IsInjective(order')
         /\ \A j \in Item : key'[j] # NULL <=> j \in ToSet(order')
         /\ grow' = grow /\ new_buckets' = new_buckets /\ moved' = moved
<1> USE DEF IInv
<1>1. /\ hashv' = [hashv EXCEPT ![i] = JUNK]
      /\ key' = [key EXCEPT ![i] = NULL]
      /\ order' = Unlink(order, i)
      /\ grow' = grow /\ new_buckets' = new_buckets /\ moved' = moved
  BY DEF HashDelete, expansion
<1>2. order \in Seq(Item) /\ IsInjective(order) /\ i \in ToSet(order)
  BY DEF UtHashTypeOK, AppOK
<1>3. tbl # NULL
  BY <1>2, SeqFacts DEF AppOK
<1>4. /\ key' \in [Item -> Key \cup {NULL}] /\ hashv' \in [Item -> Nat \cup {JUNK}]
      /\ key'[i] = NULL
      /\ \A j \in Item : j # i => key'[j] = key[j] /\ hashv'[j] = hashv[j]
  BY <1>1 DEF UtHashTypeOK
<1>5. /\ order' \in Seq(Item) /\ Len(order') = Len(order) - 1
      /\ ToSet(order') = ToSet(order) \ {i} /\ IsInjective(order')
  BY <1>1, <1>2, UnlinkIs
<1>6. \A j \in Item : key'[j] # NULL <=> j \in ToSet(order')
  BY <1>4, <1>5 DEF AppOK
<1>7. QED BY <1>1, <1>2, <1>3, <1>4, <1>5, <1>6

(* HASH_DELETE of the only pair takes the table with it. *)
LEMMA DeleteLastInv ==
  ASSUME IInv, grow = NULL, dying' = dying, find' = NULL,
         NEW i \in Item, key[i] # NULL, HashDelete(i), HashDeleteLast(i)
  PROVE  IInv'
<1> USE DEF IInv
<1>1. /\ prev[i] = NULL /\ next[i] = NULL
      /\ head' = NULL /\ tbl' = NULL /\ buckets' = <<>> /\ chain' = <<>>
      /\ next' = [next EXCEPT ![i] = JUNK] /\ prev' = [prev EXCEPT ![i] = JUNK]
      /\ hh_next' = [hh_next EXCEPT ![i] = JUNK] /\ hh_prev' = [hh_prev EXCEPT ![i] = JUNK]
  BY DEF HashDeleteLast
<1>2. /\ order \in Seq(Item) /\ IsInjective(order) /\ Linked(order, head, next, prev)
      /\ next \in Links /\ prev \in Links /\ hh_next \in Links /\ hh_prev \in Links
  BY DEF UtHashTypeOK, AppOK, Links
<1>3. PICK p \in 1..Len(order) : order[p] = i
  BY <1>2, DeleteFacts, SeqFacts
<1>4. p = 1 /\ p = Len(order)
  <2> DEFINE f2 == [SetIf(next, prev[i], next[i]) EXCEPT ![i] = JUNK]
             p2 == [SetIf(prev, next[i], prev[i]) EXCEPT ![i] = JUNK]
  <2>1. (prev[i] = NULL <=> p = 1) /\ (next[i] = NULL <=> p = Len(order))
    <3>1. f2 = [SetIf(next, prev[i], next[i]) EXCEPT ![i] = JUNK]
          /\ p2 = [SetIf(prev, next[i], prev[i]) EXCEPT ![i] = JUNK]
      OBVIOUS
    <3> HIDE DEF f2, p2
    <3>2. TakenOut(order, head, next, prev, p, i, f2, p2)
      BY <3>1, <1>2, <1>3 DEF TakenOut
    <3>3. QED BY <3>2, LinkedRemove
  <2>2. QED BY <2>1, <1>1
<1>5. order' = <<>>
  <2>1. order' \in Seq(Item) /\ Len(order') = 0
    BY <1>4, DeleteFacts
  <2>2. QED BY <2>1, SeqFacts
<1>6. \A j \in Item : key'[j] = NULL
  <2>1. ToSet(order') = {}
    BY <1>5, DeleteFacts, SeqFacts
  <2>2. QED BY <2>1, DeleteFacts
<1>7. UtHashTypeOK'
  <2>1. next' \in Links /\ prev' \in Links /\ hh_next' \in Links /\ hh_prev' \in Links
    BY <1>1, <1>2 DEF Links
  <2>2. dying' \in BOOLEAN /\ grow' = NULL
    BY DeleteFacts DEF UtHashTypeOK
  <2>3. QED BY <2>1, <2>2, <1>1, <1>6, DeleteFacts DEF UtHashTypeOK, Links
<1>8. AppOK'
  <2>1. Len(<<>>) = 0 /\ DOMAIN <<>> = {}
    OBVIOUS
  <2>2. Linked(order', head', next', prev')
    BY <2>1, <1>1, <1>5 DEF Linked
  <2>3. QED BY <2>2, <1>1, <1>5, DeleteFacts DEF AppOK, Linked
<1>9. RestOK' /\ GrowOK'
  BY <1>1, DeleteFacts DEF RestOK, GrowOK
<1>10. FindOK'
  BY DEF FindOK
<1>11. QED BY <1>7, <1>8, <1>9, <1>10

(* HASH_DELETE of one of several: its list and its bucket close up behind it,
   and no share gets larger.                                                  *)
LEMMA DeleteOneInv ==
  ASSUME IInv, grow = NULL, dying' = dying, find' = NULL,
         NEW i \in Item, key[i] # NULL, HashDelete(i), HashDeleteOne(i)
  PROVE  IInv'
<1> USE DEF IInv
<1> DEFINE n == tbl.num_buckets
           b == ToBkt(hashv[i], n)
           top == buckets[b].hh_head
           top2 == IF top = i THEN hh_next[i] ELSE top
           count == buckets[b].count
           tail2 == IF tbl.tail = i THEN prev[i] ELSE tbl.tail
           n2 == [SetIf(next, prev[i], next[i]) EXCEPT ![i] = JUNK]
           p2 == [SetIf(prev, next[i], prev[i]) EXCEPT ![i] = JUNK]
           hn2 == [SetIf(hh_next, hh_prev[i], hh_next[i]) EXCEPT ![i] = JUNK]
           hp2 == [SetIf(hh_prev, hh_next[i], hh_prev[i]) EXCEPT ![i] = JUNK]
<1>1. /\ prev[i] # NULL \/ next[i] # NULL
      /\ tbl' = [tbl EXCEPT !.tail = tail2, !.num_items = @ - 1]
      /\ head' = IF prev[i] = NULL THEN next[i] ELSE head
      /\ next' = n2 /\ prev' = p2
      /\ buckets' = [buckets EXCEPT ![b].count = @ - 1, ![b].hh_head = IF @ = i THEN hh_next[i] ELSE @]
      /\ hh_next' = hn2 /\ hh_prev' = hp2
      /\ chain' = [chain EXCEPT ![b] = Unlink(@, i)]
  BY DEF HashDeleteOne, DelInBkt
<1> HIDE DEF n2, p2, hn2, hp2
<1>2. /\ tbl # NULL /\ i \in ToSet(order) /\ order' = Unlink(order, i)
      /\ order' \in Seq(Item) /\ Len(order') = Len(order) - 1 /\ IsInjective(order')
      /\ key' \in [Item -> Key \cup {NULL}] /\ hashv' \in [Item -> Nat \cup {JUNK}]
      /\ key'[i] = NULL
      /\ \A j \in Item : j # i => key'[j] = key[j] /\ hashv'[j] = hashv[j]
      /\ \A j \in Item : key'[j] # NULL <=> j \in ToSet(order')
      /\ grow' = NULL
  BY DeleteFacts
<1>3. /\ tbl \in Table /\ n \in Nat \ {0} /\ tbl.num_items \in Nat /\ tbl.tail \in Item
      /\ hashv[i] \in Nat /\ b \in 0..(n - 1)
      /\ buckets \in [0..(n - 1) -> Bucket] /\ chain \in [0..(n - 1) -> Seq(Item)]
      /\ count \in Nat /\ buckets[b].expand_mult \in Nat
  BY <1>2, TableIs DEF UtHashTypeOK
<1>4. /\ order \in Seq(Item) /\ IsInjective(order) /\ Linked(order, head, next, prev)
      /\ next \in Links /\ prev \in Links /\ hh_next \in Links /\ hh_prev \in Links
      /\ tbl.tail = order[Len(order)] /\ tbl.num_items = Len(order)
  BY <1>2 DEF UtHashTypeOK, AppOK, Links
<1>5. PICK p \in 1..Len(order) : /\ order[p] = i /\ order' = RemoveAt(order, p)
                                 /\ \A j \in 1..(Len(order) - 1) :
                                      order'[j] = IF j < p THEN order[j] ELSE order[j + 1]
  BY <1>2, <1>4, UnlinkIs
<1>6. /\ n2 \in Links /\ p2 \in Links
      /\ next[i] \in Item \cup {NULL} /\ prev[i] \in Item \cup {NULL}
      /\ prev[i] = NULL <=> p = 1
      /\ next[i] = NULL <=> p = Len(order)
      /\ \A j \in Item \ {i} : /\ next[j] # JUNK => n2[j] # JUNK
                               /\ prev[j] # JUNK => p2[j] # JUNK
      /\ Linked(order', IF p = 1 THEN next[i] ELSE head, n2, p2)
  <2>1. TakenOut(order, head, next, prev, p, i, n2, p2)
    BY <1>4, <1>5 DEF TakenOut, n2, p2
  <2>2. /\ n2 \in Links /\ p2 \in Links
        /\ next[i] \in Item \cup {NULL} /\ prev[i] \in Item \cup {NULL}
        /\ prev[i] = NULL <=> p = 1
        /\ next[i] = NULL <=> p = Len(order)
        /\ \A j \in Item \ {i} : /\ next[j] # JUNK => n2[j] # JUNK
                                 /\ prev[j] # JUNK => p2[j] # JUNK
        /\ Linked(RemoveAt(order, p), IF p = 1 THEN next[i] ELSE head, n2, p2)
    BY <2>1, LinkedRemove
  <2>3. QED BY <2>2, <1>5
<1>7. Linked(order', head', next', prev')
  BY <1>1, <1>6
<1>8. Len(order) \in Nat /\ Len(order) > 1
  <2>1. Len(order) \in Nat
    BY <1>4, SeqFacts
  <2>2. Len(order) # 1
    <3>1. SUFFICES ASSUME Len(order) = 1 PROVE FALSE
      OBVIOUS
    <3>2. p = 1 /\ p = Len(order)
      BY <3>1
    <3>3. prev[i] = NULL /\ next[i] = NULL
      BY <3>2, <1>6
    <3>4. prev[i] # NULL \/ next[i] # NULL
      BY DEF HashDeleteOne
    <3>5. QED BY <3>3, <3>4
  <2>3. Len(order) > 0
    BY <2>1, <1>5
  <2>4. \A x \in Nat : x # 1 /\ x > 0 => x > 1
    OBVIOUS
  <2>5. QED BY ONLY <2>1, <2>2, <2>3, <2>4
<1>9. order' # <<>> /\ tail2 \in Item /\ tail2 = order'[Len(order')] /\ tail2 \in ToSet(order')
  <2>1. Len(order') \in 1..(Len(order) - 1) /\ Len(order') = Len(order) - 1
    BY <1>2, <1>8
  <2>2. order' # <<>>
    BY <2>1, <1>2, SeqFacts
  <2>3. tail2 = order'[Len(order')]
    <3>1. CASE p = Len(order)
      <4>1. prev[i] = order[p - 1]
        <5>1. Backward(order, prev) /\ p # 1
          BY <3>1, <1>4, <1>8, LinkedIs
        <5>2. QED BY <5>1, <1>5 DEF Backward
      <4>2. order'[Len(order')] = order[p - 1]
        BY <3>1, <2>1, <1>5, <1>8
      <4>3. QED BY <4>1, <4>2, <3>1, <1>4, <1>5
    <3>2. CASE p # Len(order)
      <4>1. order[Len(order)] # i
        <5>1. Len(order) \in 1..Len(order)
          BY <1>8
        <5>2. QED BY <5>1, <3>2, <1>4, <1>5, SeqFacts
      <4>2. order'[Len(order')] = order[Len(order)]
        <5>1. ~(Len(order') < p) /\ Len(order') + 1 = Len(order)
          BY <3>2, <2>1, <1>8
        <5>2. QED BY <5>1, <2>1, <1>5
      <4>3. QED BY <4>1, <4>2, <1>4
    <3>3. QED BY <3>1, <3>2
  <2>4. order'[Len(order')] \in Item /\ order'[Len(order')] \in ToSet(order')
    <3>1. Len(order') \in 1..Len(order')
      BY <2>1
    <3>2. QED BY <3>1, <1>2, SeqFacts
  <2>5. QED BY <2>2, <2>3, <2>4
<1> HIDE DEF tail2
<1>10. /\ tbl' \in Table /\ tbl'.num_buckets = n /\ tbl'.tail = tail2
       /\ tbl'.num_items = tbl.num_items - 1 /\ tbl'.noexpand = tbl.noexpand
  <2> DEFINE x == tbl.num_items - 1
  <2>1. x \in Nat /\ tbl' = [tbl EXCEPT !.tail = tail2, !.num_items = x]
    BY <1>1, <1>3, <1>4, <1>8
  <2> HIDE DEF x
  <2>2. tbl' \in Table /\ tbl'.num_buckets = n /\ tbl'.tail = tail2
        /\ tbl'.num_items = x /\ tbl'.noexpand = tbl.noexpand
    BY <2>1, <1>3, <1>9 DEF Table
  <2>3. QED BY <2>2 DEF x
<1>11. AppOK'
  <2>1. tbl' # NULL
    BY <1>10, Basics
  <2>2. QED BY <2>1, <1>2, <1>4, <1>7, <1>9, <1>10 DEF AppOK, Linked
<1>12. /\ LinkedBuckets(buckets, chain, n) /\ Placed(chain, n)
       /\ \A j \in Item : key[j] # NULL => IsIn(j, chain, n)
       /\ Total(Lens(chain, n), n) = tbl.num_items
       /\ ~tbl.noexpand => Bounded(buckets, n) /\ Total(Shares(buckets, n), n) <= n
  BY <1>2 DEF RestOK
<1> HIDE DEF n, b, top, count
<1>13. /\ chain[b] \in Seq(Item) /\ IsInjective(chain[b]) /\ i \in ToSet(chain[b])
       /\ Linked(chain[b], top, hh_next, hh_prev) /\ count = Len(chain[b])
  BY <1>3, <1>12 DEF LinkedBuckets, Placed, IsIn, b, top, count
<1>14. PICK q \in 1..Len(chain[b]) :
         /\ chain[b][q] = i /\ Unlink(chain[b], i) = RemoveAt(chain[b], q)
         /\ Unlink(chain[b], i) \in Seq(Item)
         /\ Len(Unlink(chain[b], i)) = Len(chain[b]) - 1 /\ Len(chain[b]) > 0
         /\ ToSet(Unlink(chain[b], i)) = ToSet(chain[b]) \ {i}
         /\ IsInjective(Unlink(chain[b], i))
  BY <1>13, UnlinkIs
<1>15. /\ hn2 \in Links /\ hp2 \in Links
       /\ hh_next[i] \in Item \cup {NULL}
       /\ \A j \in Item \ {i} : /\ hh_next[j] # JUNK => hn2[j] # JUNK
                                /\ hh_prev[j] # JUNK => hp2[j] # JUNK
       /\ Linked(Unlink(chain[b], i), top2, hn2, hp2)
       /\ Apart(hh_next, hn2, ToSet(chain[b])) /\ Apart(hh_prev, hp2, ToSet(chain[b]))
  <2> DEFINE s == chain[b]
  <2>1. /\ hn2 = [SetIf(hh_next, hh_prev[i], hh_next[i]) EXCEPT ![i] = JUNK]
        /\ hp2 = [SetIf(hh_prev, hh_next[i], hh_prev[i]) EXCEPT ![i] = JUNK]
    BY DEF hn2, hp2
  <2>2. /\ s \in Seq(Item) /\ IsInjective(s) /\ Linked(s, top, hh_next, hh_prev)
        /\ q \in 1..Len(s) /\ i = s[q]
    BY <1>13, <1>14
  <2>a. TakenOut(s, top, hh_next, hh_prev, q, i, hn2, hp2)
    BY <2>1, <2>2, <1>4 DEF TakenOut
  <2> HIDE DEF s
  <2>3. /\ hn2 \in Links /\ hp2 \in Links
        /\ hh_next[i] \in Item \cup {NULL}
        /\ top = i <=> q = 1
        /\ \A j \in Item \ {i} : /\ hh_next[j] # JUNK => hn2[j] # JUNK
                                 /\ hh_prev[j] # JUNK => hp2[j] # JUNK
        /\ Linked(RemoveAt(s, q), IF q = 1 THEN hh_next[i] ELSE top, hn2, hp2)
        /\ Apart(hh_next, hn2, ToSet(s)) /\ Apart(hh_prev, hp2, ToSet(s))
    BY <2>a, LinkedRemove
  <2>4. QED BY <2>3, <1>14 DEF s
<1>16. top2 \in Item \cup {NULL}
  BY <1>14, <1>15, FirstIs, LinkedIs
<1> HIDE DEF top2
<1>17. n \in Nat \ {0} /\ b \in 0..(n - 1)
  BY <1>3 DEF n, b
<1>18. /\ chain' \in [0..(n - 1) -> Seq(Item)]
       /\ chain'[b] = Unlink(chain[b], i)
       /\ \A c \in 0..(n - 1) : c # b => chain'[c] = chain[c]
  BY <1>1, <1>3, <1>14, <1>17 DEF n, b
<1>19. /\ buckets' \in [0..(n - 1) -> Bucket]
       /\ buckets'[b].hh_head = top2 /\ buckets'[b].count = count - 1 /\ count - 1 \in Nat
       /\ buckets'[b].expand_mult = buckets[b].expand_mult
       /\ \A c \in 0..(n - 1) : c # b => buckets'[c] = buckets[c]
  <2> DEFINE x == count - 1
             r == [buckets[b] EXCEPT !.count = x, !.hh_head = top2]
  <2>1. x \in Nat
    BY <1>13, <1>14, SeqFacts
  <2>2. buckets \in [0..(n - 1) -> Bucket]
    BY <1>3 DEF n
  <2>3. buckets' = [buckets EXCEPT ![b] = r]
    BY <2>2, <1>1, <1>17 DEF count, top2, top, b
  <2> HIDE DEF x
  <2>4. r \in Bucket /\ r.hh_head = top2 /\ r.count = x /\ r.expand_mult = buckets[b].expand_mult
    BY <2>1, <2>2, <1>16, <1>17 DEF Bucket
  <2> HIDE DEF r
  <2>5. /\ buckets' \in [0..(n - 1) -> Bucket] /\ buckets'[b] = r
        /\ \A c \in 0..(n - 1) : c # b => buckets'[c] = buckets[c]
    BY <2>2, <2>3, <2>4, <1>17
  <2>6. QED BY <2>1, <2>4, <2>5 DEF x
<1>20. UtHashTypeOK'
  <2>1. head' \in Item \cup {NULL} /\ head' # NULL
    <3>1. Forward(order', head', next')
      BY <1>2, <1>7, LinkedIs
    <3>2. QED BY <3>1, <1>2, <1>9, FirstIs
  <2>2. tbl' # NULL
    BY <1>10, Basics
  <2>3. key'[tbl'.tail] # NULL
    BY <1>2, <1>9, <1>10
  <2>4. ASSUME NEW j \in Item, key'[j] # NULL
        PROVE  /\ JUNK \notin {prev'[j], next'[j], hh_prev'[j], hh_next'[j]}
               /\ hashv'[j] = Hash[key'[j]]
    <3>1. j # i /\ key[j] # NULL
      BY <2>4, <1>2
    <3>2. /\ prev[j] # JUNK /\ next[j] # JUNK /\ hh_prev[j] # JUNK /\ hh_next[j] # JUNK
          /\ hashv[j] = Hash[key[j]]
      BY <3>1 DEF UtHashTypeOK
    <3>3. QED BY <3>1, <3>2, <1>1, <1>2, <1>6, <1>15
  <2>5. dying' \in BOOLEAN
    BY DEF UtHashTypeOK
  <2>6. prev' \in Links /\ next' \in Links /\ hh_prev' \in Links /\ hh_next' \in Links
    BY <1>1, <1>6, <1>15
  <2>7. QED BY <2>1, <2>2, <2>3, <2>4, <2>5, <2>6, <1>2, <1>10, <1>18, <1>19
            DEF UtHashTypeOK, Links
<1>21. LinkedBuckets(buckets, chain, tbl.num_buckets)'
  <2>1. ASSUME NEW c \in 0..(n - 1)
        PROVE  Linked(chain'[c], buckets'[c].hh_head, hh_next', hh_prev')
               /\ buckets'[c].count = Len(chain'[c])
    <3>1. CASE c = b
      BY <3>1, <1>1, <1>13, <1>14, <1>15, <1>18, <1>19
    <3>2. CASE c # b
      <4>1. /\ chain'[c] = chain[c] /\ buckets'[c] = buckets[c] /\ chain[c] \in Seq(Item)
            /\ Linked(chain[c], buckets[c].hh_head, hh_next, hh_prev)
            /\ buckets[c].count = Len(chain[c])
        BY <3>2, <1>3, <1>12, <1>18, <1>19 DEF LinkedBuckets, n
      <4>2. ToSet(chain[c]) \cap ToSet(chain[b]) = {}
        BY <3>2, <1>12, <1>17, PlacedApart
      <4>3. Linked(chain[c], buckets[c].hh_head, hh_next', hh_prev')
        BY <4>1, <4>2, <1>1, <1>15, LinkedFrame
      <4>4. QED BY <4>1, <4>3
    <3>3. QED BY <3>1, <3>2
  <2>2. QED BY <2>1, <1>10 DEF LinkedBuckets, Linked
<1>22. Placed(chain, tbl.num_buckets)'
  <2>1. ASSUME NEW c \in 0..(n - 1)
        PROVE  IsInjective(chain'[c]) /\ ToSet(chain'[c]) \subseteq ToSet(chain[c]) \ {i}
    <3>1. CASE c = b
      BY <3>1, <1>14, <1>18
    <3>2. CASE c # b
      BY <3>2, <1>12, <1>18, <1>13, <1>17 DEF Placed
    <3>3. QED BY <3>1, <3>2
  <2>2. ASSUME NEW c \in 0..(n - 1), NEW j \in ToSet(chain'[c])
        PROVE  key'[j] # NULL /\ ToBkt(hashv'[j], n) = c
    <3>1. j \in ToSet(chain[c]) /\ j # i /\ j \in Item
      BY <2>1, <2>2, <1>3, SeqFacts DEF n
    <3>2. key[j] # NULL /\ ToBkt(hashv[j], n) = c
      BY <3>1, <1>12 DEF Placed
    <3>3. QED BY <3>1, <3>2, <1>2
  <2>3. QED BY <2>1, <2>2, <1>10 DEF Placed
<1>23. ASSUME NEW j \in Item, key'[j] # NULL PROVE j \in ToSet(chain'[ToBkt(hashv'[j], n)])
  <2> DEFINE c == ToBkt(hashv[j], n)
  <2>1. j # i /\ key[j] # NULL /\ hashv'[j] = hashv[j]
    BY <1>2, <1>23
  <2>2. c \in 0..(n - 1)
    BY <2>1, <1>2, TableIs DEF n
  <2>3. j \in ToSet(chain[c])
    BY <2>1, <1>12 DEF IsIn
  <2>4. j \in ToSet(chain'[c])
    BY <2>1, <2>2, <2>3, <1>14, <1>18
  <2>5. QED BY <2>1, <2>4
<1>24. Total(Lens(chain', n), n) = tbl.num_items - 1
  <2> DEFINE C == chain'
             D == chain
  <2>1. /\ \A c \in 0..(n - 1) : C[c] \in Seq(Item) /\ (c # b => D[c] = C[c])
        /\ Len(D[b]) = Len(C[b]) + 1
    <3>1. Len(chain'[b]) = Len(chain[b]) - 1 /\ Len(chain[b]) \in Nat
      BY <1>13, <1>14, <1>18, SeqFacts
    <3>2. Len(chain[b]) = Len(chain'[b]) + 1
      BY <3>1
    <3>3. QED BY <3>2, <1>18
  <2> HIDE DEF C, D
  <2>2. /\ n \in Nat /\ b \in 0..(n - 1) /\ Len(D[b]) = Len(C[b]) + 1
        /\ \A c \in 0..(n - 1) : C[c] \in Seq(Item)
        /\ \A c \in 0..(n - 1) : c # b => D[c] = C[c]
    BY <1>17, <2>1
  <2>3. Total(Lens(C, n), n) \in Nat /\ Total(Lens(D, n), n) = Total(Lens(C, n), n) + 1
    BY ONLY <2>2, LensMore
  <2>4. QED BY <2>3, <1>12 DEF C, D
<1>25. ASSUME ~tbl'.noexpand
       PROVE  Bounded(buckets', n) /\ Total(Shares(buckets', n), n) <= n
  <2> DEFINE f == Shares(buckets', n)
             g == Shares(buckets, n)
  <2>0. Thresh \in Nat \ {0} /\ buckets \in [0..(n - 1) -> Bucket]
    BY <1>3, HashAssumption DEF n
  <2>1. Bounded(buckets, n) /\ Total(g, n) <= n
    BY <1>10, <1>12, <1>25
  <2>2. ASSUME NEW c \in 0..(n - 1)
        PROVE  /\ f[c] \in Nat /\ g[c] \in Nat /\ f[c] * 1 <= g[c]
               /\ buckets'[c].count <= (buckets'[c].expand_mult + 1) * Thresh
    <3> DEFINE x == buckets[c].count
               y == buckets'[c].count
               m == buckets[c].expand_mult
               u == x \div Thresh
               w == y \div Thresh
    <3>1. /\ x \in Nat /\ y \in Nat /\ m \in Nat /\ y <= x /\ buckets'[c].expand_mult = m
      <4>1. x \in Nat /\ m \in Nat /\ y \in Nat
        BY <2>0, <1>19 DEF Bucket
      <4>2. CASE c = b
        BY <4>1, <4>2, <1>19 DEF count
      <4>3. CASE c # b
        BY <4>1, <4>3, <1>19
      <4>4. QED BY <4>1, <4>2, <4>3
    <3>2. f[c] = (IF m > w THEN m ELSE w) /\ g[c] = IF m > u THEN m ELSE u
      BY <3>1 DEF Shares, Share
    <3>3. x <= (m + 1) * Thresh
      BY <2>1 DEF Bounded
    <3> HIDE DEF x, y, m, f, g
    <3>4. /\ u \in Nat /\ w \in Nat /\ Thresh * w <= y /\ x < Thresh * u + Thresh
      BY <3>1, <2>0, DivMod
    <3> HIDE DEF u, w
    <3>5. w <= u
      <4>1. Thresh * w <= x
        <5>1. Thresh * w \in Nat
          BY <3>4, <2>0
        <5>2. QED BY <5>1, <3>1, <3>4
      <4>2. Thresh <= Thresh
        BY <2>0
      <4>3. QED BY <4>1, <4>2, <3>1, <3>4, <2>0, QuotientLe
    <3>6. f[c] \in Nat /\ g[c] \in Nat /\ f[c] <= g[c]
      BY <3>1, <3>2, <3>4, <3>5
    <3>7. \A z \in Nat : z * 1 = z
      OBVIOUS
    <3>8. y <= (m + 1) * Thresh
      <4>1. (m + 1) * Thresh \in Nat
        BY <3>1, <2>0
      <4>2. QED BY <4>1, <3>1, <3>3
    <3>9. QED BY <3>1, <3>6, <3>7, <3>8 DEF y
  <2> HIDE DEF f, g
  <2>3. Counts(f, n) /\ Counts(g, n)
    BY <2>2 DEF Counts
  <2>4. Total(f, n) * 1 <= Total(g, n)
    BY <1>17, <2>2, <2>3, TotalLe
  <2>5. Total(f, n) \in Nat /\ Total(g, n) \in Nat
    BY <1>17, <2>3, TotalStep
  <2>6. Total(f, n) <= n
    BY <1>17, <2>1, <2>4, <2>5
  <2>7. Bounded(buckets', n)
    BY <2>2 DEF Bounded
  <2>8. QED BY <2>6, <2>7 DEF f
<1>26. RestOK'
  <2>1. (\A j \in Item : key[j] # NULL => IsIn(j, chain, tbl.num_buckets))'
    BY <1>10, <1>23 DEF IsIn
  <2>2. (Total(Lens(chain, tbl.num_buckets), tbl.num_buckets) = tbl.num_items)'
    BY <1>10, <1>24
  <2>3. (~tbl.noexpand => /\ Bounded(buckets, tbl.num_buckets)
                          /\ Total(Shares(buckets, tbl.num_buckets), tbl.num_buckets)
                               <= tbl.num_buckets)'
    BY <1>25, <1>10 DEF Bounded
  <2>4. QED BY <2>1, <2>2, <2>3, <1>21, <1>22 DEF RestOK
<1>27. GrowOK' /\ FindOK'
  BY <1>2 DEF GrowOK, FindOK
<1>28. QED BY <1>11, <1>20, <1>26, <1>27

----------------------------------------------------------------------------
(* Every step. *)

(* HASH_DELETE, of the last pair or of one of several, preserves the invariant. *)
LEMMA HashDeleteInv ==
  ASSUME IInv, grow = NULL, dying' = dying, find' = NULL,
         NEW i \in Item, key[i] # NULL, HashDelete(i)
  PROVE  IInv'
<1>1. HashDeleteLast(i) \/ HashDeleteOne(i)
  BY DEF HashDelete
<1>2. QED BY <1>1, DeleteLastInv, DeleteOneInv

(* The invariant holds of a map that nothing was added to yet. *)
LEMMA InitInv == Init => IInv
<1> SUFFICES ASSUME Init PROVE IInv
  OBVIOUS
<1>1. /\ head = NULL /\ tbl = NULL /\ grow = NULL /\ find = NULL /\ dying = FALSE
      /\ order = <<>> /\ \A i \in Item : key[i] = NULL
      /\ prev = [i \in Item |-> JUNK] /\ next = [i \in Item |-> JUNK]
      /\ hh_prev = [i \in Item |-> JUNK] /\ hh_next = [i \in Item |-> JUNK]
      /\ hashv = [i \in Item |-> JUNK] /\ key = [i \in Item |-> NULL]
  BY DEF Init
<1>2. order \in Seq(Item) /\ Len(order) = 0 /\ DOMAIN order = {} /\ ToSet(order) = {}
  <2>1. order \in Seq(Item)
    BY <1>1
  <2>2. Len(order) = 0 /\ ToSet(order) = {} /\ DOMAIN order = 1..Len(order)
    BY <1>1, <2>1, SeqFacts
  <2>3. QED BY <2>1, <2>2
<1>3. UtHashTypeOK
  BY <1>1, <1>2 DEF UtHashTypeOK
<1>4. AppOK
  <2>1. IsInjective(order)
    BY <1>2 DEF IsInjective
  <2>2. Linked(order, head, next, prev)
    BY <1>1, <1>2 DEF Linked
  <2>3. QED BY <2>1, <2>2, <1>1, <1>2 DEF AppOK
<1>5. RestOK /\ GrowOK /\ FindOK
  BY <1>1 DEF RestOK, GrowOK, FindOK
<1>6. QED BY <1>3, <1>4, <1>5 DEF IInv

(* What a find in progress says of the rest. *)
LEMMA Finding ==
  ASSUME IInv, find # NULL
  PROVE  /\ find.key \in Key /\ find.out \in Item \cup {NULL}
         /\ grow = NULL /\ ~dying
         /\ Found => find.out \in Item /\ key[find.out] # NULL
<1>1. find \in Search /\ ~dying /\ grow = NULL
  BY DEF IInv, UtHashTypeOK
<1>2. find.key \in Key /\ find.out \in Item \cup {NULL}
  BY <1>1 DEF Search
<1>3. QED BY <1>1, <1>2, Basics DEF Found

(* The first pair of a list that is not empty. *)
LEMMA HeadIs ==
  ASSUME IInv
  PROVE  /\ head = NULL <=> order = <<>>
         /\ head # NULL => /\ head \in Item /\ key[head] # NULL
                           /\ 1 \in 1..Len(order) /\ order[1] = head
<1>1. order \in Seq(Item) /\ Linked(order, head, next, prev)
  BY DEF IInv, UtHashTypeOK, AppOK
<1>2. Forward(order, head, next)
  BY <1>1, LinkedIs
<1>3. /\ head \in Item \cup {NULL}
      /\ head = NULL <=> order = <<>>
      /\ head # NULL => head \in ToSet(order) /\ order[1] = head /\ 1 \in 1..Len(order)
  BY <1>1, <1>2, FirstIs
<1>4. head \in Item /\ head \in ToSet(order) => key[head] # NULL
  BY DEF IInv, AppOK
<1>5. QED BY <1>3, <1>4

(* Every step preserves the invariant. *)
LEMMA NextInv == IInv /\ [Next]_vars => IInv'
<1> SUFFICES ASSUME IInv, [Next]_vars PROVE IInv'
  OBVIOUS
<1>1. ASSUME NEW k \in Key, FindBegin(k) PROVE IInv'
  BY <1>1, FindBeginInv
<1>2. ASSUME NEW i \in Item, NEW k \in Key, JsonMapKey(i, k) PROVE IInv'
  <2>1. HashAdd(i, k) /\ grow = NULL /\ ~dying /\ find' = NULL
    BY <1>2 DEF JsonMapKey, Idle
  <2>2. dying' = dying
    BY <2>1 DEF HashAdd
  <2>3. QED BY <2>1, <2>2, HashAddInv
<1>3. CASE FindNext
  BY <1>3, FindNextInv
<1>4. CASE FindEnd
  <2>1. find # NULL
    BY <1>4 DEF FindEnd, Found, Missing
  <2>2. grow = NULL /\ dying' = FALSE /\ find' = NULL
    BY <2>1, <1>4, Finding DEF FindEnd, IInv, UtHashTypeOK
  <2>3. /\ UNCHANGED <<head, tbl, buckets, prev, next, hh_prev, hh_next, hashv, key, order, chain>>
        /\ UNCHANGED <<grow, new_buckets, moved>>
    BY <1>4 DEF FindEnd, mem, handles, expansion
  <2>4. QED BY <2>2, <2>3, QuietInv
<1>5. CASE MapUnset
  <2>1. find # NULL /\ Found /\ HashDelete(find.out) /\ find' = NULL /\ dying' = dying
    BY <1>5 DEF MapUnset, Found
  <2>2. find.out \in Item /\ key[find.out] # NULL /\ grow = NULL
    BY <2>1, Finding
  <2>3. QED BY <2>1, <2>2, HashDeleteInv
<1>6. ASSUME NEW i \in Item, MapSet(i) PROVE IInv'
  <2>1. find # NULL /\ HashAdd(i, find.key) /\ find' = NULL
    BY <1>6 DEF MapSet, Missing
  <2>2. find.key \in Key /\ grow = NULL /\ ~dying
    BY <2>1, Finding
  <2>3. dying' = dying
    BY <2>1 DEF HashAdd
  <2>4. QED BY <2>1, <2>2, <2>3, HashAddInv
<1>7. CASE ExpandPair
  BY <1>7, ExpandPairInv
<1>8. CASE ExpandBucket
  BY <1>8, ExpandBucketInv
<1>9. CASE ExpandEnd
  BY <1>9, ExpandEndInv
<1>10. CASE FreeBegin
  <2>1. grow = NULL /\ find' = NULL /\ dying' \in BOOLEAN
    BY <1>10 DEF FreeBegin, Idle
  <2>2. /\ UNCHANGED <<head, tbl, buckets, prev, next, hh_prev, hh_next, hashv, key, order, chain>>
        /\ UNCHANGED <<grow, new_buckets, moved>>
    BY <1>10 DEF FreeBegin, mem, handles, expansion
  <2>3. QED BY <2>1, <2>2, QuietInv
<1>11. CASE FreePair
  <2>1. dying /\ head # NULL /\ HashDelete(head) /\ find' = find /\ dying' = dying
    BY <1>11 DEF FreePair
  <2>2. grow = NULL /\ find = NULL
    BY <2>1 DEF IInv, UtHashTypeOK
  <2>3. head \in Item /\ key[head] # NULL
    BY <2>1, HeadIs
  <2>4. QED BY <2>1, <2>2, <2>3, HashDeleteInv
<1>12. CASE FreeEnd
  <2>1. dying /\ dying' = FALSE
    BY <1>12 DEF FreeEnd
  <2>2. grow = NULL /\ find = NULL
    BY <2>1 DEF IInv, UtHashTypeOK
  <2>3. /\ UNCHANGED <<head, tbl, buckets, prev, next, hh_prev, hh_next, hashv, key, order, chain>>
        /\ UNCHANGED <<grow, new_buckets, moved>> /\ find' = find
    BY <1>12 DEF FreeEnd, mem, handles, expansion
  <2>4. QED BY <2>1, <2>2, <2>3, QuietInv
<1>13. CASE UNCHANGED vars
  BY <1>13 DEF vars, mem, handles, expansion, IInv, UtHashTypeOK, AppOK, Linked, RestOK, LinkedBuckets,
     Placed, IsIn, Bounded, GrowOK, OldOK, MultOK, FindOK, Past
<1>14. QED BY <1>1, <1>2, <1>3, <1>4, <1>5, <1>6, <1>7, <1>8, <1>9, <1>10, <1>11, <1>12, <1>13
          DEF Next

(* IInv holds in every state of the table. *)
THEOREM InvCorrect == Spec => []IInv
<1>1. Init => IInv
  BY InitInv
<1>2. IInv /\ [Next]_vars => IInv'
  BY NextInv
<1>3. QED BY <1>1, <1>2, PTL DEF Spec

----------------------------------------------------------------------------
(* The theorems. *)

(* The types: the table is there as long as a pair is, the handle of a pair that is
   allocated is set and holds its key's hash value, and no pair is looked for while
   the buckets are doubled or the map is freed.                               *)
THEOREM TypeCorrect == Spec => []UtHashTypeOK
<1>1. IInv => UtHashTypeOK
  BY DEF IInv
<1>2. QED BY <1>1, InvCorrect, PTL

(* HASH_FSCK finds nothing wrong. *)
LEMMA InvFsck == IInv => Fsck
<1> SUFFICES ASSUME IInv, tbl # NULL, grow = NULL
             PROVE  /\ Linked(order, head, next, prev) /\ IsInjective(order)
                    /\ tbl.num_items = Len(order)
                    /\ BucketsOf(buckets, chain)
                    /\ UNION {ToSet(chain[b]) : b \in DOMAIN chain} = ToSet(order)
                    /\ \A b \in DOMAIN chain :
                         /\ IsInjective(chain[b])
                         /\ \A c \in DOMAIN chain \ {b} : ToSet(chain[b]) \cap ToSet(chain[c]) = {}
  BY DEF Fsck
<1> DEFINE n == tbl.num_buckets
<1>1. /\ Linked(order, head, next, prev) /\ IsInjective(order)
      /\ tbl.num_items = Len(order)
      /\ order \in Seq(Item)
      /\ \A i \in Item : key[i] # NULL <=> i \in ToSet(order)
  BY DEF IInv, AppOK, UtHashTypeOK
<1>2. DOMAIN chain = 0..(n - 1) /\ \A b \in 0..(n - 1) : chain[b] \in Seq(Item)
  BY TableIs DEF IInv, UtHashTypeOK
<1>3. /\ LinkedBuckets(buckets, chain, n) /\ Placed(chain, n)
      /\ \A i \in Item : key[i] # NULL => IsIn(i, chain, n)
  BY DEF IInv, RestOK
<1>4. BucketsOf(buckets, chain)
  BY <1>2, <1>3 DEF BucketsOf, LinkedBuckets
<1>5. \A b \in DOMAIN chain :
        /\ IsInjective(chain[b])
        /\ \A c \in DOMAIN chain \ {b} : ToSet(chain[b]) \cap ToSet(chain[c]) = {}
  <2>1. \A b \in 0..(n - 1) : IsInjective(chain[b])
    BY <1>3 DEF Placed
  <2>2. \A b, c \in 0..(n - 1) : b # c => ToSet(chain[b]) \cap ToSet(chain[c]) = {}
    BY <1>3, PlacedApart
  <2>3. QED BY <1>2, <2>1, <2>2
<1>6. ASSUME NEW b \in 0..(n - 1), NEW i \in ToSet(chain[b]) PROVE i \in ToSet(order)
  <2>1. i \in Item
    BY <1>2, <1>6, SeqFacts
  <2>2. key[i] # NULL
    BY <1>3, <1>6 DEF Placed
  <2>3. QED BY <2>1, <2>2, <1>1
<1>7. ASSUME NEW i \in ToSet(order) PROVE \E b \in 0..(n - 1) : i \in ToSet(chain[b])
  <2>1. i \in Item /\ key[i] # NULL
    BY <1>1, <1>7, SeqFacts
  <2>2. ToBkt(hashv[i], n) \in 0..(n - 1) /\ IsIn(i, chain, n)
    BY <2>1, <1>3, TableIs DEF IInv
  <2>3. QED BY <2>2 DEF IsIn
<1>8. UNION {ToSet(chain[b]) : b \in DOMAIN chain} = ToSet(order)
  BY <1>2, <1>6, <1>7
<1>9. QED BY <1>1, <1>4, <1>5, <1>8

(* At rest HASH_FSCK finds nothing wrong, and each pair is in one bucket: through
   additions, deletions and the doubling of the buckets.                      *)
THEOREM FsckCorrect == Spec => []Fsck
BY InvFsck, InvCorrect, PTL

(* In a table at rest the pairs with a key are in the bucket of that key. *)
LEMMA BucketOfKey ==
  ASSUME IInv, tbl # NULL, grow = NULL, NEW k \in Key
  PROVE  LET b == ToBkt(Hash[k], tbl.num_buckets)
             s == chain[b]
         IN  /\ b \in 0..(tbl.num_buckets - 1)
             /\ s \in Seq(Item) /\ DOMAIN s = 1..Len(s) /\ IsInjective(s)
             /\ \A i \in Item : key[i] = k => i \in ToSet(s)
             /\ \A i \in ToSet(s) : i \in Item /\ key[i] # NULL
                                    /\ ToBkt(hashv[i], tbl.num_buckets) = b
<1> DEFINE n == tbl.num_buckets
           b == ToBkt(Hash[k], n)
<1>1. b \in 0..(n - 1)
  BY TableIs, Basics DEF IInv
<1>2. chain[b] \in Seq(Item)
  BY <1>1, TableIs DEF IInv
<1>3. ASSUME NEW i \in Item, key[i] = k PROVE i \in ToSet(chain[b])
  <2>1. key[i] # NULL
    BY <1>3, Basics
  <2>2. IsIn(i, chain, n) /\ hashv[i] = Hash[k]
    BY <1>3, <2>1 DEF IInv, RestOK, UtHashTypeOK
  <2>3. QED BY <2>2 DEF IsIn
<1>4. /\ IsInjective(chain[b])
      /\ \A i \in ToSet(chain[b]) : key[i] # NULL /\ ToBkt(hashv[i], n) = b
  BY <1>1 DEF IInv, RestOK, Placed
<1>5. QED BY <1>1, <1>2, <1>3, <1>4, SeqFacts

(* HASH_FIND stops at the first pair with its key, or when there is none. *)
LEMMA InvFindIsRight == IInv => FindIsRight
<1> SUFFICES ASSUME IInv PROVE FindIsRight
  OBVIOUS
<1> DEFINE b == ToBkt(Hash[find.key], tbl.num_buckets)
           s == chain[b]
<1>1. ASSUME Found PROVE IsFirst(find.key, find.out)
  <2>1. find # NULL /\ find.out # NULL /\ key[find.out] = find.key /\ find.key \in Key /\ grow = NULL
    BY <1>1, Finding DEF Found
  <2>2. tbl # NULL /\ Past(s, find.key, find.out)
    BY <2>1 DEF IInv, FindOK
  <2>3. s \in Seq(Item) /\ DOMAIN s = 1..Len(s) /\ Len(s) \in Nat
    BY <2>1, <2>2, BucketOfKey, SeqFacts
  <2> HIDE DEF s
  <2>4. PICK m \in 0..Len(s) : /\ \A j \in 1..m : key[s[j]] # find.key
                               /\ find.out = IF m = Len(s) THEN NULL ELSE s[m + 1]
    BY <2>2 DEF Past
  <2>5. m + 1 \in 1..Len(s) /\ s[m + 1] = find.out /\ (m + 1) - 1 = m
    <3>1. m # Len(s)
      BY <2>1, <2>4
    <3>2. Len(s) \in Nat /\ m \in 0..Len(s)
      BY <2>3, <2>4
    <3>3. m + 1 \in 1..Len(s) /\ (m + 1) - 1 = m
      BY <3>1, <3>2
    <3>4. QED BY <3>1, <3>3, <2>4
  <2>6. \E p \in DOMAIN s : /\ s[p] = find.out /\ key[find.out] = find.key
                            /\ \A j \in 1..(p - 1) : key[s[j]] # find.key
    BY <2>1, <2>3, <2>4, <2>5
  <2>7. QED BY <2>2, <2>6 DEF IsFirst, s
<1>2. ASSUME Missing, NEW i \in ToSet(order) PROVE key[i] # find.key
  <2>1. find # NULL /\ find.out = NULL /\ find.key \in Key /\ grow = NULL
    BY <1>2, Finding DEF Missing
  <2>2. order \in Seq(Item) /\ (tbl = NULL <=> order = <<>>)
    BY DEF IInv, UtHashTypeOK, AppOK
  <2>3. i \in Item /\ tbl # NULL
    BY <1>2, <2>2, SeqFacts
  <2>4. Past(s, find.key, NULL)
    BY <2>1, <2>3 DEF IInv, FindOK
  <2>5. s \in Seq(Item) /\ (key[i] = find.key => i \in ToSet(s))
    BY <2>1, <2>3, BucketOfKey
  <2> HIDE DEF s
  <2>6. PICK m \in 0..Len(s) : /\ \A j \in 1..m : key[s[j]] # find.key
                               /\ NULL = IF m = Len(s) THEN NULL ELSE s[m + 1]
    BY <2>4 DEF Past
  <2>7. m = Len(s)
    <3>1. m # Len(s) => m + 1 \in 1..Len(s)
      BY <2>5, <2>6, SeqFacts
    <3>2. QED BY <3>1, <2>5, <2>6, SeqFacts
  <2>8. \A j \in ToSet(s) : key[j] # find.key
    BY <2>5, <2>6, <2>7, SeqFacts
  <2>9. QED BY <2>5, <2>8
<1>3. QED BY <1>1, <1>2 DEF FindIsRight

(* HASH_FIND finds a pair with its key if there is one, the first in the bucket. *)
THEOREM FindCorrect == Spec => []FindIsRight
BY InvFindIsRight, InvCorrect, PTL

(* No bucket is over its threshold when the buckets are not being doubled, unless
   doubling them was given up.                                                *)
THEOREM BoundCorrect == Spec => []ChainsBounded
<1>1. IInv => ChainsBounded
  <2> SUFFICES ASSUME IInv, tbl # NULL, grow = NULL, ~tbl.noexpand,
                      NEW b \in DOMAIN buckets
               PROVE  buckets[b].count <= (buckets[b].expand_mult + 1) * Thresh
    BY DEF ChainsBounded
  <2>1. DOMAIN buckets = 0..(tbl.num_buckets - 1)
    BY DEF IInv, UtHashTypeOK
  <2>2. Bounded(buckets, tbl.num_buckets)
    BY DEF IInv, RestOK
  <2>3. QED BY <2>1, <2>2 DEF Bounded
<1>2. QED BY <1>1, InvCorrect, PTL

(* Adding a pair: it is the one that is found, and for other keys nothing changes. *)
LEMMA AddKeepsFirst ==
  ASSUME IInv, grow = NULL, NEW j \in Item, NEW h \in Key, HashAdd(j, h),
         NEW k \in Key, NEW i \in Item
  PROVE  /\ key[i] = NULL /\ key'[i] = k => IsFirst(k, i)'
         /\ IsFirst(k, i)' => IsFirst(k, i) \/ key[i] = NULL
<1> DEFINE t == IF head = NULL THEN MakeTable(j) ELSE tbl
           B == IF head = NULL THEN EmptyBuckets(InitBuckets) ELSE buckets
           C == IF head = NULL THEN EmptyChains(InitBuckets) ELSE chain
           n == t.num_buckets
           b == ToBkt(Hash[h], n)
           c == ToBkt(Hash[k], n)
<1>1. /\ key[j] = NULL /\ key' = [key EXCEPT ![j] = h]
      /\ tbl' = [t EXCEPT !.tail = j, !.num_items = @ + 1]
      /\ chain' = [C EXCEPT ![b] = <<j>> \o @]
  BY DEF HashAdd, AddToBkt
<1>2. Ready(t, B, C)
  BY ReadyIs
<1> HIDE DEF t, B, C
<1>3. /\ t \in Table /\ n \in Nat \ {0} /\ b \in 0..(n - 1) /\ c \in 0..(n - 1)
      /\ C \in [0..(n - 1) -> Seq(Item)]
  BY <1>2, Basics DEF Ready, Table
<1>4. tbl' # NULL /\ tbl'.num_buckets = n
  <2> DEFINE x == t.num_items + 1
  <2>1. tbl' = [t EXCEPT !.tail = j, !.num_items = x] /\ x \in Nat
    BY <1>1, <1>3 DEF Table
  <2> HIDE DEF x
  <2>2. tbl'.num_buckets = n /\ tbl' \in Table
    BY <2>1, <1>3 DEF Table
  <2>3. QED BY <2>2, Basics
<1> HIDE DEF n, b, c
<1>5. /\ \A m \in Item : key'[m] = IF m = j THEN h ELSE key[m]
      /\ h # NULL /\ k # NULL
  BY <1>1, Basics DEF IInv, UtHashTypeOK
<1>6. /\ chain'[b] = <<j>> \o C[b] /\ C[b] \in Seq(Item) /\ C[c] \in Seq(Item)
      /\ c # b => chain'[c] = C[c]
  BY <1>1, <1>3
<1> DEFINE s == chain'[c]
<1>7. IsFirst(k, i)' <=> \E p \in DOMAIN s : s[p] = i /\ key'[i] = k /\ \A m \in 1..(p - 1) : key'[s[m]] # k
  BY <1>4 DEF IsFirst, n, c
<1>8. /\ Len(<<j>> \o C[b]) = Len(C[b]) + 1
      /\ (<<j>> \o C[b])[1] = j
      /\ \A m \in 1..Len(C[b]) : (<<j>> \o C[b])[m + 1] = C[b][m]
      /\ <<j>> \o C[b] \in Seq(Item)
  BY <1>6, ToSetCons
<1>9. ASSUME key[i] = NULL, key'[i] = k PROVE IsFirst(k, i)'
  <2>1. i = j /\ h = k /\ c = b
    BY <1>5, <1>9 DEF b, c
  <2>2. 1 \in DOMAIN s /\ s[1] = i
    BY <2>1, <1>6, <1>8, SeqFacts
  <2>3. 1..(1 - 1) = {}
    OBVIOUS
  <2>4. QED BY <2>2, <2>3, <1>7, <1>9
<1>10. ASSUME IsFirst(k, i)', key[i] # NULL PROVE IsFirst(k, i)
  <2>1. i # j /\ key[i] = key'[i]
    BY <1>1, <1>5, <1>10
  <2>2. tbl # NULL /\ t = tbl /\ C = chain
    <3>1. head # NULL
      BY <1>10, HeadIs, SeqFacts DEF IInv, AppOK, UtHashTypeOK
    <3>2. QED BY <3>1 DEF IInv, UtHashTypeOK, t, C
  <2>3. PICK p \in DOMAIN s : s[p] = i /\ key'[i] = k /\ \A m \in 1..(p - 1) : key'[s[m]] # k
    BY <1>7, <1>10
  <2>4. /\ C[c] \in Seq(Item) /\ DOMAIN C[c] = 1..Len(C[c]) /\ Len(C[c]) \in Nat
        /\ \A m \in 1..Len(C[c]) : C[c][m] \in Item /\ C[c][m] # j /\ key'[C[c][m]] = key[C[c][m]]
    <3>1. \A m \in ToSet(C[c]) : key[m] # NULL
      BY <2>2, BucketOfKey DEF c, n
    <3>2. QED BY <3>1, <1>1, <1>5, <1>6, SeqFacts
  <2>5. IsFirst(k, i) <=> \E r \in 1..Len(C[c]) : C[c][r] = i /\ key[i] = k /\ \A m \in 1..(r - 1) : key[C[c][m]] # k
    BY <2>2, <2>4 DEF IsFirst, c, n
  <2>6. CASE c # b
    <3>1. s = C[c]
      BY <2>6, <1>6
    <3>2. p \in 1..Len(C[c])
      BY <3>1, <2>3, <2>4
    <3>3. \A m \in 1..(p - 1) : m \in 1..Len(C[c])
      BY <3>2, <2>4
    <3>4. \A m \in 1..(p - 1) : key[C[c][m]] # k
      BY <3>1, <3>3, <2>3, <2>4
    <3>5. QED BY <3>1, <3>2, <3>4, <2>1, <2>3, <2>5
  <2>7. CASE c = b
    <3>1. s = <<j>> \o C[c] /\ s \in Seq(Item) /\ Len(s) = Len(C[c]) + 1 /\ s[1] = j
          /\ \A m \in 1..Len(C[c]) : s[m + 1] = C[c][m]
      BY <2>7, <1>6, <1>8
    <3>2. p \in 1..(Len(C[c]) + 1) /\ p # 1
      BY <3>1, <2>1, <2>3, SeqFacts
    <3>3. p - 1 \in 1..Len(C[c]) /\ (p - 1) + 1 = p
      BY <3>2, <2>4
    <3>4. C[c][p - 1] = i
      BY <3>1, <3>3, <2>3
    <3>5. ASSUME NEW m \in 1..((p - 1) - 1) PROVE key[C[c][m]] # k
      <4>1. m \in 1..Len(C[c]) /\ m + 1 \in 1..(p - 1)
        BY <3>3, <2>4
      <4>2. key'[s[m + 1]] # k /\ s[m + 1] = C[c][m]
        BY <4>1, <3>1, <2>3
      <4>3. QED BY <4>1, <4>2, <2>4
    <3>6. QED BY <3>3, <3>4, <3>5, <2>1, <2>3, <2>5
  <2>8. QED BY <2>6, <2>7
<1>11. QED BY <1>9, <1>10

(* Deleting a pair: only where it was the one that is found is another found now. *)
LEMMA DeleteKeepsFirst ==
  ASSUME IInv, grow = NULL, NEW j \in Item, key[j] # NULL, HashDelete(j),
         NEW k \in Key, NEW i \in Item
  PROVE  /\ ~(key[i] = NULL /\ key'[i] = k)
         /\ IsFirst(k, i)' =>
              IsFirst(k, i) \/ \E m \in Item : IsFirst(k, m) /\ key'[m] = NULL
<1>1. /\ key'[j] = NULL /\ tbl # NULL /\ k # NULL
      /\ \A m \in Item : m # j => key'[m] = key[m]
  BY DeleteFacts, Basics
<1>2. ~(key[i] = NULL /\ key'[i] = k)
  BY <1>1
<1>3. ASSUME IsFirst(k, i)', ~IsFirst(k, j) PROVE IsFirst(k, i)
  <2> DEFINE n == tbl.num_buckets
             b == ToBkt(hashv[j], n)
             c == ToBkt(Hash[k], n)
             s == chain[c]
             u == chain'[c]
  <2>1. HashDeleteOne(j)
    <3>1. tbl' # NULL
      BY <1>3 DEF IsFirst
    <3>2. QED BY <3>1 DEF HashDelete, HashDeleteLast
  <2>2. tbl'.num_buckets = n /\ chain' = [chain EXCEPT ![b] = Unlink(@, j)]
    <3>1. tbl' = [tbl EXCEPT !.tail = IF @ = j THEN prev[j] ELSE @, !.num_items = @ - 1]
      BY <2>1 DEF HashDeleteOne
    <3>2. chain' = [chain EXCEPT ![b] = Unlink(@, j)]
      BY <2>1 DEF HashDeleteOne, DelInBkt
    <3>3. QED BY <1>1, <3>1, <3>2, TableIs DEF IInv, Table
  <2>3. /\ c \in 0..(n - 1) /\ s \in Seq(Item) /\ DOMAIN s = 1..Len(s) /\ IsInjective(s)
        /\ \A m \in ToSet(s) : m \in Item /\ ToBkt(hashv[m], n) = c
    BY <1>1, BucketOfKey
  <2>4. Len(s) \in Nat
    BY <2>3, SeqFacts
  <2>5. PICK p \in DOMAIN u : u[p] = i /\ key'[i] = k /\ \A m \in 1..(p - 1) : key'[u[m]] # k
    BY <1>3, <2>2 DEF IsFirst
  <2>6. i # j /\ key[i] = k
    BY <2>5, <1>1
  <2>7. IsFirst(k, i) <=> \E r \in 1..Len(s) : s[r] = i /\ key[i] = k /\ \A m \in 1..(r - 1) : key[s[m]] # k
    BY <1>1, <2>3 DEF IsFirst
  <2>8. IsFirst(k, j) <=> \E r \in 1..Len(s) : s[r] = j /\ key[j] = k /\ \A m \in 1..(r - 1) : key[s[m]] # k
    BY <1>1, <2>3 DEF IsFirst
  <2>9. chain \in [0..(n - 1) -> Seq(Item)]
    BY <1>1 DEF IInv, UtHashTypeOK
  <2>10. /\ c # b => u = s
         /\ c = b => u = Unlink(s, j)
    BY <2>2, <2>3, <2>9
  <2> HIDE DEF s, u, c, b, n
  <2>11. CASE c # b
    <3>1. \A m \in 1..Len(s) : s[m] \in Item /\ s[m] # j
      BY <2>3, <2>11, SeqFacts DEF b
    <3>2. u = s /\ p \in 1..Len(s)
      BY <2>3, <2>5, <2>10, <2>11
    <3>3. \A m \in 1..(p - 1) : m \in 1..Len(s)
      BY <3>2, <2>4
    <3>4. \A m \in 1..(p - 1) : key[s[m]] # k
      BY <3>1, <3>2, <3>3, <2>5, <1>1
    <3>5. QED BY <3>2, <3>4, <2>5, <2>6, <2>7
  <2>12. CASE c = b
    <3>1. j \in ToSet(s)
      <4>1. IsIn(j, chain, n)
        BY <1>1 DEF IInv, RestOK, n
      <4>2. QED BY <4>1, <2>12 DEF IsIn, b, s
    <3>a. s \in Seq(Item) /\ IsInjective(s)
      BY <2>3
    <3>2. PICK q \in 1..Len(s) :
            /\ s[q] = j /\ Unlink(s, j) \in Seq(Item) /\ Len(Unlink(s, j)) = Len(s) - 1
            /\ \A m \in 1..(Len(s) - 1) : Unlink(s, j)[m] = IF m < q THEN s[m] ELSE s[m + 1]
      BY ONLY <3>1, <3>a, UnlinkIs
    <3>3. /\ u = Unlink(s, j) /\ DOMAIN u = 1..(Len(s) - 1)
          /\ \A m \in 1..(Len(s) - 1) : u[m] = IF m < q THEN s[m] ELSE s[m + 1]
      BY <3>2, <2>10, <2>12, SeqFacts
    <3>4. q \in 1..Len(s) /\ s[q] = j /\ p \in 1..(Len(s) - 1)
      BY <3>2, <3>3, <2>5
    <3>5. \A m \in 1..Len(s) : s[m] \in Item /\ (m # q => s[m] # j)
      BY <3>4, <2>3, SeqFacts
    <3> HIDE DEF u
    <3>6. ASSUME NEW m \in 1..(p - 1), m < q PROVE key[s[m]] # k
      <4>1. m \in 1..(Len(s) - 1) /\ m \in 1..Len(s) /\ m # q
        BY <3>4, <3>6, <2>4
      <4>2. u[m] = s[m] /\ s[m] \in Item /\ s[m] # j
        BY <4>1, <3>3, <3>5, <3>6
      <4>3. QED BY <4>2, <2>5, <1>1
    <3>7. CASE p < q
      <4>1. s[p] = i /\ p \in 1..Len(s)
        BY <3>3, <3>4, <3>7, <2>4, <2>5
      <4>2. \A m \in 1..(p - 1) : m < q
        BY <3>4, <3>7, <2>4
      <4>3. \A m \in 1..(p - 1) : key[s[m]] # k
        BY <4>2, <3>6
      <4>4. QED BY <4>1, <4>3, <2>6, <2>7
    <3>8. CASE ~(p < q)
      <4>1. s[p + 1] = i /\ p + 1 \in 1..Len(s)
        BY <3>3, <3>4, <3>8, <2>4, <2>5
      <4>2. key[j] # k
        <5>1. \A m \in 1..(q - 1) : m \in 1..(p - 1) /\ m < q
          BY <3>4, <3>8, <2>4
        <5>2. \A m \in 1..(q - 1) : key[s[m]] # k
          BY <5>1, <3>6
        <5>3. QED BY <5>2, <3>4, <2>8, <1>3
      <4>3. ASSUME NEW m \in 1..((p + 1) - 1) PROVE key[s[m]] # k
        <5>1. m \in 1..Len(s) /\ m \in 1..p
          BY <3>4, <2>4
        <5>2. CASE m = q
          BY <5>2, <4>2, <3>4
        <5>3. CASE m < q
          <6>1. m \in 1..(p - 1)
            BY <5>1, <5>3, <3>4, <3>8, <2>4
          <6>2. QED BY <6>1, <5>3, <3>6
        <5>4. CASE m > q
          <6>1. m - 1 \in 1..(p - 1) /\ m - 1 \in 1..(Len(s) - 1) /\ ~(m - 1 < q) /\ (m - 1) + 1 = m /\ m # q
            BY <5>1, <5>4, <3>4, <2>4
          <6>2. u[m - 1] = s[m] /\ s[m] \in Item /\ s[m] # j
            BY <6>1, <5>1, <3>3, <3>5
          <6>3. key'[u[m - 1]] # k
            BY <6>1, <2>5
          <6>4. QED BY <6>2, <6>3, <1>1
        <5>5. m < q \/ m = q \/ m > q
          BY <5>1, <3>4, <2>4
        <5>6. QED BY <5>2, <5>3, <5>4, <5>5
      <4>4. QED BY <4>1, <4>3, <2>6, <2>7
    <3>9. QED BY <3>7, <3>8
  <2>13. QED BY <2>11, <2>12
<1>4. QED BY <1>1, <1>2, <1>3

(* A step outside of an expansion changes which pair is found for a key only if
   it adds one with that key or deletes the one that is found.                *)
LEMMA FoundStays ==
  ASSUME IInv, [Next]_vars, grow = NULL, NEW k \in Key, NEW i \in Item
  PROVE  /\ key[i] = NULL /\ key'[i] = k => IsFirst(k, i)'
         /\ IsFirst(k, i)' =>
              \/ IsFirst(k, i) \/ key[i] = NULL
              \/ \E j \in Item : IsFirst(k, j) /\ key'[j] = NULL
<1> DEFINE Goal ==
      /\ key[i] = NULL /\ key'[i] = k => IsFirst(k, i)'
      /\ IsFirst(k, i)' =>
           \/ IsFirst(k, i) \/ key[i] = NULL
           \/ \E j \in Item : IsFirst(k, j) /\ key'[j] = NULL
<1>1. ASSUME key' = key, tbl' = tbl, chain' = chain PROVE Goal
  <2>1. IsFirst(k, i)' <=> IsFirst(k, i)
    BY <1>1 DEF IsFirst
  <2>2. ~(key[i] = NULL /\ key'[i] = k)
    BY <1>1, Basics
  <2>3. QED BY <2>1, <2>2
<1>2. ASSUME NEW j \in Item, NEW h \in Key, HashAdd(j, h) PROVE Goal
  BY <1>2, AddKeepsFirst
<1>3. ASSUME NEW j \in Item, key[j] # NULL, HashDelete(j) PROVE Goal
  BY <1>3, DeleteKeepsFirst
<1> SUFFICES Goal
  OBVIOUS
<1> HIDE DEF Goal
<1>4. ASSUME NEW h \in Key, FindBegin(h) PROVE Goal
  BY <1>1, <1>4 DEF FindBegin, mem
<1>5. ASSUME NEW j \in Item, NEW h \in Key, JsonMapKey(j, h) PROVE Goal
  BY <1>2, <1>5 DEF JsonMapKey
<1>6. CASE FindNext \/ FindEnd \/ FreeBegin \/ FreeEnd
  <2>1. mem' = mem
    BY <1>6 DEF FindNext, FindEnd, FreeBegin, FreeEnd
  <2>2. QED BY <2>1, <1>1 DEF mem
<1>7. CASE MapUnset
  <2>1. find # NULL /\ Found /\ HashDelete(find.out)
    BY <1>7 DEF MapUnset, Found
  <2>2. find.out \in Item /\ key[find.out] # NULL
    BY <2>1, Finding
  <2>3. QED BY <2>1, <2>2, <1>3
<1>8. ASSUME NEW j \in Item, MapSet(j) PROVE Goal
  <2>1. find # NULL /\ HashAdd(j, find.key)
    BY <1>8 DEF MapSet, Missing
  <2>2. QED BY <2>1, <1>2, Finding
<1>9. CASE ExpandPair \/ ExpandBucket \/ ExpandEnd
  BY <1>9 DEF ExpandPair, ExpandBucket, ExpandEnd
<1>10. CASE FreePair
  <2>1. head # NULL /\ HashDelete(head)
    BY <1>10 DEF FreePair
  <2>2. head \in Item /\ key[head] # NULL
    BY <2>1, HeadIs
  <2>3. QED BY <2>1, <2>2, <1>3
<1>11. CASE UNCHANGED vars
  <2>1. mem' = mem
    BY <1>11 DEF vars
  <2>2. QED BY <2>1, <1>1 DEF mem
<1>12. QED
  BY <1>4, <1>5, <1>6, <1>7, <1>8, <1>9, <1>10, <1>11 DEF Next

(* Which of several pairs with one key is found changes only when the buckets are
   doubled, when a pair with that key is added, or when the one that is found goes. *)
THEOREM FoundCorrect == Spec => FoundStaysFound
<1>1. IInv /\ [Next]_vars =>
        [ grow # NULL \/ \A k \in Key, i \in Item :
            /\ key[i] = NULL /\ key'[i] = k => IsFirst(k, i)'
            /\ IsFirst(k, i)' =>
                 \/ IsFirst(k, i) \/ key[i] = NULL
                 \/ \E j \in Item : IsFirst(k, j) /\ key'[j] = NULL ]_vars
  BY FoundStays
<1>2. QED BY <1>1, InvCorrect, PTL DEF Spec, FoundStaysFound

(* Deleting a pair deletes it from the map. *)
LEMMA DeleteIs ==
  ASSUME IInv, NEW i \in Item, key[i] # NULL, HashDelete(i), dying' = dying
  PROVE  \E n \in DOMAIN order : order[n] = i /\ Promise!Delete(n)
<1>1. /\ order \in Seq(Item) /\ IsInjective(order) /\ i \in ToSet(order)
      /\ order' = Unlink(order, i) /\ key' = [key EXCEPT ![i] = NULL]
  BY DeleteFacts DEF IInv, UtHashTypeOK, AppOK, HashDelete
<1>2. PICK p \in 1..Len(order) : order[p] = i /\ Unlink(order, i) = RemoveAt(order, p)
  BY <1>1, UnlinkIs
<1>3. p \in DOMAIN order /\ Promise!Delete(p)
  BY <1>1, <1>2, SeqFacts DEF Promise!Delete, Promise!RemoveAt, RemoveAt
<1>4. QED BY <1>2, <1>3

(* Adding a pair adds it to the end of the map. *)
LEMMA AddIs ==
  ASSUME IInv, NEW i \in Item, NEW k \in Key, HashAdd(i, k), ~dying
  PROVE  Promise!Next
<1>1. /\ key[i] = NULL /\ order' = Append(order, i) /\ key' = [key EXCEPT ![i] = k] /\ dying' = dying
  BY DEF HashAdd
<1>2. i \notin ToSet(order)
  BY <1>1 DEF IInv, AppOK
<1>3. Promise!Add(i, k)
  BY <1>1, <1>2 DEF Promise!Add, Promise!ToSet, ToSet
<1>4. QED BY <1>3 DEF Promise!Next

(* Every step is one of the map, or none. *)
LEMMA StepKeepsPromise ==
  ASSUME IInv, [Next]_vars
  PROVE  [Promise!Next]_<<order, key, dying>>
<1> DEFINE Goal == [Promise!Next]_<<order, key, dying>>
<1>1. ASSUME order' = order, key' = key, dying' = dying PROVE Goal
  BY <1>1
<1>2. ASSUME Promise!Next PROVE Goal
  BY <1>2
<1> SUFFICES Goal
  OBVIOUS
<1> HIDE DEF Goal
<1>3. ASSUME NEW k \in Key, FindBegin(k) PROVE Goal
  BY <1>1, <1>3 DEF FindBegin, mem
<1>4. ASSUME NEW i \in Item, NEW k \in Key, JsonMapKey(i, k) PROVE Goal
  BY <1>2, <1>4, AddIs DEF JsonMapKey, Idle
<1>5. CASE FindNext \/ FindEnd \/ ExpandBucket
  BY <1>1, <1>5 DEF FindNext, FindEnd, ExpandBucket, mem
<1>6. CASE ExpandPair \/ ExpandEnd
  BY <1>1, <1>6 DEF ExpandPair, ExpandEnd
<1>7. CASE MapUnset
  <2>1. find # NULL /\ Found /\ HashDelete(find.out) /\ dying' = dying /\ key[find.out] = find.key
    BY <1>7 DEF MapUnset, Found
  <2>2. find.out \in Item /\ key[find.out] # NULL /\ find.key \in Key /\ ~dying
    BY <2>1, Finding
  <2>3. PICK n \in DOMAIN order : order[n] = find.out /\ Promise!Delete(n)
    BY <2>1, <2>2, DeleteIs
  <2>4. Promise!Unset(find.key)
    BY <2>1, <2>2, <2>3 DEF Promise!Unset
  <2>5. Promise!Next
    BY <2>2, <2>4 DEF Promise!Next
  <2>6. QED BY <2>5, <1>2
<1>8. ASSUME NEW i \in Item, MapSet(i) PROVE Goal
  <2>1. find # NULL /\ HashAdd(i, find.key)
    BY <1>8 DEF MapSet, Missing
  <2>2. QED BY <2>1, <1>2, Finding, AddIs
<1>9. CASE FreeBegin
  <2>1. Promise!FreeBegin
    BY <1>9, HeadIs DEF FreeBegin, Idle, mem, Promise!FreeBegin
  <2>2. QED BY <2>1, <1>2 DEF Promise!Next
<1>10. CASE FreePair
  <2>1. dying /\ head # NULL /\ HashDelete(head) /\ dying' = dying
    BY <1>10 DEF FreePair
  <2>2. head \in Item /\ key[head] # NULL /\ 1 \in 1..Len(order) /\ order[1] = head /\ order # <<>>
    BY <2>1, HeadIs
  <2>3. PICK n \in DOMAIN order : order[n] = head /\ Promise!Delete(n)
    BY <2>1, <2>2, DeleteIs
  <2>4. n = 1
    <3>1. order \in Seq(Item) /\ IsInjective(order)
      BY DEF IInv, UtHashTypeOK, AppOK
    <3>2. QED BY <3>1, <2>2, <2>3, SeqFacts
  <2>5. Promise!Drain
    BY <2>1, <2>2, <2>3, <2>4 DEF Promise!Drain
  <2>6. QED BY <2>5, <1>2 DEF Promise!Next
<1>11. CASE FreeEnd
  <2>1. Promise!FreeEnd
    BY <1>11, HeadIs DEF FreeEnd, mem, Promise!FreeEnd
  <2>2. QED BY <2>1, <1>2 DEF Promise!Next
<1>12. CASE UNCHANGED vars
  BY <1>1, <1>12 DEF vars, mem
<1>13. QED
  BY <1>3, <1>4, <1>5, <1>6, <1>7, <1>8, <1>9, <1>10, <1>11, <1>12 DEF Next

(* UtHash implements UtMap: the pairs are walked in the order they were added in,
   and pt_map_unset and free_map_node delete those they should.               *)
THEOREM OrderCorrect == Spec => KeepsOrder
<1>1. Init => Promise!Init
  BY DEF Init, Promise!Init
<1>2. IInv /\ [Next]_vars => [Promise!Next]_<<order, key, dying>>
  BY StepKeepsPromise
<1>3. QED BY <1>1, <1>2, InvCorrect, PTL DEF Spec, KeepsOrder, Promise!Spec
=============================================================================
