------------------------------ MODULE SeqLemmas -----------------------------
(***************************************************************************)
(* Facts about sequences that the proofs about the heap and about its tail  *)
(* queues share: what an insertion at either end and a removal do to the    *)
(* positions and to the set of elements.                                    *)
(***************************************************************************)
EXTENDS Naturals, Sequences, SequencesExt, SequenceTheorems, TLAPS

(* The elements of a sequence are the values at its positions. *)
LEMMA ToSetDef ==
  ASSUME NEW S, NEW s \in Seq(S)
  PROVE  /\ ToSet(s) = {s[i] : i \in 1..Len(s)}
         /\ ToSet(s) \subseteq S
BY DEF ToSet

(* One element more at the end. *)
LEMMA ToSetAppend ==
  ASSUME NEW S, NEW s \in Seq(S), NEW e \in S
  PROVE  /\ Append(s, e) \in Seq(S)
         /\ Len(Append(s, e)) = Len(s) + 1
         /\ \A i \in 1..(Len(s) + 1) : Append(s, e)[i] = IF i <= Len(s) THEN s[i] ELSE e
         /\ ToSet(Append(s, e)) = ToSet(s) \cup {e}
         /\ e \notin ToSet(s) /\ IsInjective(s) => IsInjective(Append(s, e))
<1> DEFINE t == Append(s, e)
<1>1. /\ t \in Seq(S)
      /\ Len(t) = Len(s) + 1
      /\ \A i \in 1..Len(s) : t[i] = s[i]
      /\ t[Len(s) + 1] = e
      /\ Len(s) \in Nat
      /\ DOMAIN t = 1..Len(t)
      /\ DOMAIN s = 1..Len(s)
  BY AppendProperties, LenProperties
<1> HIDE DEF t
<1>2. ToSet(t) = ToSet(s) \cup {e}
  <2>1. ToSet(t) \subseteq ToSet(s) \cup {e}
    BY <1>1, ToSetDef
  <2>2. ToSet(s) \cup {e} \subseteq ToSet(t)
    BY <1>1, ToSetDef
  <2>3. QED BY <2>1, <2>2
<1>3. e \notin ToSet(s) /\ IsInjective(s) => IsInjective(t)
  BY <1>1, ToSetDef DEF IsInjective
<1>4. QED BY <1>1, <1>2, <1>3 DEF t

(* One element more at the front. *)
LEMMA ToSetCons ==
  ASSUME NEW S, NEW s \in Seq(S), NEW e \in S
  PROVE  /\ <<e>> \o s \in Seq(S)
         /\ Len(<<e>> \o s) = Len(s) + 1
         /\ \A i \in 1..(Len(s) + 1) : (<<e>> \o s)[i] = IF i = 1 THEN e ELSE s[i - 1]
         /\ ToSet(<<e>> \o s) = ToSet(s) \cup {e}
         /\ e \notin ToSet(s) /\ IsInjective(s) => IsInjective(<<e>> \o s)
<1> DEFINE t == <<e>> \o s
<1>1. <<e>> \in Seq(S) /\ Len(<<e>>) = 1 /\ <<e>>[1] = e
  OBVIOUS
<1>2. /\ t \in Seq(S)
      /\ Len(t) = Len(s) + 1
      /\ \A i \in 1..(Len(s)+1) : t[i] = IF i <= 1 THEN <<e>>[i] ELSE s[i-1]
      /\ Len(s) \in Nat
      /\ DOMAIN t = 1..Len(t)
      /\ DOMAIN s = 1..Len(s)
  BY <1>1, ConcatProperties, LenProperties
<1>3. t[1] = e /\ \A i \in 1..Len(s) : t[i+1] = s[i]
  BY <1>1, <1>2
<1> HIDE DEF t
<1>4. ToSet(t) = ToSet(s) \cup {e}
  <2>1. ToSet(t) \subseteq ToSet(s) \cup {e}
    <3> SUFFICES ASSUME NEW i \in 1..Len(t), i # 1 PROVE t[i] \in ToSet(s)
      BY <1>2, <1>3, ToSetDef
    <3>1. i - 1 \in 1..Len(s) /\ t[i] = s[i-1]
      BY <1>2
    <3>2. QED BY <3>1, ToSetDef
  <2>2. ToSet(s) \cup {e} \subseteq ToSet(t)
    <3>1. \A i \in 1..Len(s) : i + 1 \in 1..Len(t)
      BY <1>2
    <3>2. 1 \in 1..Len(t)
      BY <1>2
    <3>3. QED BY <1>2, <1>3, <3>1, <3>2, ToSetDef
  <2>3. QED BY <2>1, <2>2
<1>5. ASSUME e \notin ToSet(s), IsInjective(s) PROVE IsInjective(t)
  <2> SUFFICES ASSUME NEW i \in 1..Len(t), NEW j \in 1..Len(t), t[i] = t[j], i # j
               PROVE FALSE
    BY <1>2 DEF IsInjective
  <2>1. \A k \in 1..Len(t) : k # 1 => k - 1 \in 1..Len(s) /\ t[k] = s[k-1]
    BY <1>2
  <2>2. i # 1 /\ j # 1
    BY <1>3, <1>5, <2>1, ToSetDef
  <2>3. i - 1 = j - 1
    <3>1. /\ i - 1 \in DOMAIN s /\ t[i] = s[i - 1]
          /\ j - 1 \in DOMAIN s /\ t[j] = s[j - 1]
      BY <1>2, <2>1, <2>2
    <3>2. QED BY <1>5, <3>1 DEF IsInjective
  <2>4. QED BY <2>3
<1>6. QED BY <1>2, <1>4, <1>5 DEF t

(* The part of a sequence after position i, position by position. *)
LEMMA SuffixProperties ==
  ASSUME NEW S, NEW s \in Seq(S), NEW i \in Nat, i <= Len(s)
  PROVE  /\ SubSeq(s, i+1, Len(s)) \in Seq(S)
         /\ Len(SubSeq(s, i+1, Len(s))) = Len(s) - i
         /\ \A j \in 1..(Len(s)-i) : SubSeq(s, i+1, Len(s))[j] = s[i+j]
<1> DEFINE n == Len(s)
           m == i + 1
           b == SubSeq(s, m, n)
<1>1. n \in Int /\ m \in Int /\ m >= 1 /\ m <= n + 1
  BY LenProperties
<1>2. \A j \in m..n : s[j] \in S
  BY <1>1, ElementOfSeq
<1>3. /\ b \in Seq(S)
      /\ Len(b) = IF m <= n THEN n-m+1 ELSE 0
      /\ \A j \in 1..(n-m+1) : b[j] = s[m+j-1]
  <2> HIDE DEF m, n
  <2>1. QED BY <1>1, <1>2, SubSeqProperties
<1>4. n - m + 1 = n - i /\ (m <= n \/ n - i = 0)
  BY <1>1
<1>5. \A j \in Int : m+j-1 = i+j
  BY <1>1
<1> HIDE DEF n, m, b
<1>6. Len(b) = n - i
  BY <1>3, <1>4
<1>7. \A j \in 1..(n-i) : b[j] = s[i+j]
  BY <1>3, <1>4, <1>5
<1>8. QED BY <1>3, <1>6, <1>7 DEF n, m, b

(* Just the one element goes, and those behind it move up. *)
LEMMA ToSetRemoveAt ==
  ASSUME NEW S, NEW s \in Seq(S), IsInjective(s), NEW i \in 1..Len(s)
  PROVE  /\ RemoveAt(s, i) \in Seq(S)
         /\ Len(RemoveAt(s, i)) = Len(s) - 1
         /\ Len(s) > 0
         /\ \A j \in 1..(Len(s) - 1) : RemoveAt(s, i)[j] = IF j < i THEN s[j] ELSE s[j + 1]
         /\ ToSet(RemoveAt(s, i)) = ToSet(s) \ {s[i]}
         /\ IsInjective(RemoveAt(s, i))
<1> DEFINE e == s[i]
           u == RemoveAt(s, i)
<1>0. Len(s) \in Nat /\ DOMAIN s = 1..Len(s)
  BY LenProperties
<1>1. i \in 1..Len(s) /\ s[i] = e
  OBVIOUS
<1>2. /\ u \in Seq(S)
      /\ Len(u) = Len(s) - 1
      /\ \A j \in 1..Len(u) : u[j] = IF j < i THEN s[j] ELSE s[j+1]
  <2> DEFINE a == SubSeq(s, 1, i-1)
             b == SubSeq(s, i+1, Len(s))
  <2>1. /\ a \in Seq(S)
        /\ Len(a) = i - 1
        /\ \A j \in 1..(i-1) : a[j] = s[j]
    <3>1. \A j \in 1..(i-1) : s[j] \in S
      BY <1>0, <1>1, ElementOfSeq
    <3>2. 1 \in Int /\ i - 1 \in Int
      BY <1>0, <1>1
    <3>3. /\ a \in Seq(S)
          /\ Len(a) = IF 1 <= i-1 THEN i-1-1+1 ELSE 0
          /\ \A j \in 1..(i-1-1+1) : a[j] = s[1+j-1]
      BY <3>1, <3>2, SubSeqProperties
    <3>4. QED BY <3>3, <1>0, <1>1
  <2>2. /\ b \in Seq(S)
        /\ Len(b) = Len(s) - i
        /\ \A j \in 1..(Len(s)-i) : b[j] = s[i+j]
    <3>1. i \in Nat /\ i <= Len(s)
      BY <1>0, <1>1
    <3>2. QED BY <3>1, SuffixProperties
  <2> HIDE DEF a, b
  <2>3. /\ a \o b \in Seq(S)
        /\ Len(a \o b) = Len(a) + Len(b)
        /\ \A j \in 1..(Len(a)+Len(b)) : (a \o b)[j] = IF j <= Len(a) THEN a[j] ELSE b[j-Len(a)]
    BY <2>1, <2>2, ConcatProperties
  <2>4. u = a \o b
    BY DEF u, a, b, RemoveAt
  <2> HIDE DEF u
  <2>5. Len(u) = Len(s) - 1
    <3>1. Len(u) = (i - 1) + (Len(s) - i)
      BY <2>1, <2>2, <2>3, <2>4
    <3>2. QED BY <3>1, <1>0
  <2>6. ASSUME NEW j \in 1..Len(u) PROVE u[j] = IF j < i THEN s[j] ELSE s[j+1]
    <3>1. CASE j < i
      BY <3>1, <2>1, <2>2, <2>3, <2>4, <2>5, <1>0, <1>1
    <3>2. CASE ~(j < i)
      <4>1. j - (i-1) \in 1..(Len(s)-i) /\ i + (j-(i-1)) = j + 1
        BY <3>2, <2>5, <1>0, <1>1
      <4>2. u[j] = b[j-(i-1)]
        BY <3>2, <2>1, <2>2, <2>3, <2>4, <2>5, <1>0, <1>1
      <4>3. QED BY <4>1, <4>2, <2>2, <3>2
    <3>3. QED BY <3>1, <3>2
  <2>7. QED BY <2>3, <2>4, <2>5, <2>6
<1> HIDE DEF u, e
<1>4. Len(u) \in Nat /\ DOMAIN u = 1..Len(u)
  BY <1>2, LenProperties
<1>5. ToSet(u) \subseteq ToSet(s) \ {e}
  <2> SUFFICES ASSUME NEW j \in 1..Len(u) PROVE u[j] \in ToSet(s) /\ u[j] # e
    BY <1>2, ToSetDef
  <2>1. CASE j < i
    <3>1. j \in 1..Len(s) /\ j # i /\ u[j] = s[j]
      BY <2>1, <1>0, <1>1, <1>2, <1>4
    <3>2. QED BY <3>1, <1>0, <1>1, ToSetDef DEF IsInjective
  <2>2. CASE ~(j < i)
    <3>1. j + 1 \in 1..Len(s) /\ j + 1 # i /\ u[j] = s[j+1]
      BY <2>2, <1>0, <1>1, <1>2, <1>4
    <3>2. QED BY <3>1, <1>0, <1>1, ToSetDef DEF IsInjective
  <2>3. QED BY <2>1, <2>2
<1>6. ASSUME NEW x \in ToSet(s), x # e PROVE x \in ToSet(u)
  <2>1. PICK j \in 1..Len(s) : s[j] = x
    BY ToSetDef
  <2>2. CASE j < i
    <3>1. j \in 1..Len(u) /\ u[j] = s[j]
      BY <2>2, <1>0, <1>1, <1>2
    <3>2. QED BY <3>1, <2>1, <1>2, ToSetDef
  <2>3. CASE j > i
    <3>1. j - 1 \in 1..Len(u) /\ u[j-1] = s[j]
      BY <1>0, <1>1, <1>2, <2>1, <2>3
    <3>2. QED BY <3>1, <2>1, <1>2, ToSetDef
  <2>4. j # i
    BY <1>1, <1>6, <2>1
  <2>5. QED BY <1>0, <1>1, <2>2, <2>3, <2>4
<1>7. IsInjective(u)
  <2> SUFFICES ASSUME NEW j \in 1..Len(u), NEW k \in 1..Len(u), u[j] = u[k]
               PROVE j = k
    BY <1>4 DEF IsInjective
  <2>1. \A a, b \in 1..Len(s) : s[a] = s[b] => a = b
    BY <1>0 DEF IsInjective
  <2> DEFINE p(x) == IF x < i THEN x ELSE x + 1
  <2>2. \A x \in 1..Len(u) : p(x) \in 1..Len(s) /\ u[x] = s[p(x)]
    BY <1>0, <1>1, <1>2, <1>4
  <2>3. p(j) = p(k)
    BY <2>1, <2>2
  <2>4. QED BY <2>3, <1>1, <1>0
<1>8. ToSet(u) = ToSet(s) \ {e}
  BY <1>5, <1>6
<1>9. Len(s) > 0
  BY <1>0, <1>1
<1>10. QED BY <1>2, <1>7, <1>8, <1>9 DEF u, e

=============================================================================
