--------------------------- MODULE BsdTailqProofs ---------------------------
(***************************************************************************)
(* Theorems about BsdTailq, for any number of arrays and elements: the      *)
(* pointers are at all times those of the history variable order, forwards  *)
(* (WalkIsOrder) and backwards, and BsdTailq implements PtQueue.             *)
(*                                                                          *)
(* Neither direction is inductive alone: TAILQ_REMOVE finds the pointer it  *)
(* changes by the one back, and TAILQ_INSERT_TAIL by tqh_last; and neither  *)
(* is right for elements that two queues share (Apart).                     *)
(***************************************************************************)
EXTENDS BsdTailq, SeqLemmas

(* An element is in one place, and is allocated when it is in some. *)
Apart ==
  /\ \A a \in Array : IsInjective(order[a])
  /\ \A a, b \in Array : a # b => ToSet(order[a]) \cap ToSet(order[b]) = {}
  /\ \A e \in Elem : node[e] # NULL <=> \E a \in arrays : e \in ToSet(order[a])
  /\ \A a \in Array \ arrays : order[a] = <<>>

(* Pointers next (f) and back (p), and the end l, are those of elements s. *)
Queue(a, s, f, l, p) ==
  /\ \A i \in 1..Len(s) : f[SlotAt(a, s, i - 1)] = s[i] /\ p[s[i]] = SlotAt(a, s, i - 1)
  /\ l = SlotAt(a, s, Len(s))
  /\ f[l] = NULL

(* The same, with the slots told apart. *)
QueueEnds(a, s, f, l, p) ==
  /\ f[a] = IF Len(s) = 0 THEN NULL ELSE s[1]
  /\ l = IF Len(s) = 0 THEN a ELSE s[Len(s)]
  /\ \A i \in 1..Len(s) : f[s[i]] = IF i = Len(s) THEN NULL ELSE s[i + 1]
  /\ \A i \in 1..Len(s) : p[s[i]] = IF i = 1 THEN a ELSE s[i - 1]

(* The pointers g, q and the end m are those of s after TAILQ_REMOVE of s[k]. *)
Unlinked(a, s, k, f, l, p, g, m, q) ==
  /\ g[p[s[k]]] = f[s[k]]
  /\ \A i \in 0..Len(s) : i # k - 1 /\ i # k => g[SlotAt(a, s, i)] = f[SlotAt(a, s, i)]
  /\ f[s[k]] # NULL => q[f[s[k]]] = p[s[k]]
  /\ \A i \in 1..Len(s) : i # k /\ i # k + 1 => q[s[i]] = p[s[i]]
  /\ m = IF f[s[k]] = NULL THEN p[s[k]] ELSE l

QueueOK(a) == Queue(a, order[a], at, last[a], prev)

(* pt_array_remove has passed the first n elements, none of which holds the
   node, and nothing is freed meanwhile                                     *)
Passed(w, s, n) ==
  /\ \A i \in 1..n : node[s[i]] # w.node
  /\ w.cur = IF n < Len(s) THEN s[n + 1] ELSE NULL

WalkSoFar ==
  walk # NULL =>
    /\ walk.array \in arrays /\ dying = <<>>
    /\ \E n \in 0..Len(order[walk.array]) : Passed(walk, order[walk.array], n)

DyingThere ==
  /\ \A i \in DOMAIN dying : dying[i] \in arrays
  /\ \A i, j \in DOMAIN dying : dying[i] = dying[j] => i = j

MemInv == Apart /\ \A a \in arrays : QueueOK(a)
TailqInv == TailqTypeOK /\ MemInv /\ WalkSoFar /\ DyingThere

----------------------------------------------------------------------------
(* One queue: what the macros do to its pointers *)

LEMMA QueueFacts ==
  ASSUME NEW a, NEW s \in Seq(Elem), NEW f, NEW l, NEW p, Queue(a, s, f, l, p)
  PROVE  QueueEnds(a, s, f, l, p)
<1>1. Len(s) \in Nat
  BY LenProperties
<1>2. f[a] = IF Len(s) = 0 THEN NULL ELSE s[1]
  BY <1>1 DEF Queue, SlotAt
<1>3. l = IF Len(s) = 0 THEN a ELSE s[Len(s)]
  BY <1>1 DEF Queue, SlotAt
<1>4. ASSUME NEW i \in 1..Len(s)
      PROVE  f[s[i]] = IF i = Len(s) THEN NULL ELSE s[i + 1]
  <2>1. CASE i = Len(s)
    BY <2>1, <1>1, <1>3 DEF Queue
  <2>2. CASE i # Len(s)
    <3>1. i + 1 \in 1..Len(s) /\ (i + 1) - 1 = i /\ i # 0
      BY <2>2, <1>1
    <3>2. f[SlotAt(a, s, (i + 1) - 1)] = s[i + 1]
      BY <3>1 DEF Queue
    <3>3. QED BY <2>2, <3>1, <3>2 DEF SlotAt
  <2>3. QED BY <2>1, <2>2
<1>5. \A i \in 1..Len(s) : p[s[i]] = IF i = 1 THEN a ELSE s[i - 1]
  BY <1>1 DEF Queue, SlotAt
<1>6. QED BY <1>2, <1>3, <1>4, <1>5 DEF QueueEnds

LEMMA QueueIntro ==
  ASSUME NEW a, NEW s \in Seq(Elem), NEW f, NEW l, NEW p, QueueEnds(a, s, f, l, p)
  PROVE  Queue(a, s, f, l, p)
<1>1. Len(s) \in Nat
  BY LenProperties
<1> USE DEF QueueEnds
<1>2. ASSUME NEW i \in 1..Len(s)
      PROVE  f[SlotAt(a, s, i - 1)] = s[i] /\ p[s[i]] = SlotAt(a, s, i - 1)
  <2>1. CASE i = 1
    BY <2>1, <1>1 DEF SlotAt
  <2>2. CASE i # 1
    <3>1. i - 1 \in 1..Len(s) /\ (i - 1) + 1 = i /\ i - 1 # Len(s) /\ i - 1 # 0
      BY <2>2, <1>1
    <3>2. QED BY <2>2, <3>1 DEF SlotAt
  <2>3. QED BY <2>1, <2>2
<1>3. l = SlotAt(a, s, Len(s))
  BY <1>1 DEF SlotAt
<1>4. f[l] = NULL
  <2>1. CASE Len(s) = 0
    BY <2>1
  <2>2. CASE Len(s) # 0
    <3>1. Len(s) \in 1..Len(s)
      BY <2>2, <1>1
    <3>2. QED BY <2>2, <3>1
  <2>3. QED BY <2>1, <2>2
<1>5. QED BY <1>2, <1>3, <1>4 DEF Queue

(* TAILQ_INSERT_HEAD *)
LEMMA QueueFirst ==
  ASSUME NEW a, NEW s \in Seq(Elem), NEW f, NEW l, NEW p, Queue(a, s, f, l, p),
         NEW e \in Elem, NEW g, NEW m, NEW q,
         g[a] = e, g[e] = f[a], \A i \in 1..Len(s) : g[s[i]] = f[s[i]],
         q[e] = a, Len(s) # 0 => q[s[1]] = e,
         \A i \in 2..Len(s) : q[s[i]] = p[s[i]],
         m = IF Len(s) = 0 THEN e ELSE l
  PROVE  Queue(a, <<e>> \o s, g, m, q)
<1>0. QueueEnds(a, s, f, l, p)
  BY QueueFacts
<1> DEFINE t == <<e>> \o s
           n == Len(s)
<1>1. /\ t \in Seq(Elem) /\ Len(t) = n + 1 /\ n \in Nat /\ t[1] = e
      /\ \A i \in 1..n : t[i + 1] = s[i]
  <2>1. /\ <<e>> \in Seq(Elem) /\ Len(<<e>>) = 1 /\ <<e>>[1] = e /\ n \in Nat
    BY LenProperties
  <2>2. /\ t \in Seq(Elem) /\ Len(t) = 1 + n
        /\ \A i \in 1..(1 + n) : t[i] = IF i <= 1 THEN <<e>>[i] ELSE s[i - 1]
    BY <2>1, ConcatProperties
  <2> HIDE DEF t, n
  <2>3. \A i \in 1..n : i + 1 \in 1..(1 + n) /\ ~(i + 1 <= 1) /\ (i + 1) - 1 = i
    BY <2>1
  <2>4. QED BY <2>1, <2>2, <2>3
<1>2. /\ f[a] = IF n = 0 THEN NULL ELSE s[1]
      /\ l = IF n = 0 THEN a ELSE s[n]
      /\ \A i \in 1..n : f[s[i]] = IF i = n THEN NULL ELSE s[i + 1]
      /\ \A i \in 1..n : p[s[i]] = IF i = 1 THEN a ELSE s[i - 1]
  BY <1>0 DEF QueueEnds
<1> HIDE DEF t, n
<1>3. g[a] = t[1] /\ Len(t) # 0
  BY <1>1
<1>4. m = t[Len(t)]
  <2>1. n # 0 => n \in 1..n
    BY <1>1
  <2>2. QED BY <1>1, <1>2, <2>1 DEF n
<1>5. ASSUME NEW i \in 1..Len(t)
      PROVE  g[t[i]] = IF i = Len(t) THEN NULL ELSE t[i + 1]
  <2>1. CASE i = 1
    <3>1. n # 0 => 1 \in 1..n
      BY <1>1
    <3>2. QED BY <2>1, <3>1, <1>1, <1>2
  <2>2. CASE i # 1
    <3>0. n \in Nat /\ i \in 1..(n + 1)
      BY <1>1
    <3>1. /\ i - 1 \in 1..n /\ (i - 1) + 1 = i /\ (i = n + 1 <=> i - 1 = n)
          /\ i # n + 1 => i \in 1..n
      BY <2>2, <3>0
    <3>2. t[i] = s[i - 1] /\ (i # n + 1 => t[i + 1] = s[i])
      BY <3>1, <1>1
    <3>3. g[s[i - 1]] = IF i - 1 = n THEN NULL ELSE s[i]
      BY <3>1, <1>2 DEF n
    <3>4. QED BY <3>1, <3>2, <3>3, <1>1
  <2>3. QED BY <2>1, <2>2
<1>6. ASSUME NEW i \in 1..Len(t)
      PROVE  q[t[i]] = IF i = 1 THEN a ELSE t[i - 1]
  <2>1. CASE i = 1
    BY <2>1, <1>1
  <2>2. CASE i = 2
    <3>1. n # 0 /\ 1 \in 1..n /\ 1 + 1 = 2 /\ 2 - 1 = 1
      BY <2>2, <1>1
    <3>2. t[2] = s[1]
      BY <3>1, <1>1
    <3>3. QED BY <2>2, <3>1, <3>2, <1>1 DEF n
  <2>3. CASE i > 2
    <3>1. /\ i - 1 \in 2..n /\ i - 1 \in 1..n /\ i - 2 \in 1..n /\ i - 1 # 1
          /\ (i - 1) + 1 = i /\ (i - 2) + 1 = i - 1 /\ (i - 1) - 1 = i - 2
      BY <2>3, <1>1
    <3>2. t[i] = s[i - 1] /\ t[i - 1] = s[i - 2]
      <4>1. t[(i - 1) + 1] = s[i - 1] /\ t[(i - 2) + 1] = s[i - 2]
        BY <3>1, <1>1
      <4>2. QED BY <4>1, <3>1
    <3>3. q[s[i - 1]] = s[i - 2]
      BY <3>1, <1>2 DEF n
    <3>4. QED BY <2>3, <3>2, <3>3
  <2>4. QED BY <2>1, <2>2, <2>3, <1>1
<1>7. Queue(a, t, g, m, q)
  BY <1>1, <1>3, <1>4, <1>5, <1>6, QueueIntro DEF QueueEnds
<1>8. QED BY <1>7 DEF t

(* TAILQ_INSERT_TAIL *)
LEMMA QueueLast ==
  ASSUME NEW a, NEW s \in Seq(Elem), NEW f, NEW l, NEW p, Queue(a, s, f, l, p),
         NEW e \in Elem, NEW g, NEW q,
         g[e] = NULL, g[l] = e, \A i \in 0..(Len(s) - 1) : g[SlotAt(a, s, i)] = f[SlotAt(a, s, i)],
         q[e] = l, \A i \in 1..Len(s) : q[s[i]] = p[s[i]]
  PROVE  Queue(a, Append(s, e), g, e, q)
<1> DEFINE t == Append(s, e)
           n == Len(s)
<1>1. /\ t \in Seq(Elem) /\ Len(t) = n + 1 /\ n \in Nat /\ t[n + 1] = e
      /\ \A i \in 1..n : t[i] = s[i]
  BY AppendProperties, LenProperties
<1> HIDE DEF t, n
<1>2. \A i \in 0..n : SlotAt(a, t, i) = SlotAt(a, s, i)
  BY <1>1 DEF SlotAt
<1>3. l = SlotAt(a, s, n) /\ \A i \in 1..n : f[SlotAt(a, s, i - 1)] = s[i] /\ p[s[i]] = SlotAt(a, s, i - 1)
  BY DEF Queue, n
<1>4. ASSUME NEW i \in 1..(n + 1)
      PROVE  g[SlotAt(a, t, i - 1)] = t[i] /\ q[t[i]] = SlotAt(a, t, i - 1)
  <2>1. CASE i = n + 1
    <3>1. i - 1 = n /\ n \in 0..n
      BY <2>1, <1>1
    <3>2. QED BY <2>1, <3>1, <1>1, <1>2, <1>3
  <2>2. CASE i # n + 1
    <3>1. i \in 1..n /\ i - 1 \in 0..(n - 1) /\ i - 1 \in 0..n
      BY <2>2, <1>1
    <3>2. QED BY <3>1, <1>1, <1>2, <1>3 DEF n
  <2>3. QED BY <2>1, <2>2
<1>5. e = SlotAt(a, t, n + 1)
  BY <1>1 DEF SlotAt
<1>6. Queue(a, t, g, e, q)
  BY <1>1, <1>4, <1>5 DEF Queue
<1>7. QED BY <1>6 DEF t

(* TAILQ_REMOVE of the element at k *)
LEMMA QueueOut ==
  ASSUME NEW a, NEW s \in Seq(Elem), NEW f, NEW l, NEW p, Queue(a, s, f, l, p),
         IsInjective(s), NEW k \in 1..Len(s), NEW g, NEW m, NEW q,
         Unlinked(a, s, k, f, l, p, g, m, q)
  PROVE  Queue(a, RemoveAt(s, k), g, m, q)
<1>0. /\ g[p[s[k]]] = f[s[k]]
      /\ f[s[k]] # NULL => q[f[s[k]]] = p[s[k]]
      /\ m = IF f[s[k]] = NULL THEN p[s[k]] ELSE l
  BY DEF Unlinked
<1> DEFINE t == RemoveAt(s, k)
           n == Len(s)
<1>1. /\ t \in Seq(Elem) /\ Len(t) = n - 1 /\ n \in Nat /\ k \in 1..n
      /\ \A i \in 1..(n - 1) : t[i] = IF i < k THEN s[i] ELSE s[i + 1]
  <2>1. /\ t \in Seq(Elem) /\ Len(t) = n - 1
        /\ \A i \in 1..(n - 1) : t[i] = IF i < k THEN s[i] ELSE s[i + 1]
    BY ToSetRemoveAt
  <2>2. QED BY <2>1, LenProperties
<1>2. /\ \A i \in 1..n : f[SlotAt(a, s, i - 1)] = s[i] /\ p[s[i]] = SlotAt(a, s, i - 1)
      /\ l = SlotAt(a, s, n)
      /\ f[l] = NULL
  BY DEF Queue
<1>3. f[s[k]] = IF k = n THEN NULL ELSE s[k + 1]
  <2>1. QueueEnds(a, s, f, l, p)
    BY QueueFacts
  <2>2. QED BY <2>1 DEF QueueEnds
<1>4. \A i \in 1..n : s[i] \in Elem
  BY ElementOfSeq
<1> HIDE DEF t, n
<1>5. \A i \in 0..(n - 1) : SlotAt(a, t, i) = SlotAt(a, s, IF i < k THEN i ELSE i + 1)
  BY <1>1 DEF SlotAt
<1>6. /\ \A i \in 0..n : i # k - 1 /\ i # k => g[SlotAt(a, s, i)] = f[SlotAt(a, s, i)]
      /\ \A i \in 1..n : i # k /\ i # k + 1 => q[s[i]] = p[s[i]]
  BY DEF n, Unlinked
<1>7. p[s[k]] = SlotAt(a, s, k - 1)
  BY <1>1, <1>2
<1>8. k # n => s[k + 1] # NULL /\ q[s[k + 1]] = SlotAt(a, s, k - 1) /\ g[SlotAt(a, s, k - 1)] = s[k + 1]
  <2>1. k # n => k + 1 \in 1..n
    BY <1>1
  <2>2. QED BY <2>1, <1>0, <1>3, <1>4, <1>7, TailqAssumption
<1>9. ASSUME NEW i \in 1..(n - 1)
      PROVE  g[SlotAt(a, t, i - 1)] = t[i] /\ q[t[i]] = SlotAt(a, t, i - 1)
  <2>1. i - 1 \in 0..(n - 1) /\ i \in 1..n /\ i + 1 \in 1..n /\ (i + 1) - 1 = i /\ (i - 1) + 1 = i
    BY <1>1
  <2>2. CASE i < k
    <3>1. /\ t[i] = s[i] /\ SlotAt(a, t, i - 1) = SlotAt(a, s, i - 1)
          /\ i - 1 \in 0..n /\ i - 1 # k - 1 /\ i - 1 # k /\ i # k /\ i # k + 1
      BY <2>1, <2>2, <1>1, <1>5
    <3>2. QED BY <3>1, <2>1, <1>2, <1>6
  <2>3. CASE i = k
    <3>1. /\ t[i] = s[k + 1] /\ SlotAt(a, t, i - 1) = SlotAt(a, s, k - 1) /\ k # n
      BY <2>1, <2>3, <1>1, <1>5
    <3>2. QED BY <3>1, <1>8
  <2>4. CASE i > k
    <3>1. /\ t[i] = s[i + 1] /\ SlotAt(a, t, i - 1) = SlotAt(a, s, i)
          /\ i \in 0..n /\ i # k - 1 /\ i # k /\ i + 1 # k /\ i + 1 # k + 1
      BY <2>1, <2>4, <1>1, <1>5
    <3>2. f[SlotAt(a, s, i)] = s[i + 1] /\ p[s[i + 1]] = SlotAt(a, s, i)
      BY <2>1, <1>2
    <3>3. QED BY <3>1, <3>2, <2>1, <1>6
  <2>5. QED BY <2>1, <2>2, <2>3, <2>4, <1>1
<1>10. m = SlotAt(a, t, n - 1) /\ g[m] = NULL
  <2>1. CASE k = n
    <3>1. n - 1 \in 0..(n - 1) /\ n - 1 < k
      BY <2>1, <1>1
    <3>2. m = SlotAt(a, s, n - 1) /\ SlotAt(a, t, n - 1) = SlotAt(a, s, n - 1)
      BY <2>1, <3>1, <1>0, <1>3, <1>5, <1>7
    <3>3. QED BY <2>1, <3>2, <1>0, <1>3, <1>7
  <2>2. CASE k # n
    <3>1. /\ n - 1 \in 0..(n - 1) /\ ~(n - 1 < k) /\ (n - 1) + 1 = n
          /\ n \in 0..n /\ n # k - 1 /\ n # k
      BY <2>2, <1>1
    <3>2. SlotAt(a, t, n - 1) = SlotAt(a, s, n)
      BY <3>1, <1>5
    <3>3. m = l
      BY <2>2, <1>0, <1>3, <1>8
    <3>4. g[SlotAt(a, s, n)] = f[SlotAt(a, s, n)]
      BY <3>1, <1>6
    <3>5. QED BY <3>2, <3>3, <3>4, <1>2
  <2>3. QED BY <2>1, <2>2
<1>11. Queue(a, t, g, m, q)
  BY <1>1, <1>9, <1>10 DEF Queue
<1>12. QED BY <1>11 DEF t

(* A queue none of whose pointers is written *)
LEMMA QueueSame ==
  ASSUME NEW a, NEW s \in Seq(Elem), NEW f, NEW l, NEW p, Queue(a, s, f, l, p),
         NEW g, NEW q,
         \A i \in 0..Len(s) : g[SlotAt(a, s, i)] = f[SlotAt(a, s, i)],
         \A i \in 1..Len(s) : q[s[i]] = p[s[i]]
  PROVE  Queue(a, s, g, l, q)
<1>1. Len(s) \in Nat
  BY LenProperties
<1>2. Len(s) \in 0..Len(s) /\ \A i \in 1..Len(s) : i - 1 \in 0..Len(s)
  BY <1>1
<1>3. QED BY <1>2 DEF Queue

----------------------------------------------------------------------------
(* All queues *)

LEMMA OrderFacts ==
  ASSUME TailqTypeOK, NEW a \in Array
  PROVE  /\ order[a] \in Seq(Elem)
         /\ Len(order[a]) \in Nat
         /\ DOMAIN order[a] = 1..Len(order[a])
         /\ \A i \in 1..Len(order[a]) : order[a][i] \in Elem
         /\ order[a] = <<>> <=> Len(order[a]) = 0
<1>1. order[a] \in Seq(Elem) BY DEF TailqTypeOK
<1>2. QED BY <1>1, LenProperties, ElementOfSeq, EmptySeq

(* Apart, position by position *)
LEMMA PlaceFacts ==
  ASSUME TailqTypeOK, Apart
  PROVE  /\ \A a, b \in Array : \A i \in 1..Len(order[a]), j \in 1..Len(order[b]) :
              order[a][i] = order[b][j] => a = b /\ i = j
         /\ \A a \in Array : \A i \in 1..Len(order[a]) : node[order[a][i]] # NULL
         /\ \A e \in Elem : node[e] # NULL =>
              \E a \in arrays : \E i \in 1..Len(order[a]) : e = order[a][i]
<1>1. \A a \in Array : \A i \in 1..Len(order[a]) : order[a][i] \in ToSet(order[a])
  BY OrderFacts, ToSetDef
<1>2. \A a \in Array : ToSet(order[a]) = {order[a][i] : i \in 1..Len(order[a])}
  BY OrderFacts, ToSetDef
<1>3. ASSUME NEW a \in Array, NEW b \in Array,
             NEW i \in 1..Len(order[a]), NEW j \in 1..Len(order[b]), order[a][i] = order[b][j]
      PROVE  a = b /\ i = j
  <2>1. a = b
    BY <1>1, <1>3 DEF Apart
  <2>2. QED BY <1>3, <2>1, OrderFacts DEF Apart, IsInjective
<1>4. ASSUME NEW a \in Array, NEW i \in 1..Len(order[a])
      PROVE  node[order[a][i]] # NULL
  <2>1. order[a] # <<>> /\ order[a][i] \in Elem
    BY OrderFacts
  <2>2. a \in arrays
    BY <2>1 DEF Apart
  <2>3. QED BY <1>1, <2>1, <2>2 DEF Apart
<1>5. ASSUME NEW e \in Elem, node[e] # NULL
      PROVE  \E a \in arrays : \E i \in 1..Len(order[a]) : e = order[a][i]
  BY <1>2, <1>5 DEF Apart, TailqTypeOK
<1>6. QED BY <1>3, <1>4, <1>5

(* The slots of two queues are apart as their elements are. *)
LEMMA SlotFacts ==
  ASSUME TailqTypeOK, Apart, NEW a \in Array, NEW b \in Array,
         NEW i \in 0..Len(order[a]), NEW j \in 0..Len(order[b])
  PROVE  /\ SlotAt(a, order[a], i) \in Slot
         /\ SlotAt(a, order[a], i) = SlotAt(b, order[b], j) => a = b /\ i = j
<1>1. i # 0 => i \in 1..Len(order[a]) /\ order[a][i] \in Elem
  BY OrderFacts
<1>2. j # 0 => j \in 1..Len(order[b]) /\ order[b][j] \in Elem
  BY OrderFacts
<1>3. QED BY <1>1, <1>2, PlaceFacts, TailqAssumption DEF SlotAt, Slot

(* A step that writes only pointers of array a and of elements that are in its
   queue or in none leaves the other queues as they were.                     *)
LEMMA OtherQueue ==
  ASSUME TailqTypeOK, MemInv, NEW a \in Array, NEW b \in arrays, b # a,
         order'[b] = order[b], last'[b] = last[b],
         NEW W, W \cap Elem \subseteq ToSet(order[a]) \cup {e \in Elem : node[e] = NULL},
         W \cap Array \subseteq {a},
         \A c \in Slot \ W : at'[c] = at[c],
         \A e \in Elem \ W : prev'[e] = prev[e]
  PROVE  QueueOK(b)'
<1>1. b \in Array /\ order[b] \in Seq(Elem) /\ Queue(b, order[b], at, last[b], prev)
  BY DEF TailqTypeOK, MemInv, QueueOK
<1>2. \A i \in 1..Len(order[b]) : order[b][i] \in Elem \ W
  <2>1. \A i \in 1..Len(order[b]) : order[b][i] \in ToSet(order[b]) /\ order[b][i] \in Elem
    BY <1>1, OrderFacts, ToSetDef
  <2>2. \A i \in 1..Len(order[b]) : node[order[b][i]] # NULL
    BY <1>1, PlaceFacts DEF MemInv
  <2>3. QED BY <1>1, <2>1, <2>2 DEF MemInv, Apart
<1>3. \A i \in 0..Len(order[b]) : SlotAt(b, order[b], i) \in Slot \ W
  <2>1. Len(order[b]) \in Nat
    BY <1>1, OrderFacts
  <2>2. b \in Slot \ W
    BY <1>1 DEF Slot
  <2>3. \A i \in 0..Len(order[b]) : i # 0 => i \in 1..Len(order[b])
    BY <2>1
  <2>4. QED BY <1>2, <2>2, <2>3 DEF SlotAt, Slot
<1>4. Queue(b, order[b], at', last[b], prev')
  BY <1>1, <1>2, <1>3, QueueSame
<1>5. QED BY <1>4 DEF QueueOK

LEMMA ChecksHold ==
  ASSUME TailqTypeOK, MemInv
  PROVE  QmdChecks /\ WalkIsOrder
<1>1. ASSUME NEW a \in arrays
      PROVE  /\ a \in Array /\ order[a] \in Seq(Elem) /\ DOMAIN order[a] = 1..Len(order[a])
             /\ Len(order[a]) \in Nat
             /\ Queue(a, order[a], at, last[a], prev)
             /\ QueueEnds(a, order[a], at, last[a], prev)
  <2>1. a \in Array /\ Queue(a, order[a], at, last[a], prev)
    BY DEF TailqTypeOK, MemInv, QueueOK
  <2>2. QED BY <2>1, OrderFacts, QueueFacts
<1>2. ASSUME NEW a \in arrays PROVE CheckHead(a) /\ CheckTail(a)
  <2>1. Len(order[a]) # 0 => 1 \in 1..Len(order[a])
    BY <1>1
  <2>2. QED BY <1>1, <2>1 DEF CheckHead, CheckTail, QueueEnds, Queue
<1>3. ASSUME NEW e \in Elem, node[e] # NULL PROVE CheckNext(e) /\ CheckPrev(e)
  <2>1. PICK a \in arrays : \E i \in 1..Len(order[a]) : e = order[a][i]
    BY <1>3, PlaceFacts DEF MemInv
  <2>2. PICK i \in 1..Len(order[a]) : e = order[a][i]
    BY <2>1
  <2>3. CheckPrev(e)
    BY <1>1, <2>2 DEF CheckPrev, Queue
  <2>4. CASE i = Len(order[a])
    BY <1>1, <2>2, <2>3, <2>4 DEF CheckNext, QueueEnds
  <2>5. CASE i # Len(order[a])
    <3>1. i + 1 \in 1..Len(order[a]) /\ (i + 1) - 1 = i /\ i + 1 # 1
      BY <1>1, <2>5
    <3>2. at[e] = order[a][i + 1] /\ prev[order[a][i + 1]] = order[a][(i + 1) - 1]
      BY <1>1, <2>2, <2>5, <3>1 DEF QueueEnds
    <3>3. QED BY <2>2, <2>3, <3>1, <3>2 DEF CheckNext
  <2>6. QED BY <2>3, <2>4, <2>5
<1>4. WalkIsOrder
  BY <1>1 DEF WalkIsOrder, Queue
<1>5. QED BY <1>2, <1>3, <1>4 DEF QmdChecks

----------------------------------------------------------------------------
(* What the steps do to the invariant *)

LEMMA InitInv == Init => TailqInv
<1> SUFFICES ASSUME Init PROVE TailqInv
  OBVIOUS
<1>1. TailqTypeOK
  BY EmptySeq DEF Init, TailqTypeOK, Slot
<1>2. ToSet(<<>>) = {} /\ IsInjective(<<>>)
  BY DEF ToSet, IsInjective
<1>3. Apart
  <2>1. \A a \in Array : order[a] = <<>>
    BY DEF Init
  <2>2. \A e \in Elem : node[e] = NULL
    BY DEF Init
  <2>3. arrays = {}
    BY DEF Init
  <2>4. QED BY <1>2, <2>1, <2>2, <2>3 DEF Apart
<1>4. MemInv
  BY <1>3 DEF Init, MemInv
<1>5. WalkSoFar /\ DyingThere
  BY DEF Init, WalkSoFar, DyingThere
<1>6. QED BY <1>1, <1>4, <1>5 DEF TailqInv

LEMMA MemKept ==
  ASSUME MemInv, UNCHANGED mem
  PROVE  MemInv'
BY DEF mem, MemInv, Apart, QueueOK

(* Between the steps of pt_array_remove and of pt_free_node *)
LEMMA IdleKept ==
  ASSUME Idle, UNCHANGED <<walk, dying>>
  PROVE  WalkSoFar' /\ DyingThere'
BY DEF Idle, WalkSoFar, DyingThere

LEMMA ArrayNewInv ==
  ASSUME TailqInv, NEW a \in Array, ArrayNew(a)
  PROVE  TailqInv'
<1>1. /\ TailqTypeOK /\ MemInv /\ Apart /\ a \notin arrays /\ order[a] = <<>>
      /\ arrays \subseteq Array /\ a \in Slot /\ a \notin Elem
  BY TailqAssumption DEF TailqInv, MemInv, ArrayNew, Apart, TailqTypeOK, Slot
<1>2. /\ arrays' = arrays \cup {a} /\ at' = [at EXCEPT ![a] = NULL]
      /\ last' = [last EXCEPT ![a] = a]
      /\ UNCHANGED <<prev, node, order>> /\ UNCHANGED <<walk, dying>> /\ Idle
  BY DEF ArrayNew
<1>3. TailqTypeOK'
  BY <1>1, <1>2, TailqAssumption DEF TailqTypeOK, Slot
<1>4. Apart'
  <2>1. ToSet(order[a]) = {}
    BY <1>1 DEF ToSet
  <2>2. \A e \in Elem : node[e] # NULL <=> \E b \in arrays \cup {a} : e \in ToSet(order[b])
    BY <1>1, <2>1 DEF Apart
  <2>3. QED BY <1>1, <1>2, <2>2 DEF Apart
<1>5. ASSUME NEW b \in arrays PROVE QueueOK(b)'
  <2>1. b # a /\ b \in Array
    BY <1>1
  <2>2. /\ order'[b] = order[b] /\ last'[b] = last[b]
        /\ \A c \in Slot \ {a} : at'[c] = at[c]
        /\ \A e \in Elem \ {a} : prev'[e] = prev[e]
    BY <1>1, <1>2, <2>1 DEF TailqTypeOK
  <2>3. {a} \cap Elem = {} /\ {a} \cap Array \subseteq {a}
    BY <1>1
  <2>4. QED BY <1>1, <2>1, <2>2, <2>3, OtherQueue
<1>6. QueueOK(a)'
  <2>1. order'[a] = <<>> /\ Len(order'[a]) = 0 /\ order'[a] \in Seq(Elem)
    BY <1>1, <1>2, EmptySeq
  <2>2. last'[a] = a /\ at'[a] = NULL
    BY <1>1, <1>2 DEF TailqTypeOK
  <2>3. QED BY <2>1, <2>2 DEF QueueOK, Queue, SlotAt
<1>7. MemInv'
  BY <1>2, <1>4, <1>5, <1>6 DEF MemInv
<1>8. QED BY <1>2, <1>3, <1>7, IdleKept DEF TailqInv

(* An element that was in no queue is now in that of a. *)
LEMMA PutInApart ==
  ASSUME TailqTypeOK, Apart, NEW a \in arrays, NEW e \in Elem, NEW x \in Node,
         node[e] = NULL, arrays' = arrays, node' = [node EXCEPT ![e] = x],
         NEW t \in Seq(Elem), order' = [order EXCEPT ![a] = t],
         ToSet(t) = ToSet(order[a]) \cup {e},
         e \notin ToSet(order[a]) /\ IsInjective(order[a]) => IsInjective(t)
  PROVE  Apart'
<1>1. a \in Array /\ x # NULL
  BY TailqAssumption DEF TailqTypeOK
<1>2. order'[a] = t /\ \A b \in Array : b # a => order'[b] = order[b]
  BY <1>1 DEF TailqTypeOK
<1>3. \A b \in Array : e \notin ToSet(order[b])
  <2>1. \A b \in Array \ arrays : ToSet(order[b]) = {}
    BY DEF Apart, ToSet
  <2>2. QED BY <2>1 DEF Apart
<1>4. \A b \in Array : IsInjective(order'[b])
  BY <1>2, <1>3, <1>1 DEF Apart
<1>5. \A b, c \in Array : b # c => ToSet(order'[b]) \cap ToSet(order'[c]) = {}
  BY <1>1, <1>2, <1>3 DEF Apart
<1>6. \A f \in Elem : node'[f] # NULL <=> \E b \in arrays : f \in ToSet(order'[b])
  <2>1. \A f \in Elem : node'[f] = IF f = e THEN x ELSE node[f]
    BY DEF TailqTypeOK
  <2>2. \A f \in Elem, b \in arrays :
          f \in ToSet(order'[b]) <=> f \in ToSet(order[b]) \/ (b = a /\ f = e)
    BY <1>1, <1>2 DEF TailqTypeOK
  <2>3. QED BY <1>1, <2>1, <2>2 DEF Apart
<1>7. \A b \in Array \ arrays : order'[b] = <<>>
  BY <1>2 DEF Apart
<1>8. QED BY <1>4, <1>5, <1>6, <1>7 DEF Apart

(* What both pushes start from *)
LEMMA PutInFacts ==
  ASSUME TailqInv, NEW a \in arrays, NEW e \in Elem, node[e] = NULL
  PROVE  /\ TailqTypeOK /\ MemInv /\ Apart /\ a \in Array /\ arrays \subseteq Array
         /\ a \in Slot /\ e \in Slot /\ a # e /\ NULL \notin Elem
         /\ order[a] \in Seq(Elem) /\ Len(order[a]) \in Nat
         /\ Queue(a, order[a], at, last[a], prev)
         /\ QueueEnds(a, order[a], at, last[a], prev)
         /\ \A i \in 1..Len(order[a]) : order[a][i] \in Elem \ {e, a}
         /\ \A i, j \in 1..Len(order[a]) : order[a][i] = order[a][j] => i = j
         /\ at[a] \in ToSet(order[a]) \cup {NULL}
         /\ last[a] \in ToSet(order[a]) \cup {a}
<1>1. /\ TailqTypeOK /\ MemInv /\ Apart /\ a \in Array /\ arrays \subseteq Array
      /\ a \in Slot /\ e \in Slot /\ a # e /\ a \notin Elem /\ NULL \notin Elem
  BY TailqAssumption DEF TailqInv, MemInv, TailqTypeOK, Slot
<1>2. order[a] \in Seq(Elem) /\ Len(order[a]) \in Nat
  BY <1>1, OrderFacts
<1>3. Queue(a, order[a], at, last[a], prev)
  BY <1>1 DEF MemInv, QueueOK
<1>4. QueueEnds(a, order[a], at, last[a], prev)
  BY <1>2, <1>3, QueueFacts
<1>5. \A i \in 1..Len(order[a]) : order[a][i] \in Elem \ {e, a}
  BY <1>1, OrderFacts, PlaceFacts
<1>6. \A i, j \in 1..Len(order[a]) : order[a][i] = order[a][j] => i = j
  BY <1>1, PlaceFacts
<1>7. \A i \in 1..Len(order[a]) : order[a][i] \in ToSet(order[a])
  BY <1>2, ToSetDef
<1>8. Len(order[a]) # 0 => 1 \in 1..Len(order[a]) /\ Len(order[a]) \in 1..Len(order[a])
  BY <1>2
<1>9. at[a] \in ToSet(order[a]) \cup {NULL} /\ last[a] \in ToSet(order[a]) \cup {a}
  BY <1>4, <1>7, <1>8 DEF QueueEnds
<1>10. QED BY <1>1, <1>2, <1>3, <1>4, <1>5, <1>6, <1>9

LEMMA PushFrontInv ==
  ASSUME TailqInv, NEW a \in arrays, NEW e \in Elem, NEW x \in Node, PushFront(a, e, x)
  PROVE  TailqInv'
<1> DEFINE s == order[a]
           t == <<e>> \o s
<1>1. /\ at' = [at EXCEPT ![e] = at[a], ![a] = e]
      /\ IF at[a] # NULL
         THEN prev' = [prev EXCEPT ![at[a]] = e, ![e] = a] /\ last' = last
         ELSE prev' = [prev EXCEPT ![e] = a] /\ last' = [last EXCEPT ![a] = e]
      /\ order' = [order EXCEPT ![a] = t] /\ node' = [node EXCEPT ![e] = x]
      /\ arrays' = arrays /\ UNCHANGED <<walk, dying>> /\ Idle /\ node[e] = NULL
  BY DEF PushFront, NewElem, TailqInsertHead
<1>2. /\ TailqTypeOK /\ MemInv /\ Apart /\ a \in Array /\ arrays \subseteq Array
      /\ a \in Slot /\ e \in Slot /\ a # e /\ NULL \notin Elem
      /\ s \in Seq(Elem) /\ Len(s) \in Nat /\ Queue(a, s, at, last[a], prev)
      /\ \A i \in 1..Len(s) : s[i] \in Elem \ {e, a}
      /\ \A i, j \in 1..Len(s) : s[i] = s[j] => i = j
      /\ at[a] \in ToSet(s) \cup {NULL}
  BY <1>1, PutInFacts
<1>3. at[a] = IF Len(s) = 0 THEN NULL ELSE s[1]
  BY <1>1, PutInFacts DEF QueueEnds
<1>4. /\ t \in Seq(Elem) /\ ToSet(t) = ToSet(s) \cup {e}
      /\ e \notin ToSet(s) /\ IsInjective(s) => IsInjective(t)
  BY <1>2, ToSetCons
<1>5. order'[a] = t /\ \A b \in Array : b # a => order'[b] = order[b]
  BY <1>1, <1>2 DEF TailqTypeOK
<1>6. /\ at'[a] = e /\ at'[e] = at[a] /\ \A c \in Slot \ {a, e} : at'[c] = at[c]
      /\ at' \in [Slot -> Elem \cup {NULL, JUNK}]
  BY <1>1, <1>2 DEF TailqTypeOK
<1>7. /\ prev'[e] = a /\ (at[a] # NULL => prev'[at[a]] = e)
      /\ \A f \in Elem \ {e, at[a]} : prev'[f] = prev[f]
      /\ prev' \in [Elem -> Slot \cup {JUNK}]
  <2>1. CASE at[a] = NULL
    <3>1. prev' = [prev EXCEPT ![e] = a]
      BY <2>1, <1>1
    <3>2. prev \in [Elem -> Slot \cup {JUNK}]
      BY <1>2 DEF TailqTypeOK
    <3>3. QED BY <2>1, <3>1, <3>2, <1>2
  <2>2. CASE at[a] # NULL
    <3>1. at[a] \in Elem /\ at[a] # e
      BY <2>2, <1>2, <1>3
    <3>2. prev' = [prev EXCEPT ![at[a]] = e, ![e] = a]
      BY <2>2, <1>1
    <3>3. QED BY <3>1, <3>2, <1>2 DEF TailqTypeOK
  <2>3. QED BY <2>1, <2>2
<1>8. /\ last'[a] = IF Len(s) = 0 THEN e ELSE last[a]
      /\ \A b \in Array : b # a => last'[b] = last[b]
      /\ last' \in [Array -> Slot \cup {JUNK}]
  <2>1. CASE Len(s) = 0
    <3>1. last' = [last EXCEPT ![a] = e] /\ last \in [Array -> Slot \cup {JUNK}]
      BY <2>1, <1>1, <1>2, <1>3 DEF TailqTypeOK
    <3>2. QED BY <2>1, <3>1, <1>2
  <2>2. CASE Len(s) # 0
    <3>1. 1 \in 1..Len(s)
      BY <2>2, <1>2
    <3>2. at[a] # NULL
      BY <2>2, <3>1, <1>2, <1>3
    <3>3. last' = last /\ last \in [Array -> Slot \cup {JUNK}]
      BY <3>2, <1>1, <1>2 DEF TailqTypeOK
    <3>4. QED BY <2>2, <3>3
  <2>3. QED BY <2>1, <2>2
<1> HIDE DEF s, t
<1>9. TailqTypeOK'
  <2>1. order' \in [Array -> Seq(Elem)] /\ node' \in [Elem -> Node \cup {NULL}]
    BY <1>1, <1>2, <1>4 DEF TailqTypeOK
  <2>2. at[a] # JUNK /\ e # JUNK /\ a # JUNK
    BY <1>2, TailqAssumption DEF TailqTypeOK
  <2>3. \A b \in arrays : at'[b] # JUNK /\ last'[b] # JUNK
    <3>1. \A b \in arrays : b \in Slot /\ b \in Array /\ at[b] # JUNK /\ last[b] # JUNK
      BY <1>2 DEF TailqTypeOK, Slot
    <3>2. QED BY <1>6, <1>8, <2>2, <3>1
  <2>4. \A f \in Elem : node'[f] # NULL => at'[f] # JUNK /\ prev'[f] # JUNK
    <3>1. \A f \in Elem : f \in Slot /\ (f # e => node'[f] = node[f])
      BY <1>1 DEF TailqTypeOK, Slot
    <3>2. \A f \in Elem : node[f] # NULL => at[f] # JUNK /\ prev[f] # JUNK
      BY <1>2 DEF TailqTypeOK
    <3>3. \A f \in Elem : f # a
      BY <1>2, TailqAssumption
    <3>4. \A f \in Elem : at'[f] = IF f = e THEN at[a] ELSE at[f]
      BY <1>6, <3>1, <3>3
    <3>5. \A f \in Elem : prev'[f] = IF f = e THEN a ELSE IF f = at[a] THEN e ELSE prev[f]
      BY <1>2, <1>7
    <3>6. QED BY <2>2, <3>1, <3>2, <3>4, <3>5
  <2>5. QED BY <1>1, <1>2, <1>6, <1>7, <1>8, <2>1, <2>3, <2>4 DEF TailqTypeOK
<1>10. Apart'
  BY <1>1, <1>2, <1>4, PutInApart DEF s
<1>11. ASSUME NEW b \in arrays, b # a PROVE QueueOK(b)'
  <2> DEFINE W == {a, e, at[a]}
  <2>1. /\ order'[b] = order[b] /\ last'[b] = last[b]
        /\ \A c \in Slot \ W : at'[c] = at[c]
        /\ \A f \in Elem \ W : prev'[f] = prev[f]
    BY <1>2, <1>5, <1>6, <1>7, <1>8, <1>11
  <2>2. /\ W \cap Elem \subseteq ToSet(order[a]) \cup {f \in Elem : node[f] = NULL}
        /\ W \cap Array \subseteq {a}
    <3>1. ToSet(s) \subseteq Elem /\ NULL \notin Array /\ a \notin Elem
      BY <1>2, ToSetDef, TailqAssumption
    <3>2. QED BY <1>1, <1>2, <3>1, TailqAssumption DEF s
  <2> HIDE DEF W
  <2>3. QED BY <1>2, <1>11, <2>1, <2>2, OtherQueue
<1>12. QueueOK(a)'
  <2>1. Queue(a, t, at', last'[a], prev')
    <3>1. \A i \in 1..Len(s) : at'[s[i]] = at[s[i]]
      BY <1>2, <1>6 DEF Slot
    <3>2. Len(s) # 0 => prev'[s[1]] = e
      <4>1. Len(s) # 0 => 1 \in 1..Len(s)
        BY <1>2
      <4>2. QED BY <4>1, <1>2, <1>3, <1>7
    <3>3. \A i \in 2..Len(s) : prev'[s[i]] = prev[s[i]]
      <4>1. \A i \in 2..Len(s) : i \in 1..Len(s) /\ 1 \in 1..Len(s) /\ i # 1 /\ Len(s) # 0
        BY <1>2
      <4>2. QED BY <4>1, <1>2, <1>3, <1>7
    <3>4. QED BY <1>2, <1>6, <1>7, <1>8, <3>1, <3>2, <3>3, QueueFirst DEF t
  <2>2. QED BY <2>1, <1>5 DEF QueueOK
<1>13. MemInv'
  BY <1>1, <1>10, <1>11, <1>12 DEF MemInv
<1>14. QED BY <1>1, <1>9, <1>13, IdleKept DEF TailqInv

LEMMA PushBackInv ==
  ASSUME TailqInv, NEW a \in arrays, NEW e \in Elem, NEW x \in Node, PushBack(a, e, x)
  PROVE  TailqInv'
<1> DEFINE s == order[a]
           t == Append(s, e)
<1>1. /\ at' = [at EXCEPT ![e] = NULL, ![last[a]] = e]
      /\ prev' = [prev EXCEPT ![e] = last[a]]
      /\ last' = [last EXCEPT ![a] = e]
      /\ order' = [order EXCEPT ![a] = t] /\ node' = [node EXCEPT ![e] = x]
      /\ arrays' = arrays /\ UNCHANGED <<walk, dying>> /\ Idle /\ node[e] = NULL
  BY DEF PushBack, NewElem, TailqInsertTail
<1>2. /\ TailqTypeOK /\ MemInv /\ Apart /\ a \in Array /\ arrays \subseteq Array
      /\ a \in Slot /\ e \in Slot /\ a # e
      /\ s \in Seq(Elem) /\ Len(s) \in Nat /\ Queue(a, s, at, last[a], prev)
      /\ \A i \in 1..Len(s) : s[i] \in Elem \ {e, a}
      /\ last[a] \in ToSet(s) \cup {a}
  BY <1>1, PutInFacts
<1>3. /\ t \in Seq(Elem) /\ ToSet(t) = ToSet(s) \cup {e}
      /\ e \notin ToSet(s) /\ IsInjective(s) => IsInjective(t)
  BY <1>2, ToSetAppend
<1>4. last[a] \in Slot /\ last[a] # e /\ ToSet(s) \subseteq Elem
  BY <1>2, ToSetDef DEF Slot
<1>5. order'[a] = t /\ \A b \in Array : b # a => order'[b] = order[b]
  BY <1>1, <1>2 DEF TailqTypeOK
<1>6. /\ at'[last[a]] = e /\ at'[e] = NULL
      /\ \A c \in Slot \ {last[a], e} : at'[c] = at[c]
      /\ at' \in [Slot -> Elem \cup {NULL, JUNK}]
  BY <1>1, <1>2, <1>4 DEF TailqTypeOK
<1>7. /\ prev'[e] = last[a] /\ \A f \in Elem \ {e} : prev'[f] = prev[f]
      /\ prev' \in [Elem -> Slot \cup {JUNK}]
  BY <1>1, <1>2, <1>4 DEF TailqTypeOK
<1>8. /\ last'[a] = e /\ \A b \in Array : b # a => last'[b] = last[b]
      /\ last' \in [Array -> Slot \cup {JUNK}]
  BY <1>1, <1>2 DEF TailqTypeOK
<1> HIDE DEF s, t
<1>9. TailqTypeOK'
  <2>1. order' \in [Array -> Seq(Elem)] /\ node' \in [Elem -> Node \cup {NULL}]
    BY <1>1, <1>2, <1>3 DEF TailqTypeOK
  <2>2. e # JUNK /\ last[a] # JUNK /\ NULL # JUNK
    BY <1>2, TailqAssumption DEF TailqTypeOK
  <2>3. \A b \in arrays : at'[b] # JUNK /\ last'[b] # JUNK
    <3>1. \A b \in arrays : b \in Slot /\ b \in Array /\ at[b] # JUNK /\ last[b] # JUNK
      BY <1>2 DEF TailqTypeOK, Slot
    <3>2. QED BY <1>6, <1>8, <2>2, <3>1
  <2>4. \A f \in Elem : node'[f] # NULL => at'[f] # JUNK /\ prev'[f] # JUNK
    <3>1. \A f \in Elem : f \in Slot /\ (f # e => node'[f] = node[f])
      BY <1>1 DEF TailqTypeOK, Slot
    <3>2. \A f \in Elem : node[f] # NULL => at[f] # JUNK /\ prev[f] # JUNK
      BY <1>2 DEF TailqTypeOK
    <3>3. QED BY <1>6, <1>7, <2>2, <3>1, <3>2
  <2>5. QED BY <1>1, <1>2, <1>6, <1>7, <1>8, <2>1, <2>3, <2>4 DEF TailqTypeOK
<1>10. Apart'
  BY <1>1, <1>2, <1>3, PutInApart DEF s
<1>11. ASSUME NEW b \in arrays, b # a PROVE QueueOK(b)'
  <2> DEFINE W == {e, last[a]}
  <2>1. /\ order'[b] = order[b] /\ last'[b] = last[b]
        /\ \A c \in Slot \ W : at'[c] = at[c]
        /\ \A f \in Elem \ W : prev'[f] = prev[f]
    BY <1>2, <1>5, <1>6, <1>7, <1>8, <1>11
  <2>2. /\ W \cap Elem \subseteq ToSet(order[a]) \cup {f \in Elem : node[f] = NULL}
        /\ W \cap Array \subseteq {a}
    BY <1>1, <1>2, <1>4, TailqAssumption DEF s
  <2> HIDE DEF W
  <2>3. QED BY <1>2, <1>11, <2>1, <2>2, OtherQueue
<1>12. QueueOK(a)'
  <2>1. last[a] = SlotAt(a, s, Len(s))
    BY <1>2 DEF Queue
  <2>2. \A i \in 0..(Len(s) - 1) :
          SlotAt(a, s, i) \in Slot \ {e} /\ SlotAt(a, s, i) # last[a]
    <3>1. ASSUME NEW i \in 0..(Len(s) - 1)
          PROVE  /\ SlotAt(a, s, i) \in Slot /\ SlotAt(a, s, i) # SlotAt(a, s, Len(s))
                 /\ SlotAt(a, s, i) # e
      <4>1. i \in 0..Len(s) /\ Len(s) \in 0..Len(s) /\ i # Len(s)
        BY <1>2
      <4>2. i # 0 => i \in 1..Len(s)
        BY <1>2
      <4>3. QED BY <1>2, <4>1, <4>2, SlotFacts DEF s, SlotAt
    <3>2. QED BY <2>1, <3>1
  <2>3. \A i \in 0..(Len(s) - 1) : at'[SlotAt(a, s, i)] = at[SlotAt(a, s, i)]
    BY <1>6, <2>2
  <2>4. \A i \in 1..Len(s) : prev'[s[i]] = prev[s[i]]
    BY <1>2, <1>7
  <2>5. Queue(a, t, at', e, prev')
    BY <1>2, <1>6, <1>7, <2>3, <2>4, QueueLast DEF t
  <2>6. QED BY <2>5, <1>5, <1>8 DEF QueueOK
<1>13. MemInv'
  BY <1>1, <1>10, <1>11, <1>12 DEF MemInv
<1>14. QED BY <1>1, <1>9, <1>13, IdleKept DEF TailqInv

(* The element at position k of the queue of a goes. *)
LEMMA RemoveInv ==
  ASSUME TailqTypeOK, MemInv, NEW a \in arrays, NEW k \in 1..Len(order[a]),
         TailqRemove(a, order[a][k]),
         walk' = NULL, dying' \in Seq(Array)
  PROVE  TailqTypeOK' /\ MemInv' /\ order'[a] = RemoveAt(order[a], k)
<1> DEFINE s == order[a]
           e == s[k]
           t == RemoveAt(s, k)
<1>1. /\ IF at[e] # NULL
         THEN prev' = [prev EXCEPT ![at[e]] = prev[e], ![e] = JUNK] /\ last' = last
         ELSE prev' = [prev EXCEPT ![e] = JUNK] /\ last' = [last EXCEPT ![a] = prev[e]]
      /\ at' = [at EXCEPT ![prev[e]] = at[e], ![e] = JUNK]
      /\ node' = [node EXCEPT ![e] = NULL]
      /\ order' = [order EXCEPT ![a] = Unlink(s, e)]
      /\ arrays' = arrays
  BY DEF TailqRemove
<1>2. /\ Apart /\ a \in Array /\ arrays \subseteq Array /\ a \in Slot /\ a \notin Elem
      /\ NULL \notin Elem /\ s \in Seq(Elem) /\ Len(s) \in Nat /\ DOMAIN s = 1..Len(s)
      /\ IsInjective(s)
      /\ \A i \in 1..Len(s) : s[i] \in Elem /\ s[i] \in ToSet(s)
  BY OrderFacts, ToSetDef, TailqAssumption DEF MemInv, TailqTypeOK, Slot, Apart
<1>3. Queue(a, s, at, last[a], prev) /\ QueueEnds(a, s, at, last[a], prev)
  BY <1>2, QueueFacts DEF MemInv, QueueOK
<1>4. \A i, j \in 1..Len(s) : s[i] = s[j] => i = j
  BY <1>2 DEF IsInjective
<1>5. Unlink(s, e) = t
  <2>1. k = CHOOSE i \in DOMAIN s : s[i] = e
    BY <1>2, <1>4
  <2>2. QED BY <2>1 DEF Unlink
<1>6. /\ t \in Seq(Elem) /\ ToSet(t) = ToSet(s) \ {e} /\ IsInjective(t)
  BY <1>2, ToSetRemoveAt
<1>7. /\ e \in Elem /\ e \in Slot /\ e # a /\ e \in ToSet(s) /\ node[e] # NULL
      /\ prev[e] \in ToSet(s) \cup {a} /\ prev[e] \in Slot /\ prev[e] # e /\ prev[e] # JUNK
      /\ at[e] \in ToSet(s) \cup {NULL} /\ at[e] \in Elem \cup {NULL} /\ at[e] # e /\ at[e] # JUNK
  <2>1. e \in Elem /\ e \in Slot /\ e # a /\ e \in ToSet(s) /\ node[e] # NULL
    BY <1>2, PlaceFacts DEF Slot
  <2>2. prev[e] \in ToSet(s) \cup {a} /\ prev[e] # e
    <3>1. k # 1 => k - 1 \in 1..Len(s) /\ k - 1 # k
      BY <1>2
    <3>2. prev[e] = IF k = 1 THEN a ELSE s[k - 1]
      BY <1>3 DEF QueueEnds
    <3>3. QED BY <3>1, <3>2, <2>1, <1>2, <1>4
  <2>3. at[e] \in ToSet(s) \cup {NULL} /\ at[e] # e
    <3>1. k # Len(s) => k + 1 \in 1..Len(s) /\ k + 1 # k
      BY <1>2
    <3>2. at[e] = IF k = Len(s) THEN NULL ELSE s[k + 1]
      BY <1>3 DEF QueueEnds
    <3>3. QED BY <3>1, <3>2, <2>1, <1>2, <1>4
  <2>4. ToSet(s) \subseteq Elem
    BY <1>2, ToSetDef
  <2>5. at[e] # JUNK /\ prev[e] # JUNK
    BY <2>1 DEF TailqTypeOK
  <2>6. QED BY <2>1, <2>2, <2>3, <2>4, <2>5, <1>2 DEF Slot
<1>8. order'[a] = t /\ (\A b \in Array : b # a => order'[b] = order[b])
      /\ order' \in [Array -> Seq(Elem)]
  BY <1>1, <1>2, <1>5, <1>6 DEF TailqTypeOK
<1> HIDE DEF s, e, t
<1>9. /\ \A f \in Elem : node'[f] = IF f = e THEN NULL ELSE node[f]
      /\ node' \in [Elem -> Node \cup {NULL}]
  BY <1>1, <1>7 DEF TailqTypeOK
<1>10. /\ \A c \in Slot : at'[c] = IF c = e THEN JUNK ELSE IF c = prev[e] THEN at[e] ELSE at[c]
       /\ at' \in [Slot -> Elem \cup {NULL, JUNK}]
  BY <1>1, <1>7 DEF TailqTypeOK
<1>11. /\ \A f \in Elem : prev'[f] = IF f = e THEN JUNK ELSE IF f = at[e] THEN prev[e] ELSE prev[f]
       /\ prev' \in [Elem -> Slot \cup {JUNK}]
  <2>1. CASE at[e] = NULL
    BY <2>1, <1>1, <1>2, <1>7 DEF TailqTypeOK
  <2>2. CASE at[e] # NULL
    BY <2>2, <1>1, <1>2, <1>7 DEF TailqTypeOK
  <2>3. QED BY <2>1, <2>2
<1>12. /\ last'[a] = IF at[e] = NULL THEN prev[e] ELSE last[a]
       /\ \A b \in Array : b # a => last'[b] = last[b]
       /\ last' \in [Array -> Slot \cup {JUNK}]
  BY <1>1, <1>2, <1>7 DEF TailqTypeOK
<1>13. TailqTypeOK'
  <2>1. \A b \in arrays : at'[b] # JUNK /\ last'[b] # JUNK
    <3>1. \A b \in arrays : b \in Slot /\ b \in Array /\ b # e /\ at[b] # JUNK /\ last[b] # JUNK
      BY <1>2, <1>7, TailqAssumption DEF TailqTypeOK, Slot
    <3>2. QED BY <1>7, <1>10, <1>12, <3>1
  <2>2. \A f \in Elem : node'[f] # NULL => at'[f] # JUNK /\ prev'[f] # JUNK
    <3>1. \A f \in Elem : f \in Slot /\ (node[f] # NULL => at[f] # JUNK /\ prev[f] # JUNK)
      BY DEF TailqTypeOK, Slot
    <3>2. QED BY <1>7, <1>9, <1>10, <1>11, <3>1
  <2>3. QED BY <1>1, <1>2, <1>8, <1>9, <1>10, <1>11, <1>12, <2>1, <2>2 DEF TailqTypeOK
<1>14. Apart'
  <2>1. \A b \in Array : IsInjective(order'[b])
    BY <1>2, <1>6, <1>8 DEF Apart
  <2>2. \A b \in Array : ToSet(order'[b]) = ToSet(order[b]) \ {e}
    <3>1. \A b \in Array : b # a => e \notin ToSet(order[b])
      BY <1>2, <1>7 DEF Apart, s
    <3>2. QED BY <1>6, <1>8, <3>1 DEF s
  <2>3. \A b, c \in Array : b # c => ToSet(order'[b]) \cap ToSet(order'[c]) = {}
    BY <1>2, <2>2 DEF Apart
  <2>4. \A f \in Elem : node'[f] # NULL <=> \E b \in arrays : f \in ToSet(order'[b])
    <3>1. \A f \in Elem : node[f] # NULL <=> \E b \in arrays : f \in ToSet(order[b])
      BY <1>2 DEF Apart
    <3>2. SUFFICES ASSUME NEW f \in Elem
                   PROVE  node'[f] # NULL <=> \E b \in arrays : f \in ToSet(order'[b])
      OBVIOUS
    <3>3. \A b \in arrays : f \in ToSet(order'[b]) <=> f \in ToSet(order[b]) /\ f # e
      BY <1>2, <2>2
    <3>4. node'[f] = IF f = e THEN NULL ELSE node[f]
      BY <1>9
    <3>5. QED BY <3>1, <3>3, <3>4
  <2>5. \A b \in Array \ arrays : order'[b] = <<>>
    BY <1>2, <1>8 DEF Apart
  <2>6. QED BY <1>1, <2>1, <2>3, <2>4, <2>5 DEF Apart
<1>15. ASSUME NEW b \in arrays, b # a PROVE QueueOK(b)'
  <2> DEFINE W == {e, prev[e], at[e]}
  <2>1. /\ order'[b] = order[b] /\ last'[b] = last[b]
        /\ \A c \in Slot \ W : at'[c] = at[c]
        /\ \A f \in Elem \ W : prev'[f] = prev[f]
    BY <1>2, <1>8, <1>10, <1>11, <1>12, <1>15
  <2>2. /\ W \cap Elem \subseteq ToSet(order[a]) \cup {f \in Elem : node[f] = NULL}
        /\ W \cap Array \subseteq {a}
    <3>1. ToSet(s) \subseteq Elem
      BY <1>2, ToSetDef
    <3>2. QED BY <1>2, <1>7, <3>1, TailqAssumption DEF s
  <2> HIDE DEF W
  <2>3. QED BY <1>2, <1>15, <2>1, <2>2, OtherQueue
<1>16. QueueOK(a)'
  <2>1. prev[e] = SlotAt(a, s, k - 1) /\ e = SlotAt(a, s, k)
    BY <1>2, <1>3 DEF Queue, SlotAt, e, s
  <2>2. ASSUME NEW i \in 0..Len(s), i # k - 1, i # k
        PROVE  at'[SlotAt(a, s, i)] = at[SlotAt(a, s, i)]
    <3>1. k - 1 \in 0..Len(s) /\ k \in 0..Len(s)
      BY <1>2 DEF s
    <3>2. SlotAt(a, s, i) \in Slot /\ SlotAt(a, s, i) # e /\ SlotAt(a, s, i) # prev[e]
      BY <1>2, <2>1, <2>2, <3>1, SlotFacts DEF s
    <3>3. QED BY <1>10, <3>2
  <2>3. ASSUME NEW i \in 1..Len(s), i # k, i # k + 1
        PROVE  prev'[s[i]] = prev[s[i]]
    <3>1. s[i] # e
      BY <1>4, <2>3 DEF e, s
    <3>2. s[i] # at[e]
      <4>1. k # Len(s) => k + 1 \in 1..Len(s)
        BY <1>2 DEF s
      <4>2. at[e] = IF k = Len(s) THEN NULL ELSE s[k + 1]
        BY <1>3 DEF QueueEnds, e, s
      <4>3. QED BY <1>2, <1>4, <2>3, <4>1, <4>2
    <3>3. QED BY <1>2, <1>11, <3>1, <3>2
  <2>4. at'[prev[e]] = at[e] /\ (at[e] # NULL => prev'[at[e]] = prev[e])
    BY <1>7, <1>10, <1>11
  <2>5. k \in 1..Len(s)
    BY DEF s
  <2>6. Queue(a, t, at', last'[a], prev')
    <3>1. Unlinked(a, s, k, at, last[a], prev, at', last'[a], prev')
      BY <1>12, <2>2, <2>3, <2>4 DEF e, Unlinked
    <3>2. QED BY <1>2, <1>3, <2>5, <3>1, QueueOut DEF t
  <2>7. QED BY <2>6, <1>8 DEF QueueOK
<1>17. MemInv'
  BY <1>1, <1>14, <1>15, <1>16 DEF MemInv
<1>18. QED BY <1>8, <1>13, <1>17 DEF s, t

----------------------------------------------------------------------------
(* pt_array_remove *)

LEMMA RemoveBeginInv ==
  ASSUME TailqInv, NEW a \in arrays, NEW x \in Node, RemoveBegin(a, x)
  PROVE  TailqInv'
<1>1. /\ walk' = [array |-> a, node |-> x, cur |-> at[a]]
      /\ UNCHANGED mem /\ dying' = <<>> /\ dying' = dying
      /\ arrays' = arrays /\ order' = order /\ node' = node
  BY DEF RemoveBegin, Idle, mem
<1>2. /\ a \in Array /\ order[a] \in Seq(Elem) /\ Len(order[a]) \in Nat
      /\ QueueEnds(a, order[a], at, last[a], prev)
  BY OrderFacts, QueueFacts DEF TailqInv, TailqTypeOK, MemInv, QueueOK
<1>3. at[a] \in Elem \cup {NULL}
  BY <1>2 DEF TailqInv, TailqTypeOK, Slot
<1>4. TailqTypeOK'
  BY <1>1, <1>2, <1>3 DEF TailqInv, TailqTypeOK, mem
<1>5. Passed(walk, order[walk.array], 0)'
  <2>1. walk'.array = a /\ walk'.node = x /\ walk'.cur = at[a]
    BY <1>1
  <2>2. /\ walk'.cur = IF 0 < Len(order'[a]) THEN order'[a][0 + 1] ELSE NULL
        /\ \A i \in 1..0 : node'[order'[a][i]] # x
    BY <1>1, <1>2, <2>1 DEF QueueEnds
  <2>3. QED BY <2>1, <2>2 DEF Passed
<1>6. 0 \in 0..Len(order'[walk'.array]) /\ walk'.array \in arrays'
  BY <1>1, <1>2
<1>7. WalkSoFar'
  BY <1>1, <1>5, <1>6 DEF WalkSoFar
<1>8. MemInv' /\ DyingThere'
  BY <1>1, MemKept DEF TailqInv, DyingThere
<1>9. QED BY <1>4, <1>7, <1>8 DEF TailqInv

(* Where the walk is *)
LEMMA WalkFacts ==
  ASSUME TailqInv, walk # NULL, NEW a, a = walk.array, NEW s, s = order[a]
  PROVE  /\ a \in arrays /\ a \in Array /\ walk.node \in Node /\ walk.cur \in Elem \cup {NULL}
         /\ walk = [array |-> a, node |-> walk.node, cur |-> walk.cur]
         /\ dying = <<>>
         /\ s \in Seq(Elem) /\ Len(s) \in Nat /\ \A i \in 1..Len(s) : s[i] \in Elem
         /\ QueueEnds(a, s, at, last[a], prev)
         /\ walk.cur # NULL =>
              \E n \in 1..Len(s) : /\ walk.cur = s[n]
                                    /\ \A i \in 1..(n - 1) : node[s[i]] # walk.node
         /\ walk.cur = NULL => \A i \in 1..Len(s) : node[s[i]] # walk.node
<1>1. /\ a \in arrays /\ a \in Array /\ walk.node \in Node /\ walk.cur \in Elem \cup {NULL}
      /\ walk = [array |-> a, node |-> walk.node, cur |-> walk.cur]
      /\ dying = <<>>
  BY DEF TailqInv, TailqTypeOK, WalkSoFar
<1>2. /\ s \in Seq(Elem) /\ Len(s) \in Nat /\ \A i \in 1..Len(s) : s[i] \in Elem
  BY <1>1, OrderFacts DEF TailqInv
<1>3. QueueEnds(a, s, at, last[a], prev)
  BY <1>1, <1>2, QueueFacts DEF TailqInv, MemInv, QueueOK
<1>4. PICK n \in 0..Len(s) : Passed(walk, s, n)
  BY DEF TailqInv, WalkSoFar
<1>5. CASE n < Len(s)
  <2>1. n + 1 \in 1..Len(s) /\ (n + 1) - 1 = n
    BY <1>2, <1>5
  <2>2. walk.cur = s[n + 1] /\ \A i \in 1..((n + 1) - 1) : node[s[i]] # walk.node
    BY <1>4, <1>5, <2>1 DEF Passed
  <2>3. walk.cur # NULL
    BY <1>2, <2>1, <2>2, TailqAssumption
  <2>4. QED BY <1>1, <1>2, <1>3, <2>1, <2>2, <2>3
<1>6. CASE n = Len(s)
  BY <1>1, <1>2, <1>3, <1>4, <1>6 DEF Passed
<1>7. QED BY <1>2, <1>5, <1>6

LEMMA RemoveNextInv ==
  ASSUME TailqInv, RemoveNext
  PROVE  TailqInv'
<1> DEFINE a == walk.array
           s == order[a]
<1>1. /\ walk # NULL /\ walk.cur # NULL /\ node[walk.cur] # walk.node
      /\ walk' = [walk EXCEPT !.cur = at[walk.cur]]
      /\ UNCHANGED mem /\ dying' = dying /\ arrays' = arrays /\ order' = order /\ node' = node
  BY DEF RemoveNext, mem
<1>2. /\ a \in arrays /\ a \in Array /\ walk.node \in Node /\ walk.cur \in Elem
      /\ walk = [array |-> a, node |-> walk.node, cur |-> walk.cur] /\ dying = <<>>
      /\ Len(s) \in Nat
      /\ QueueEnds(a, s, at, last[a], prev)
      /\ \E n \in 1..Len(s) : walk.cur = s[n] /\ \A i \in 1..(n - 1) : node[s[i]] # walk.node
  BY <1>1, WalkFacts
<1>3. PICK n \in 1..Len(s) : walk.cur = s[n] /\ \A i \in 1..(n - 1) : node[s[i]] # walk.node
  BY <1>2
<1>4. at[walk.cur] = IF n < Len(s) THEN s[n + 1] ELSE NULL
  BY <1>2, <1>3 DEF QueueEnds
<1>5. walk' = [array |-> a, node |-> walk.node, cur |-> at[walk.cur]]
  BY <1>1, <1>2
<1>6. n \in 0..Len(s) /\ \A i \in 1..n : i = n \/ i \in 1..(n - 1)
  BY <1>2
<1>7. walk'.array = a /\ walk'.node = walk.node /\ walk'.cur = at[walk.cur]
  BY <1>5
<1>8. Passed(walk, order[walk.array], n)'
  BY <1>1, <1>3, <1>4, <1>6, <1>7 DEF Passed
<1>9. WalkSoFar'
  BY <1>1, <1>2, <1>6, <1>7, <1>8 DEF WalkSoFar
<1>10. TailqTypeOK'
  <2>1. at[walk.cur] \in Elem \cup {NULL}
    <3>1. n < Len(s) => n + 1 \in 1..Len(s)
      BY <1>2
    <3>2. \A i \in 1..Len(s) : s[i] \in Elem
      BY <1>1, WalkFacts
    <3>3. QED BY <1>4, <3>1, <3>2
  <2>2. walk' \in [array : Array, node : Node, cur : Elem \cup {NULL}]
    BY <1>2, <1>5, <2>1
  <2>3. QED BY <1>1, <2>2 DEF TailqInv, TailqTypeOK, mem
<1>11. MemInv' /\ DyingThere'
  BY <1>1, MemKept DEF TailqInv, DyingThere
<1>12. QED BY <1>9, <1>10, <1>11 DEF TailqInv

LEMMA RemoveFoundInv ==
  ASSUME TailqInv, RemoveFound
  PROVE  TailqInv'
<1> DEFINE a == walk.array
           s == order[a]
<1>1. /\ walk # NULL /\ walk.cur # NULL /\ TailqRemove(a, walk.cur)
      /\ walk' = NULL /\ dying' = dying
  BY DEF RemoveFound
<1>2. /\ a \in arrays /\ dying = <<>> /\ \E n \in 1..Len(s) : walk.cur = s[n]
  BY <1>1, WalkFacts
<1>3. PICK n \in 1..Len(s) : walk.cur = s[n]
  BY <1>2
<1>4. TailqTypeOK' /\ MemInv'
  BY <1>1, <1>2, <1>3, RemoveInv DEF TailqInv, TailqTypeOK
<1>5. WalkSoFar' /\ DyingThere'
  BY <1>1, <1>2 DEF WalkSoFar, DyingThere
<1>6. QED BY <1>4, <1>5 DEF TailqInv

LEMMA RemoveNoneInv ==
  ASSUME TailqInv, RemoveNone
  PROVE  TailqInv'
<1>1. walk' = NULL /\ UNCHANGED mem /\ dying' = dying /\ arrays' = arrays
  BY DEF RemoveNone, mem
<1>2. TailqTypeOK'
  BY <1>1 DEF TailqInv, TailqTypeOK, mem
<1>3. QED BY <1>1, <1>2, MemKept DEF TailqInv, WalkSoFar, DyingThere

(* pt_free_node of arrays *)

LEMMA DyingFacts ==
  ASSUME TailqInv, dying # <<>>
  PROVE  /\ walk = NULL
         /\ Head(dying) = dying[1] /\ Head(dying) \in arrays
         /\ dying \in Seq(Array) /\ Len(dying) \in Nat \ {0}
         /\ Tail(dying) \in Seq(Array)
         /\ DOMAIN Tail(dying) = 1..(Len(dying) - 1)
         /\ \A i \in 1..(Len(dying) - 1) : Tail(dying)[i] = dying[i + 1]
<1>1. walk = NULL
  BY DEF TailqInv, WalkSoFar
<1>2. dying \in Seq(Array) /\ Len(dying) \in Nat \ {0} /\ DOMAIN dying = 1..Len(dying)
  BY EmptySeq, LenProperties DEF TailqInv, TailqTypeOK
<1>3. Head(dying) = dying[1] /\ dying[1] \in arrays
  BY <1>2 DEF TailqInv, DyingThere
<1>4. /\ Tail(dying) \in Seq(Array) /\ Len(Tail(dying)) = Len(dying) - 1
      /\ \A i \in 1..Len(Tail(dying)) : Tail(dying)[i] = dying[i + 1]
  BY <1>2, HeadTailProperties
<1>5. DOMAIN Tail(dying) = 1..Len(Tail(dying))
  BY <1>4, LenProperties
<1>6. QED BY <1>1, <1>2, <1>3, <1>4, <1>5

LEMMA FreeBeginInv ==
  ASSUME TailqInv, NEW a \in arrays, FreeBegin(a)
  PROVE  TailqInv'
<1>1. /\ walk = NULL /\ walk' = walk /\ UNCHANGED mem /\ arrays' = arrays
      /\ \A i \in DOMAIN dying : dying[i] # a
      /\ dying' = <<a>> \o dying
  BY DEF FreeBegin, mem
<1>2. /\ a \in Array /\ dying \in Seq(Array) /\ Len(dying) \in Nat
      /\ DOMAIN dying = 1..Len(dying)
  BY LenProperties DEF TailqInv, TailqTypeOK
<1>3. /\ dying' \in Seq(Array) /\ Len(dying') = Len(dying) + 1
      /\ \A i \in 1..(Len(dying) + 1) : dying'[i] = IF i = 1 THEN a ELSE dying[i - 1]
  BY <1>1, <1>2, ToSetCons
<1>4. DOMAIN dying' = 1..(Len(dying) + 1)
  BY <1>3, LenProperties
<1>5. TailqTypeOK'
  BY <1>1, <1>3 DEF TailqInv, TailqTypeOK, mem
<1>6. WalkSoFar'
  BY <1>1 DEF WalkSoFar
<1>7. DyingThere'
  <2>1. \A i \in 1..(Len(dying) + 1) : i # 1 => i - 1 \in 1..Len(dying)
    BY <1>2
  <2>2. \A i \in DOMAIN dying' : dying'[i] \in arrays'
    BY <1>1, <1>2, <1>3, <1>4, <2>1 DEF TailqInv, DyingThere
  <2>3. ASSUME NEW i \in DOMAIN dying', NEW j \in DOMAIN dying', dying'[i] = dying'[j]
        PROVE  i = j
    <3>1. CASE i = 1 \/ j = 1
      BY <2>3, <3>1, <1>1, <1>2, <1>3, <1>4, <2>1
    <3>2. CASE i # 1 /\ j # 1
      <4>1. i - 1 = j - 1
        BY <2>3, <3>2, <1>2, <1>3, <1>4, <2>1 DEF TailqInv, DyingThere
      <4>2. QED BY <4>1, <1>2, <1>4
    <3>3. QED BY <3>1, <3>2
  <2>4. QED BY <2>2, <2>3 DEF DyingThere
<1>8. MemInv'
  BY <1>1, MemKept DEF TailqInv
<1>9. QED BY <1>5, <1>6, <1>7, <1>8 DEF TailqInv

(* The array that goes next, and its first element *)
LEMMA FirstFacts ==
  ASSUME TailqInv, NEW a \in arrays
  PROVE  /\ a \in Array
         /\ at[a] = NULL <=> order[a] = <<>>
         /\ order[a] # <<>> => 1 \in 1..Len(order[a]) /\ at[a] = order[a][1]
<1>1. /\ a \in Array /\ order[a] \in Seq(Elem) /\ Len(order[a]) \in Nat
      /\ (order[a] = <<>> <=> Len(order[a]) = 0)
      /\ \A i \in 1..Len(order[a]) : order[a][i] \in Elem
      /\ QueueEnds(a, order[a], at, last[a], prev)
  BY OrderFacts, QueueFacts DEF TailqInv, TailqTypeOK, MemInv, QueueOK
<1>2. Len(order[a]) # 0 => 1 \in 1..Len(order[a])
  BY <1>1
<1>3. QED BY <1>1, <1>2, TailqAssumption DEF QueueEnds

LEMMA FreeElemInv ==
  ASSUME TailqInv, FreeElem
  PROVE  TailqInv'
<1> DEFINE a == Head(dying)
<1>1. /\ dying # <<>> /\ at[a] # NULL /\ TailqRemove(a, at[a])
      /\ walk' = walk /\ dying' = dying
  BY DEF FreeElem
<1>2. walk = NULL /\ a \in arrays /\ dying \in Seq(Array)
  BY <1>1, DyingFacts
<1>3. 1 \in 1..Len(order[a]) /\ at[a] = order[a][1]
  BY <1>1, <1>2, FirstFacts
<1>4. TailqTypeOK' /\ MemInv' /\ arrays' = arrays
  BY <1>1, <1>2, <1>3, RemoveInv DEF TailqInv, TailqRemove
<1>5. WalkSoFar' /\ DyingThere'
  BY <1>1, <1>2, <1>4 DEF TailqInv, WalkSoFar, DyingThere
<1>6. QED BY <1>4, <1>5 DEF TailqInv

LEMMA FreeArrayInv ==
  ASSUME TailqInv, FreeArray
  PROVE  TailqInv'
<1> DEFINE a == Head(dying)
<1>1. /\ dying # <<>> /\ at[a] = NULL /\ arrays' = arrays \ {a}
      /\ at' = [at EXCEPT ![a] = JUNK] /\ last' = [last EXCEPT ![a] = JUNK]
      /\ dying' = Tail(dying) /\ prev' = prev /\ node' = node /\ order' = order /\ walk' = walk
  BY DEF FreeArray
<1>2. /\ walk = NULL /\ a = dying[1] /\ a \in arrays
      /\ Len(dying) \in Nat \ {0} /\ DOMAIN dying = 1..Len(dying)
      /\ Tail(dying) \in Seq(Array)
      /\ DOMAIN Tail(dying) = 1..(Len(dying) - 1)
      /\ \A i \in 1..(Len(dying) - 1) : Tail(dying)[i] = dying[i + 1]
  BY <1>1, DyingFacts, LenProperties
<1>3. /\ TailqTypeOK /\ MemInv /\ Apart /\ a \in Array /\ arrays \subseteq Array /\ a \in Slot
      /\ a \notin Elem /\ order[a] = <<>>
  BY <1>1, <1>2, FirstFacts, TailqAssumption DEF TailqInv, MemInv, TailqTypeOK, Slot
<1> HIDE DEF a
<1>4. TailqTypeOK'
  BY <1>1, <1>2, <1>3, TailqAssumption DEF TailqTypeOK, Slot
<1>5. Apart'
  <2>1. ToSet(order[a]) = {}
    BY <1>3 DEF ToSet
  <2>2. \A e \in Elem : node[e] # NULL <=> \E b \in arrays \ {a} : e \in ToSet(order[b])
    BY <1>3, <2>1 DEF Apart
  <2>3. \A b \in Array \ (arrays \ {a}) : order[b] = <<>>
    BY <1>3 DEF Apart
  <2>4. QED BY <1>1, <1>3, <2>2, <2>3 DEF Apart
<1>6. ASSUME NEW b \in arrays, b # a PROVE QueueOK(b)'
  <2>1. b \in Array
    BY <1>3
  <2>2. /\ order'[b] = order[b] /\ last'[b] = last[b]
        /\ \A c \in Slot \ {a} : at'[c] = at[c]
        /\ \A e \in Elem \ {a} : prev'[e] = prev[e]
    BY <1>1, <1>3, <1>6, <2>1 DEF TailqTypeOK
  <2>3. {a} \cap Elem = {} /\ {a} \cap Array \subseteq {a}
    BY <1>3
  <2>4. QED BY <1>3, <1>6, <2>2, <2>3, OtherQueue
<1>7. MemInv'
  BY <1>1, <1>5, <1>6 DEF MemInv
<1>8. DyingThere'
  <2>1. \A i \in 1..(Len(dying) - 1) : i + 1 \in 1..Len(dying) /\ i + 1 # 1 /\ 1 \in 1..Len(dying)
    BY <1>2
  <2>2. \A i \in DOMAIN dying' : dying'[i] \in arrays'
    BY <1>1, <1>2, <2>1 DEF TailqInv, DyingThere
  <2>3. ASSUME NEW i \in DOMAIN dying', NEW j \in DOMAIN dying', dying'[i] = dying'[j]
        PROVE  i = j
    <3>1. i + 1 = j + 1
      BY <2>3, <1>1, <1>2, <2>1 DEF TailqInv, DyingThere
    <3>2. QED BY <3>1, <1>1, <1>2
  <2>4. QED BY <2>2, <2>3 DEF DyingThere
<1>9. WalkSoFar'
  BY <1>1, <1>2 DEF WalkSoFar
<1>10. QED BY <1>4, <1>7, <1>8, <1>9 DEF TailqInv

LEMMA NextInv == TailqInv /\ [Next]_vars => TailqInv'
<1> SUFFICES ASSUME TailqInv, [Next]_vars PROVE TailqInv'
  OBVIOUS
<1>1. ASSUME NEW a \in Array, ArrayNew(a) PROVE TailqInv'
  BY <1>1, ArrayNewInv
<1>2. ASSUME NEW a \in arrays, NEW e \in Elem, NEW x \in Node, PushFront(a, e, x)
      PROVE  TailqInv'
  BY <1>2, PushFrontInv
<1>3. ASSUME NEW a \in arrays, NEW e \in Elem, NEW x \in Node, PushBack(a, e, x)
      PROVE  TailqInv'
  BY <1>3, PushBackInv
<1>4. ASSUME NEW a \in arrays, NEW x \in Node, RemoveBegin(a, x) PROVE TailqInv'
  BY <1>4, RemoveBeginInv
<1>5. ASSUME NEW a \in arrays, FreeBegin(a) PROVE TailqInv'
  BY <1>5, FreeBeginInv
<1>6. CASE UNCHANGED vars
  <2>1. UNCHANGED mem /\ walk' = walk /\ dying' = dying
        /\ arrays' = arrays /\ order' = order /\ node' = node
    BY <1>6 DEF vars, mem
  <2>2. TailqTypeOK' /\ WalkSoFar' /\ DyingThere'
    BY <2>1 DEF TailqInv, TailqTypeOK, WalkSoFar, Passed, DyingThere, mem
  <2>3. QED BY <2>1, <2>2, MemKept DEF TailqInv
<1>7. QED
  BY <1>1, <1>2, <1>3, <1>4, <1>5, <1>6, RemoveNextInv, RemoveFoundInv, RemoveNoneInv,
     FreeElemInv, FreeArrayInv DEF Next

----------------------------------------------------------------------------
(* The theorems *)

LEMMA SpecTailqInv == Spec => []TailqInv
BY InitInv, NextInv, PTL DEF Spec

(* Nothing the macros follow is left over from an earlier use of the block. *)
THEOREM TailqTypeCorrect == Spec => []TailqTypeOK
<1>1. TailqInv => TailqTypeOK
  BY DEF TailqInv
<1>2. QED BY <1>1, SpecTailqInv, PTL

(* The kernel's checks, which this build leaves out, would never panic. *)
THEOREM NeverPanics == Spec => []QmdChecks
<1>1. TailqInv => QmdChecks
  BY ChecksHold DEF TailqInv
<1>2. QED BY <1>1, SpecTailqInv, PTL

(* A walk along next meets what was put in and not taken out, in order. *)
THEOREM WalksAreOrdered == Spec => []WalkIsOrder
<1>1. TailqInv => WalkIsOrder
  BY ChecksHold DEF TailqInv
<1>2. QED BY <1>1, SpecTailqInv, PTL

----------------------------------------------------------------------------
(* BsdTailq implements PtQueue *)

PromiseStep == [Promise!Next]_(Promise!queueVars)

LEMMA QueuesFacts ==
  ASSUME NEW a \in arrays
  PROVE  DOMAIN Queues = arrays /\ Queues[a] = order[a]
BY DEF Queues

(* If just the queue of a changes, it changes so in the promise. *)
LEMMA QueuesExcept ==
  ASSUME TailqTypeOK, arrays' = arrays, NEW a \in arrays, NEW t,
         order' = [order EXCEPT ![a] = t]
  PROVE  Queues' = [Queues EXCEPT ![a] = t]
<1>1. \A b \in arrays : order'[b] = IF b = a THEN t ELSE order[b]
  BY DEF TailqTypeOK
<1>2. QED BY <1>1 DEF Queues

LEMMA NewKeepsPromise ==
  ASSUME TailqInv, NEW a \in Array, ArrayNew(a)
  PROVE  Promise!New(a)
<1>1. /\ a \notin arrays /\ arrays' = arrays \cup {a} /\ order' = order /\ node' = node
      /\ order[a] = <<>> /\ Idle /\ dying' = dying /\ walk' = walk
  BY DEF ArrayNew, TailqInv, MemInv, Apart
<1>2. DOMAIN Queues = arrays
  BY DEF Queues
<1>3. Queues' = [b \in arrays \cup {a} |-> IF b = a THEN <<>> ELSE Queues[b]]
  BY <1>1 DEF Queues
<1>4. QED BY <1>1, <1>2, <1>3 DEF Promise!New, Promise!Idle, Idle, Asked

LEMMA PushKeepsPromise ==
  ASSUME TailqInv, NEW a \in arrays, NEW e \in Elem, NEW x \in Node,
         NewElem(e, x),
         \/ order' = [order EXCEPT ![a] = <<e>> \o order[a]]
         \/ order' = [order EXCEPT ![a] = Append(order[a], e)]
  PROVE  Promise!Push(a, e, x)
<1>1. /\ node[e] = NULL /\ node' = [node EXCEPT ![e] = x] /\ arrays' = arrays
      /\ Idle /\ dying' = dying /\ walk' = walk
  BY DEF NewElem
<1>2. \A b \in DOMAIN Queues : e \notin ToSet(Queues[b])
  BY <1>1 DEF Queues, TailqInv, MemInv, Apart
<1>3. Queues[a] = order[a]
  BY QueuesFacts
<1>4. \/ Queues' = [Queues EXCEPT ![a] = <<e>> \o Queues[a]]
      \/ Queues' = [Queues EXCEPT ![a] = Append(Queues[a], e)]
  <2> DEFINE t1 == <<e>> \o order[a]
             t2 == Append(order[a], e)
  <2>1. TailqTypeOK
    BY DEF TailqInv
  <2> HIDE DEF t1, t2
  <2>2. ASSUME order' = [order EXCEPT ![a] = t1] PROVE Queues' = [Queues EXCEPT ![a] = t1]
    BY <1>1, <2>1, <2>2, QueuesExcept
  <2>3. ASSUME order' = [order EXCEPT ![a] = t2] PROVE Queues' = [Queues EXCEPT ![a] = t2]
    BY <1>1, <2>1, <2>3, QueuesExcept
  <2>4. QED BY <1>3, <2>2, <2>3 DEF t1, t2
<1>5. QED BY <1>1, <1>2, <1>4 DEF Promise!Push, Promise!Idle, Promise!ToSet, ToSet, Idle, Asked

(* TAILQ_REMOVE of the element at k *)
LEMMA TakeOutKeepsPromise ==
  ASSUME TailqInv, NEW a \in arrays, NEW k \in 1..Len(order[a]),
         TailqRemove(a, order[a][k])
  PROVE  Promise!TakeOut(a, k)
<1>1. /\ node' = [node EXCEPT ![order[a][k]] = NULL] /\ arrays' = arrays
      /\ order' = [order EXCEPT ![a] = Unlink(order[a], order[a][k])]
  BY DEF TailqRemove
<1>2. Unlink(order[a], order[a][k]) = RemoveAt(order[a], k)
  <2>1. DOMAIN order[a] = 1..Len(order[a]) /\ a \in Array
    BY OrderFacts DEF TailqInv, TailqTypeOK
  <2>2. \A i \in 1..Len(order[a]) : order[a][i] = order[a][k] => i = k
    BY <2>1, PlaceFacts DEF TailqInv, MemInv
  <2>3. k = CHOOSE i \in DOMAIN order[a] : order[a][i] = order[a][k]
    BY <2>1, <2>2
  <2>4. QED BY <2>3 DEF Unlink
<1>3. Queues' = [Queues EXCEPT ![a] = RemoveAt(Queues[a], k)]
  <2> DEFINE t == RemoveAt(order[a], k)
  <2>1. TailqTypeOK /\ order' = [order EXCEPT ![a] = t]
    BY <1>1, <1>2 DEF TailqInv
  <2> HIDE DEF t
  <2>2. Queues' = [Queues EXCEPT ![a] = t]
    BY <1>1, <2>1, QueuesExcept
  <2>3. QED BY <2>2, QueuesFacts DEF t
<1>4. QED BY <1>1, <1>3, QueuesFacts DEF Promise!TakeOut, Promise!RemoveAt, RemoveAt

(* pt_array_remove at work is one that was asked for. *)
LEMMA AskedFacts ==
  ASSUME TailqInv, walk # NULL
  PROVE  Asked # NULL /\ Asked.array = walk.array /\ Asked.node = walk.node
<1>1. Asked = [array |-> walk.array, node |-> walk.node]
  BY DEF Asked
<1>2. walk.array \in Array /\ walk.node \in Node
  BY WalkFacts
<1>3. QED BY <1>1, <1>2, TailqAssumption

(* It begins with the array and the node it is called with. *)
LEMMA BeginKeepsPromise ==
  ASSUME TailqInv, NEW a \in arrays, NEW x \in Node, RemoveBegin(a, x)
  PROVE  a \in DOMAIN Queues /\ Promise!Ask(a, x)
<1>1. /\ Idle /\ UNCHANGED <<arrays, order, node, dying>>
      /\ walk' = [array |-> a, node |-> x, cur |-> at[a]]
  BY DEF RemoveBegin, mem
<1>2. walk' # NULL
  <2>1. a \in Array /\ at[a] \in Elem \cup {NULL, JUNK}
    BY DEF TailqInv, TailqTypeOK, Slot
  <2>2. QED BY <1>1, <2>1, TailqAssumption
<1>3. Asked = NULL /\ Asked' = [array |-> a, node |-> x]
  BY <1>1, <1>2 DEF Asked, Idle
<1>4. Queues' = Queues /\ DOMAIN Queues = arrays
  BY <1>1 DEF Queues
<1>5. QED BY <1>1, <1>3, <1>4 DEF Promise!Ask, Promise!Idle, Idle

(* The element it stops at is the first that holds the node. *)
LEMMA FoundKeepsPromise ==
  ASSUME TailqInv, RemoveFound
  PROVE  Promise!TakeOutFirst
<1> DEFINE a == walk.array
           s == order[a]
           x == walk.node
<1>1. /\ walk # NULL /\ walk.cur # NULL /\ node[walk.cur] = x /\ TailqRemove(a, walk.cur)
      /\ walk' = NULL /\ UNCHANGED dying
  BY DEF RemoveFound
<1>2. /\ a \in arrays /\ x \in Node /\ Len(s) \in Nat
      /\ \E n \in 1..Len(s) : walk.cur = s[n] /\ \A i \in 1..(n - 1) : node[s[i]] # x
  BY <1>1, WalkFacts
<1>3. PICK n \in 1..Len(s) : walk.cur = s[n] /\ \A i \in 1..(n - 1) : node[s[i]] # x
  BY <1>2
<1>4. Promise!TakeOut(a, n)
  BY <1>1, <1>2, <1>3, TakeOutKeepsPromise
<1>5. Queues[a] = s /\ a \in DOMAIN Queues /\ n \in DOMAIN s
  <2>1. DOMAIN s = 1..Len(s)
    BY <1>2, OrderFacts DEF TailqInv, TailqTypeOK
  <2>2. QED BY <2>1, <1>2, QueuesFacts
<1>6. Asked # NULL /\ Asked.array = a /\ Asked.node = x /\ Asked' = NULL
  <2>1. Asked' = NULL
    BY <1>1 DEF Asked
  <2>2. QED BY <2>1, <1>1, AskedFacts
<1>7. Promise!Holds(n) /\ \A i \in 1..(n - 1) : ~Promise!Holds(i)
  BY <1>1, <1>3, <1>5, <1>6 DEF Promise!Holds
<1>8. QED BY <1>1, <1>4, <1>5, <1>6, <1>7 DEF Promise!TakeOutFirst

(* At the end of the walk no element holds it. *)
LEMMA NoneKeepsPromise ==
  ASSUME TailqInv, RemoveNone
  PROVE  Promise!NotThere
<1> DEFINE a == walk.array
           s == order[a]
<1>1. /\ walk # NULL /\ walk.cur = NULL /\ walk' = NULL
      /\ UNCHANGED <<arrays, order, node, dying>>
  BY DEF RemoveNone, mem
<1>2. a \in arrays /\ \A i \in 1..Len(s) : node[s[i]] # walk.node
  BY <1>1, WalkFacts
<1>3. DOMAIN s = 1..Len(s) /\ Queues[a] = s
  BY <1>2, OrderFacts, QueuesFacts DEF TailqInv, TailqTypeOK
<1>4. Asked # NULL /\ Asked.array = a /\ Asked.node = walk.node /\ Asked' = NULL
  <2>1. Asked' = NULL
    BY <1>1 DEF Asked
  <2>2. QED BY <2>1, <1>1, AskedFacts
<1>5. \A i \in DOMAIN Queues[a] : ~Promise!Holds(i)
  BY <1>2, <1>3, <1>4 DEF Promise!Holds
<1>6. Queues' = Queues
  BY <1>1 DEF Queues
<1>7. QED BY <1>1, <1>4, <1>5, <1>6 DEF Promise!NotThere

LEMMA ElemKeepsPromise ==
  ASSUME TailqInv, FreeElem
  PROVE  \E a \in DOMAIN Queues : Promise!Drain(a)
<1> DEFINE a == Head(dying)
<1>1. dying # <<>> /\ at[a] # NULL /\ TailqRemove(a, at[a])
      /\ UNCHANGED <<walk, dying>>
  BY DEF FreeElem
<1>2. a \in arrays
  BY <1>1, DyingFacts
<1>3. 1 \in 1..Len(order[a]) /\ at[a] = order[a][1] /\ order[a] # <<>>
  BY <1>1, <1>2, FirstFacts
<1>4. Promise!TakeOut(a, 1)
  BY <1>1, <1>2, <1>3, TakeOutKeepsPromise
<1>5. QED BY <1>1, <1>2, <1>3, <1>4, QueuesFacts DEF Promise!Drain, Asked

LEMMA ArrayKeepsPromise ==
  ASSUME TailqInv, FreeArray
  PROVE  \E a \in DOMAIN Queues : Promise!Gone(a)
<1> DEFINE a == Head(dying)
<1>1. /\ dying # <<>> /\ at[a] = NULL /\ arrays' = arrays \ {a}
      /\ order' = order /\ node' = node /\ walk' = walk
      /\ dying' = Tail(dying) /\ a = Head(dying)
  BY DEF FreeArray
<1>2. a \in arrays
  BY <1>1, DyingFacts
<1>3. order[a] = <<>>
  BY <1>1, <1>2, FirstFacts
<1> HIDE DEF a
<1>4. Queues' = [b \in arrays \ {a} |-> Queues[b]]
  BY <1>1 DEF Queues
<1>5. DOMAIN Queues = arrays /\ Queues[a] = <<>>
  BY <1>2, <1>3, QueuesFacts
<1>6. QED BY <1>1, <1>2, <1>4, <1>5 DEF Promise!Gone, Asked

(* An array whose free begins is on no level of it yet. *)
LEMMA FreeBeginKeepsPromise ==
  ASSUME NEW a \in arrays, FreeBegin(a)
  PROVE  a \in DOMAIN Queues /\ Promise!FreeBegin(a)
<1>1. /\ \A i \in DOMAIN dying : dying[i] # a
      /\ dying' = <<a>> \o dying /\ walk = NULL /\ walk' = walk
      /\ UNCHANGED <<arrays, order, node>>
  BY DEF FreeBegin, mem
<1>2. Queues' = Queues /\ DOMAIN Queues = arrays
  BY <1>1 DEF Queues
<1>3. QED BY <1>1, <1>2 DEF Promise!FreeBegin, Promise!ToSet, ToSet, Asked

LEMMA StepKeepsPromise == TailqInv /\ [Next]_vars => PromiseStep
<1> SUFFICES ASSUME TailqInv, [Next]_vars PROVE PromiseStep
  OBVIOUS
<1> USE DEF PromiseStep, Promise!queueVars
<1>1. ASSUME NEW a \in Array, ArrayNew(a) PROVE PromiseStep
  BY <1>1, NewKeepsPromise DEF Promise!Next
<1>2. ASSUME NEW a \in arrays, NEW e \in Elem, NEW x \in Node,
             PushFront(a, e, x) \/ PushBack(a, e, x)
      PROVE  PromiseStep
  <2>1. Promise!Push(a, e, x)
    BY <1>2, PushKeepsPromise DEF PushFront, PushBack
  <2>2. a \in DOMAIN Queues
    BY QueuesFacts
  <2>3. QED BY <2>1, <2>2 DEF Promise!Next
<1>3. CASE RemoveFound
  BY <1>3, FoundKeepsPromise DEF Promise!Next
<1>4. CASE FreeElem
  BY <1>4, ElemKeepsPromise DEF Promise!Next
<1>5. CASE FreeArray
  BY <1>5, ArrayKeepsPromise DEF Promise!Next
<1>6. ASSUME UNCHANGED mem, UNCHANGED dying, Asked' = Asked PROVE PromiseStep
  BY <1>6 DEF mem, Queues
<1>7. CASE UNCHANGED vars
  BY <1>6, <1>7 DEF vars, Asked
<1>8. ASSUME NEW a \in arrays, FreeBegin(a) PROVE PromiseStep
  BY <1>8, FreeBeginKeepsPromise DEF Promise!Next
<1>9. ASSUME NEW a \in arrays, NEW x \in Node, RemoveBegin(a, x) PROVE PromiseStep
  BY <1>9, BeginKeepsPromise DEF Promise!Next
<1>10. CASE RemoveNone
  BY <1>10, NoneKeepsPromise DEF Promise!Next
<1>11. CASE RemoveNext
  <2>1. walk # NULL /\ walk' = [walk EXCEPT !.cur = at[@]] /\ UNCHANGED <<mem, dying>>
    BY <1>11 DEF RemoveNext
  <2>2. walk = [array |-> walk.array, node |-> walk.node, cur |-> walk.cur]
    BY <2>1, WalkFacts
  <2>3. walk' = [array |-> walk.array, node |-> walk.node, cur |-> at[walk.cur]]
    BY <2>1, <2>2
  <2>4. walk' # NULL
    <3>1. walk.array \in Array /\ walk.node \in Node /\ walk.cur \in Elem
      <4>1. /\ walk.array \in Array /\ walk.node \in Node
            /\ walk.cur \in Elem \cup {NULL} /\ walk.cur # NULL
        BY <1>11, <2>1, WalkFacts DEF RemoveNext
      <4>2. QED BY <4>1
    <3>2. at[walk.cur] \in Elem \cup {NULL, JUNK}
      BY <3>1 DEF TailqInv, TailqTypeOK, Slot
    <3>3. QED BY <2>3, <3>1, <3>2, TailqAssumption
  <2>5. Asked' = Asked
    BY <2>1, <2>3, <2>4 DEF Asked
  <2>6. QED BY <2>1, <2>5, <1>6
<1>12. QED BY <1>1, <1>2, <1>3, <1>4, <1>5, <1>7, <1>8, <1>9, <1>10, <1>11 DEF Next

(* pt_array_remove takes out the first element that holds the node, from
   wherever it is, or none; and what is put in and freed is as promised.     *)
THEOREM TailqKeepsPromise == Spec => KeepsPromise
<1>1. Init => Promise!Init
  <2>1. ASSUME Init PROVE Queues = <<>> /\ node = [e \in Elem |-> NULL] /\ Asked = NULL /\ dying = <<>>
    BY <2>1 DEF Init, Queues, Asked
  <2>2. QED BY <2>1 DEF Promise!Init
<1>2. TailqInv /\ [Next]_vars => [Promise!Next]_(Promise!queueVars)
  BY StepKeepsPromise DEF PromiseStep
<1>3. QED BY <1>1, <1>2, SpecTailqInv, PTL DEF Spec, KeepsPromise, Promise!Spec

=============================================================================
