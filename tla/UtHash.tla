------------------------------- MODULE UtHash -------------------------------
(***************************************************************************)
(* The hash table of src/uthash.h, pointer by pointer, as the maps of       *)
(* pillowtalk use it: pairs are added, found and deleted.  Each pair is in  *)
(* two doubly linked lists, that of all pairs in the order they were added  *)
(* in (prev, next) and that of its bucket (hh_prev, hh_next); the buckets   *)
(* are doubled when one gets too long.                                      *)
(*                                                                          *)
(* The hash function is a constant.  A pair stands for its hash handle: the *)
(* offset between the two (hho) is left out.  malloc succeeds.  The loops   *)
(* of HASH_FIND, HASH_EXPAND_BUCKETS and free_map_node are made step by     *)
(* step; nothing else is done before they end.                              *)
(***************************************************************************)
EXTENDS Naturals, Sequences, SequencesExt

CONSTANTS
  Item,         \* pairs (pt_key_value_t)
  Key, NULL,
  JUNK,         \* what is in memory that was freed
  Hash,         \* the hash value of a key
  InitBuckets,  \* HASH_INITIAL_NUM_BUCKETS
  Thresh,       \* HASH_BKT_CAPACITY_THRESH
  MaxBuckets    \* bound: a table of so many is added to no more, unless noexpand

Table == [num_buckets : Nat \ {0}, num_items : Nat, tail : Item,
          ineff_expands : Nat, noexpand : BOOLEAN]
Bucket == [hh_head : Item \cup {NULL}, count : Nat, expand_mult : Nat]
Search == [key : Key, out : Item \cup {NULL}]
Growth == [bkt : Nat, thh : Item \cup {NULL}, nonideal : Nat, ideal : Nat \ {0}]

ASSUME HashAssumption ==
  /\ {NULL, JUNK} \cap (Item \cup Key \cup Nat) = {}
  /\ NULL # JUNK
  /\ NULL \notin Table \cup Search \cup Growth
  /\ Hash \in [Key -> Nat]
  /\ InitBuckets \in Nat \ {0} /\ \E n \in 0..InitBuckets : InitBuckets = 2 ^ n
  /\ Thresh \in Nat \ {0} /\ MaxBuckets \in Nat

VARIABLES
  head,     \* key_values of the map: its first pair
  tbl,      \* its UT_hash_table, or NULL
  buckets,  \* the table's buckets
  prev, next, hh_prev, hh_next, hashv,  \* the UT_hash_handle of each pair
  key,      \* for each pair its key; NULL if it is not allocated
  find,     \* HASH_FIND at work: [key, out], or NULL
  grow,     \* HASH_EXPAND_BUCKETS at work: [bkt, thh, nonideal, ideal], or NULL
  new_buckets,  \* and the buckets that it fills
  dying,    \* free_map_node is at work
  order,    \* history: the pairs added and not deleted
  chain,    \* history: those in each bucket, during an expansion the ones left in it
  moved     \* history: during an expansion those in each new bucket

handles == <<prev, next, hh_prev, hh_next, hashv>>
mem == <<head, tbl, buckets, handles, key, order, chain>>
expansion == <<grow, new_buckets, moved>>
vars == <<mem, find, dying, expansion>>

Idle == find = NULL /\ grow = NULL /\ ~dying

EmptyBuckets(n) == [b \in 0..(n - 1) |-> [hh_head |-> NULL, count |-> 0, expand_mult |-> 0]]
EmptyChains(n) == [b \in 0..(n - 1) |-> <<>>]

(* an assignment through a pointer, done if it is one *)
SetIf(f, i, v) == IF i = NULL THEN f ELSE [f EXCEPT ![i] = v]

(* HASH_TO_BKT *)
ToBkt(hash, n) == hash % n

----------------------------------------------------------------------------
(* Finding *)

(* HASH_FIND, HASH_FIND_IN_BKT up to its loop *)
FindBegin(k) ==
  /\ Idle
  /\ find' = [key |-> k,
              out |-> IF head = NULL THEN NULL
                      ELSE buckets[ToBkt(Hash[k], tbl.num_buckets)].hh_head]
  /\ UNCHANGED <<mem, dying, expansion>>

FindNext ==
  /\ find # NULL /\ find.out # NULL
  /\ key[find.out] # find.key
  /\ find' = [find EXCEPT !.out = hh_next[@]]
  /\ UNCHANGED <<mem, dying, expansion>>

Found == find # NULL /\ find.out # NULL /\ key[find.out] = find.key
Missing == find # NULL /\ find.out = NULL

(* pt_map_get; pt_map_set of a key that is there, which changes its value in
   place; pt_map_unset of one that is not                                    *)
FindEnd ==
  /\ Found \/ Missing
  /\ find' = NULL
  /\ UNCHANGED <<mem, dying, expansion>>

----------------------------------------------------------------------------
(* Adding *)

(* HASH_MAKE_TABLE *)
MakeTable(i) ==
  [num_buckets |-> InitBuckets, num_items |-> 0, tail |-> i,
   ineff_expands |-> 0, noexpand |-> FALSE]

(* the least number of pairs in the longest of n buckets *)
IdealChainMaxlen(items, n) == (items \div n) + (IF items % n = 0 THEN 0 ELSE 1)

(* HASH_EXPAND_BUCKETS of a table t with buckets B, up to its loops *)
ExpandBegin(t, B) ==
  /\ grow' = [bkt |-> 0, thh |-> B[0].hh_head, nonideal |-> 0,
              ideal |-> IdealChainMaxlen(t.num_items, 2 * t.num_buckets)]
  /\ new_buckets' = EmptyBuckets(2 * t.num_buckets)
  /\ moved' = EmptyChains(2 * t.num_buckets)

(* a mutant: the pair goes behind the first one of its bucket *)
AddToBktSecond(t, B, C, b, i) ==
  LET top == B[b].hh_head
      count == B[b].count + 1
  IN  /\ buckets' = [B EXCEPT ![b].count = count, ![b].hh_head = IF top = NULL THEN i ELSE top]
      /\ hh_next' = SetIf([hh_next EXCEPT ![i] = IF top = NULL THEN NULL ELSE hh_next[top]],
                          top, i)
      /\ hh_prev' = [hh_prev EXCEPT ![i] = top]
      /\ chain' = [C EXCEPT ![b] = IF @ = <<>> THEN <<i>> ELSE <<@[1], i>> \o Tail(@)]
      /\ IF count >= (B[b].expand_mult + 1) * Thresh /\ ~t.noexpand
         THEN ExpandBegin(t, buckets') ELSE UNCHANGED expansion

(* a mutant: the pair that was first in the bucket does not get its hh_prev *)
AddToBktOneWay(t, B, C, b, i) ==
  LET top == B[b].hh_head
      count == B[b].count + 1
  IN  /\ buckets' = [B EXCEPT ![b].count = count, ![b].hh_head = i]
      /\ hh_next' = [hh_next EXCEPT ![i] = top]
      /\ hh_prev' = [hh_prev EXCEPT ![i] = NULL]
      /\ chain' = [C EXCEPT ![b] = <<i>> \o @]
      /\ IF count >= (B[b].expand_mult + 1) * Thresh /\ ~t.noexpand
         THEN ExpandBegin(t, buckets') ELSE UNCHANGED expansion

(* HASH_ADD_TO_BKT of pair i to bucket b of the table t with buckets B *)
AddToBkt(t, B, C, b, i) ==
  LET top == B[b].hh_head
      count == B[b].count + 1
  IN  /\ buckets' = [B EXCEPT ![b].count = count, ![b].hh_head = i]
      /\ hh_next' = [hh_next EXCEPT ![i] = top]
      /\ hh_prev' = SetIf([hh_prev EXCEPT ![i] = NULL], top, i)
      /\ chain' = [C EXCEPT ![b] = <<i>> \o @]
      /\ IF count >= (B[b].expand_mult + 1) * Thresh /\ ~t.noexpand
         THEN ExpandBegin(t, buckets') ELSE UNCHANGED expansion

(* HASH_ADD_KEYPTR of a new pair *)
HashAdd(i, k) ==
  /\ key[i] = NULL
  /\ tbl # NULL => tbl.num_buckets < MaxBuckets \/ tbl.noexpand
  /\ head' = IF head = NULL THEN i ELSE head
  /\ next' = IF head = NULL THEN [next EXCEPT ![i] = NULL]
             ELSE [next EXCEPT ![i] = NULL, ![tbl.tail] = i]
  /\ prev' = [prev EXCEPT ![i] = IF head = NULL THEN NULL ELSE tbl.tail]
  /\ hashv' = [hashv EXCEPT ![i] = Hash[k]]
  /\ LET t == IF head = NULL THEN MakeTable(i) ELSE tbl
     IN  /\ tbl' = [t EXCEPT !.tail = i, !.num_items = @ + 1]
         /\ AddToBkt(tbl', IF head = NULL THEN EmptyBuckets(InitBuckets) ELSE buckets,
                     IF head = NULL THEN EmptyChains(InitBuckets) ELSE chain,
                     ToBkt(Hash[k], t.num_buckets), i)
  /\ key' = [key EXCEPT ![i] = k]
  /\ order' = Append(order, i)
  /\ UNCHANGED dying

(* json_map_key: whether the key is there or not *)
JsonMapKey(i, k) == Idle /\ HashAdd(i, k) /\ UNCHANGED find

(* pt_map_set of a key that is not there *)
MapSet(i) == Missing /\ HashAdd(i, find.key) /\ find' = NULL

(* a mutant: expand_mult is never set *)
IntoNewBktFlat(b, i) ==
  LET top == new_buckets[b].hh_head
      count == new_buckets[b].count + 1
  IN  /\ hh_prev' = SetIf([hh_prev EXCEPT ![i] = NULL], top, i)
      /\ hh_next' = [hh_next EXCEPT ![i] = top]
      /\ grow' = [grow EXCEPT !.thh = hh_next[i],
                              !.nonideal = IF count > grow.ideal THEN @ + 1 ELSE @]
      /\ new_buckets' = [new_buckets EXCEPT ![b].hh_head = i, ![b].count = count]
      /\ moved' = [moved EXCEPT ![b] = <<i>> \o @]

(* The pair goes to the front of new bucket b. *)
IntoNewBkt(b, i) ==
  LET top == new_buckets[b].hh_head
      count == new_buckets[b].count + 1
  IN  /\ hh_prev' = SetIf([hh_prev EXCEPT ![i] = NULL], top, i)
      /\ hh_next' = [hh_next EXCEPT ![i] = top]
      /\ grow' = [grow EXCEPT !.thh = hh_next[i],
                              !.nonideal = IF count > grow.ideal THEN @ + 1 ELSE @]
      /\ new_buckets' = [new_buckets EXCEPT ![b] =
           [hh_head |-> i, count |-> count,
            expand_mult |-> IF count > grow.ideal THEN count \div grow.ideal ELSE @.expand_mult]]
      /\ moved' = [moved EXCEPT ![b] = <<i>> \o @]

(* a mutant: the new bucket is chosen as the old one was *)
ExpandPairOld ==
  /\ grow # NULL /\ grow.thh # NULL
  /\ IntoNewBkt(ToBkt(hashv[grow.thh], tbl.num_buckets), grow.thh)
  /\ chain' = [chain EXCEPT ![grow.bkt] = Tail(@)]
  /\ UNCHANGED <<head, tbl, buckets, prev, next, hashv, key, order, find, dying>>

(* one turn of the inner loop *)
ExpandPair ==
  /\ grow # NULL /\ grow.thh # NULL
  /\ IntoNewBkt(ToBkt(hashv[grow.thh], 2 * tbl.num_buckets), grow.thh)
  /\ chain' = [chain EXCEPT ![grow.bkt] = Tail(@)]
  /\ UNCHANGED <<head, tbl, buckets, prev, next, hashv, key, order, find, dying>>

(* the next turn of the outer one *)
ExpandBucket ==
  /\ grow # NULL /\ grow.thh = NULL /\ grow.bkt + 1 < tbl.num_buckets
  /\ grow' = [grow EXCEPT !.bkt = @ + 1, !.thh = buckets[grow.bkt + 1].hh_head]
  /\ UNCHANGED <<mem, find, dying, new_buckets, moved>>

ExpandEnd ==
  LET ineff == IF grow.nonideal > tbl.num_items \div 2 THEN tbl.ineff_expands + 1 ELSE 0
  IN  /\ grow # NULL /\ grow.thh = NULL /\ grow.bkt + 1 = tbl.num_buckets
      /\ tbl' = [tbl EXCEPT !.num_buckets = 2 * @, !.ineff_expands = ineff,
                            !.noexpand = @ \/ ineff > 1]
      /\ buckets' = new_buckets /\ chain' = moved
      /\ grow' = NULL /\ new_buckets' = <<>> /\ moved' = <<>>
      /\ UNCHANGED <<head, handles, key, order, find, dying>>

----------------------------------------------------------------------------
(* Deleting *)

Unlink(s, i) == RemoveAt(s, CHOOSE n \in DOMAIN s : s[n] = i)

(* HASH_DEL_IN_BKT *)
DelInBkt(b, i) ==
  /\ buckets' = [buckets EXCEPT ![b].count = @ - 1,
                                ![b].hh_head = IF @ = i THEN hh_next[i] ELSE @]
  /\ hh_next' = [SetIf(hh_next, hh_prev[i], hh_next[i]) EXCEPT ![i] = JUNK]
  /\ hh_prev' = [SetIf(hh_prev, hh_next[i], hh_prev[i]) EXCEPT ![i] = JUNK]
  /\ chain' = [chain EXCEPT ![b] = Unlink(@, i)]

(* HASH_DELETE of the only pair, with which the table goes as well *)
HashDeleteLast(i) ==
  /\ prev[i] = NULL /\ next[i] = NULL
  /\ head' = NULL /\ tbl' = NULL /\ buckets' = <<>> /\ chain' = <<>>
  /\ next' = [next EXCEPT ![i] = JUNK] /\ prev' = [prev EXCEPT ![i] = JUNK]
  /\ hh_next' = [hh_next EXCEPT ![i] = JUNK] /\ hh_prev' = [hh_prev EXCEPT ![i] = JUNK]

(* a mutant: tail stays at a pair that is deleted *)
HashDeleteOneTailed(i) ==
  /\ prev[i] # NULL \/ next[i] # NULL
  /\ tbl' = [tbl EXCEPT !.num_items = @ - 1]
  /\ head' = IF prev[i] = NULL THEN next[i] ELSE head
  /\ next' = [SetIf(next, prev[i], next[i]) EXCEPT ![i] = JUNK]
  /\ prev' = [SetIf(prev, next[i], prev[i]) EXCEPT ![i] = JUNK]
  /\ DelInBkt(ToBkt(hashv[i], tbl.num_buckets), i)

(* a mutant: the first pair is taken to be the one that is deleted *)
HashDeleteOneHeaded(i) ==
  /\ prev[i] # NULL \/ next[i] # NULL
  /\ tbl' = [tbl EXCEPT !.tail = IF @ = i THEN prev[i] ELSE @, !.num_items = @ - 1]
  /\ head' = next[i]
  /\ next' = [SetIf(next, prev[i], next[i]) EXCEPT ![i] = JUNK]
  /\ prev' = [SetIf(prev, next[i], prev[i]) EXCEPT ![i] = JUNK]
  /\ DelInBkt(ToBkt(hashv[i], tbl.num_buckets), i)

(* HASH_DELETE of one of several *)
HashDeleteOne(i) ==
  /\ prev[i] # NULL \/ next[i] # NULL
  /\ tbl' = [tbl EXCEPT !.tail = IF @ = i THEN prev[i] ELSE @, !.num_items = @ - 1]
  /\ head' = IF prev[i] = NULL THEN next[i] ELSE head
  /\ next' = [SetIf(next, prev[i], next[i]) EXCEPT ![i] = JUNK]
  /\ prev' = [SetIf(prev, next[i], prev[i]) EXCEPT ![i] = JUNK]
  /\ DelInBkt(ToBkt(hashv[i], tbl.num_buckets), i)

(* HASH_DELETE, and the free of the pair *)
HashDelete(i) ==
  /\ HashDeleteLast(i) \/ HashDeleteOne(i)
  /\ hashv' = [hashv EXCEPT ![i] = JUNK]
  /\ key' = [key EXCEPT ![i] = NULL]
  /\ order' = Unlink(order, i)
  /\ UNCHANGED expansion

(* pt_map_unset of a key that is found *)
MapUnset == Found /\ HashDelete(find.out) /\ find' = NULL /\ UNCHANGED dying

(* free_map_node: the first pair is deleted, until there is none *)
FreeBegin ==
  /\ Idle /\ head # NULL
  /\ dying' = TRUE
  /\ UNCHANGED <<mem, find, expansion>>

FreePair == dying /\ head # NULL /\ HashDelete(head) /\ UNCHANGED <<find, dying>>

FreeEnd ==
  /\ dying /\ head = NULL
  /\ dying' = FALSE
  /\ UNCHANGED <<mem, find, expansion>>

----------------------------------------------------------------------------

Init ==
  /\ head = NULL /\ tbl = NULL /\ buckets = <<>>
  /\ prev = [i \in Item |-> JUNK] /\ next = [i \in Item |-> JUNK]
  /\ hh_prev = [i \in Item |-> JUNK] /\ hh_next = [i \in Item |-> JUNK]
  /\ hashv = [i \in Item |-> JUNK]
  /\ key = [i \in Item |-> NULL]
  /\ find = NULL /\ dying = FALSE /\ grow = NULL /\ new_buckets = <<>>
  /\ order = <<>> /\ chain = <<>> /\ moved = <<>>

Next ==
  \/ \E k \in Key : FindBegin(k) \/ \E i \in Item : JsonMapKey(i, k)
  \/ FindNext \/ FindEnd \/ MapUnset \/ \E i \in Item : MapSet(i)
  \/ ExpandPair \/ ExpandBucket \/ ExpandEnd
  \/ FreeBegin \/ FreePair \/ FreeEnd

Spec == Init /\ [][Next]_vars

----------------------------------------------------------------------------
(* The table is there as long as a pair is; nothing that is allocated is left
   over from an earlier use of the block.                                     *)
UtHashTypeOK ==
  LET Link == [Item -> Item \cup {NULL, JUNK}] IN
  /\ head \in Item \cup {NULL}
  /\ head = NULL <=> tbl = NULL
  /\ tbl # NULL =>
       /\ tbl \in Table
       /\ buckets \in [0..(tbl.num_buckets - 1) -> Bucket]
       /\ chain \in [0..(tbl.num_buckets - 1) -> Seq(Item)]
       /\ key[tbl.tail] # NULL
  /\ prev \in Link /\ next \in Link /\ hh_prev \in Link /\ hh_next \in Link
  /\ hashv \in [Item -> Nat \cup {JUNK}]
  /\ key \in [Item -> Key \cup {NULL}]
  /\ \A i \in Item : key[i] # NULL =>
       /\ JUNK \notin {prev[i], next[i], hh_prev[i], hh_next[i]}
       /\ hashv[i] = Hash[key[i]]
  /\ find # NULL => find \in Search /\ ~dying
  /\ dying \in BOOLEAN
  /\ order \in Seq(Item)
  /\ grow # NULL =>
       /\ tbl # NULL /\ find = NULL /\ ~dying
       /\ grow \in Growth /\ grow.bkt < tbl.num_buckets
       /\ new_buckets \in [0..(2 * tbl.num_buckets - 1) -> Bucket]
       /\ moved \in [0..(2 * tbl.num_buckets - 1) -> Seq(Item)]

(* list s starts at first, and its pointers forth and back are those of f and p *)
Linked(s, first, f, p) ==
  /\ first = IF s = <<>> THEN NULL ELSE s[1]
  /\ \A n \in DOMAIN s : /\ f[s[n]] = IF n = Len(s) THEN NULL ELSE s[n + 1]
                         /\ p[s[n]] = IF n = 1 THEN NULL ELSE s[n - 1]

(* HASH_FSCK, the check that uthash.h has for debugging and that this build
   leaves out: both pointers of each list agree, and all counts do.  A pair
   is in one bucket.                                                         *)
BucketsOf(B, C) ==
  \A b \in DOMAIN C : /\ Linked(C[b], B[b].hh_head, hh_next, hh_prev)
                      /\ B[b].count = Len(C[b])

Fsck ==
  tbl # NULL /\ grow = NULL =>
    /\ Linked(order, head, next, prev) /\ IsInjective(order)
    /\ tbl.num_items = Len(order)
    /\ BucketsOf(buckets, chain)
    /\ UNION {ToSet(chain[b]) : b \in DOMAIN chain} = ToSet(order)
    /\ \A b \in DOMAIN chain :
         /\ IsInjective(chain[b])
         /\ \A c \in DOMAIN chain \ {b} : ToSet(chain[b]) \cap ToSet(chain[c]) = {}

(* the pair that is first in its bucket of those with key k *)
IsFirst(k, i) ==
  tbl # NULL /\
    LET s == chain[ToBkt(Hash[k], tbl.num_buckets)]
    IN  \E n \in DOMAIN s : s[n] = i /\ key[i] = k /\ \A m \in 1..(n - 1) : key[s[m]] # k

(* HASH_FIND finds a pair if there is one, the first in the bucket that its key
   leads to, also after the buckets were doubled and others were deleted.      *)
FindIsRight ==
  /\ Found => IsFirst(find.key, find.out)
  /\ Missing => \A i \in ToSet(order) : key[i] # find.key

(* No bucket is over its threshold, unless expansion was given up: an expansion
   can leave one just at it, since expand_mult counts multiples of the ideal
   length and the threshold multiples of Thresh, but never above.              *)
ChainsBounded ==
  tbl # NULL /\ grow = NULL /\ ~tbl.noexpand =>
    \A b \in DOMAIN buckets : buckets[b].count <= (buckets[b].expand_mult + 1) * Thresh

(* Which of several pairs with one key is found, and so set, unset or looked
   at, changes only when the buckets are doubled, when a pair with that key is
   added, which is then the one that is found, or when the one that is goes.  *)
FoundStaysFound ==
  [][ grow # NULL \/ \A k \in Key, i \in Item :
        /\ key[i] = NULL /\ key'[i] = k => IsFirst(k, i)'
        /\ IsFirst(k, i)' =>
             \/ IsFirst(k, i) \/ key[i] = NULL
             \/ \E j \in Item : IsFirst(k, j) /\ key'[j] = NULL ]_vars

(* The table keeps its promise to the maps. *)
Promise == INSTANCE UtMap
KeepsOrder == Promise!Spec
=============================================================================
