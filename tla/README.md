# pillowtalk in TLA+

pillowtalk is a small C library: a client for CouchDB over libcurl, with documents
parsed and generated by yajl. All of its own logic is in `src/src/pillowtalk_impl.c`
(with `pillowtalk_impl.h` and the interface `pillowtalk.h`); `uthash.h`, `bsd_queue.h`
and `utlist.h` are vendored macros. It starts no threads. What is hard in it is memory
and order: documents are built by callbacks that keep their place on a stack of their
own, are changed by calls that free what they replace, are walked by iterators that are
bare pointers, and travel through curl in pieces of curl's choosing.

## Inventory

| component | state | operations | interacts with | what makes it correct |
|---|---|---|---|---|
| nodes and containers | tree of `pt_node_t`; a map is a uthash of `pt_key_value_t`, an array a TAILQ of `pt_array_elem_t` and a `len` | constructors, `pt_map_get/set/unset`, `pt_array_push_front/push_back/remove/len/get`, `pt_free_node` | called by everything | nothing points to freed memory; one owner per node and cell; nothing is lost; `len` is right; order is insertion order |
| parser | `pt_parser_ctx_t`: `root`, `stack` of `pt_container_ctx_t` | `parse_json`, eleven yajl callbacks, `pt_from_json` | called back by yajl; builds nodes | the stack follows yajl's nesting; a text cut short leaves a sound document |
| iterators | `pt_iterator_impl_t`: next cell | `pt_iterator`, `pt_iterator_next` | reads containers the program changes meanwhile | a walk misses and repeats nothing; what was given back may go |
| HTTP | two `memory_chunk`s per call, `pt_response_t` | `http_operation`, `send_/recv_memory_callback`, `pt_get`, `pt_unparsed_get`, `pt_put`, `pt_put_raw`, `pt_delete`, `pt_free_response` | called back by curl; calls the parser | both bodies pass whole; an answer has the server's whole body or none, and its code or 500; the call comes back unless the other end stalls |
| merge and clone | none | `pt_map_update`, `pt_clone` | node functions, recursively | a merge is a union at every depth; a mismatch is reported; sources unchanged |
| generator | a `yajl_gen` | `pt_to_json`, `generate_*_json` | reads documents | parsing the output gives the document back |
| getters, `pt_init`, `pt_cleanup` | none | one line each | | |
| hash table (`uthash.h`, vendored) | buckets and application order | macros | maps | order kept by expansion; find after add |
| tail queue (`bsd_queue.h`, vendored) | `tqh_first`, `tqh_last`, `tqe_next`, `tqe_prev` | macros | arrays | the back pointers point at what points here; a walk meets what was put in |

Hard behaviours: partial failure (a text that ends anywhere, an exchange that fails
anywhere, a failed `realloc`), long sequences of legal calls, stale pointers (borrowed
nodes, iterators, the parser's `cur`), and pieces whose sizes meet at a boundary.
`PROJECT.json` lists each hazard at its line.

## Modules

| module | models |
|---|---|
| `PtHeap` | documents on the heap: one record value, and a function from heaps to heaps for each routine; what it is to be well formed |
| `PtParser` | `parse_json` and the callbacks: one action per callback |
| `PtDocument` | a program that calls the node functions and `pt_from_json`; extends `PtParser` |
| `PtValues` | what the node functions promise to a program that looks at no address: documents are values |
| `PtDocumentValues` | the value of a document on the heap; `PtDocument` implements `PtValues` |
| `PtIterator` | the same program with an iterator open; extends `PtDocument` |
| `PtClient` | the program with HTTP calls, from the request to the parsed response, any number of them held; extends `PtDocument`, takes its exchanges from `PtExchange` |
| `PtHttp` | `http_operation`, its callbacks and the calls made of it |
| `PtExchange` | what a caller of those is promised; `PtHttp` implements it |
| `PtMerge` | `pt_map_update` and `pt_clone`, turn by turn, on the heap of `PtHeap` |
| `PtMergeValues` | what they do to documents as values, at every path; extends `PtMerge`, for TLC only |
| `PtGenerate` | `pt_to_json` and `pt_from_json` in turn, with the values of scalars, and the getters |
| `UtHash` | the hash table of a map, pointer by pointer |
| `UtMap` | what that table promises; `UtHash` implements it |
| `BsdTailq` | the tail queue of an array, pointer by pointer |
| `PtQueue` | what that queue promises; `BsdTailq` implements it |
| `SeqLemmas` | lemmas about sequences: one element more, at either end, or fewer |
| `PtHeapProofs`, `PtDocumentProofs`, `PtProgramProofs`, `PtMergeProofs`, `PtHttpProofs`, `BsdTailqProofs`, `UtHashProofs` | theorems; `PtProgramProofs` is about `PtIterator` and `PtClient` |
| `MC...` | instances for TLC |

Operators commented "a mutant" are plausible bugs: each property is shown to fail when
the definition after the mutant is replaced by it. No specification uses them.

### Heap (`PtHeap`)

`Node` and `Cell` are the addresses `malloc` may return, so an address that was freed
comes back, as it does in C. `h.type[n]` is `"FREE"` for a node that is not allocated;
null, boolean, integer and double nodes are one type `"SCALAR"`, since their values
matter to no property here. `h.chain[n]` is the queue of an array, or the application
order of a map's hash table, which is what `hh.next` walks. `h.text` is the set of
owners of a `strdup`ed buffer (string nodes and keyed cells), so that a lost string or
key counts as a leak.

`Tree(h, n)` is what `pt_free_node(n)` recurses over, stated as a least closed set
rather than by recursion so that the proofs can use it. The recursion of the C code
visits that set once, node by node, exactly when each node and cell has one owner,
which is what `OneOwner` says and what is proved.

Keys are abstract. `CKey` are those with no NUL byte: a `const char*` argument can name
only these, while a parsed key is stored with its length and can be any of `Key`. A
lookup by a C string therefore never meets a key with a NUL in it. `HASH_FIND` in a map
with a key twice returns the pair that comes first in its bucket; expansion of the table
reverses buckets, so `Matches` is the set of candidates and the callers choose any.

`malloc` and `calloc` are taken to succeed, as the node functions take them to.

### Parser and program (`PtParser`, `PtDocument`)

`gram` is yajl's side: what its grammar allows next, at each level. `stack` and `root`
are the code's. Every callback is an action; `ParseReturn` can happen after any event,
which is a text that ends, or has an error, there; it stands for the rest of
`parse_json` with `free_parser_ctx`. yajl does not otherwise enter the model.

`held` is the program's side of the contract: nodes it must free or give away. It gives
away only what it holds, and never a node into its own document (`Givable`). The tests
and the example keep to that, and the code cannot survive a program that does not. It
may pass any live node as the container, of any type, so all the early returns are
taken, and any address at all to `pt_array_remove`, which only compares it.

### Documents as values (`PtValues`, `PtDocumentValues`)

`PtValues` has no heap. `docs` is a function from the documents a program holds to their
values, trees of `[t, kids]`. A call changes one document at one place: a key that is
there gets its new value where it is, a new key goes last, an element goes to either
end, and what is given away is no document of its own any more. `PtDocumentValues` reads
the value of each held document off the heap. That `PtDocument` implements `PtValues`
is what a program without a thought for addresses relies on: no call on one document is
seen in another, and nothing moves. A parse in progress is not held, so `Receive` allows
any value.

### Iterators (`PtIterator`)

`iter` is the C structure. `begun`, `given`, `came` and `good` are history: what the
container had when the walk began and has had since, what the walk gave back that is
still there, in which order (pairs of an earlier and a later cell), and whether the cell
to come was freed. Any call may come between two steps of the walk (`Meanwhile`); the
program calls `pt_iterator_next` only while `good`, for beyond that the behaviour is
undefined. The key and the value reported are those of the cell given back last.

### HTTP (`PtHttp`, `PtExchange`)

A call runs from `HttpOperation` to `pt_free_response`. `curl_easy_perform` is the steps
`CurlRead`, `CurlWrite` and `CurlDone`, in any order and with pieces of any size up to
`ReadMax`, `WriteMax`; it can fail at any point. The server's answer is chosen when the
call is made and read by no code before it arrives. When curl cannot tell the code of a complete
response, `http_operation` sets 500 and keeps the body: `ResponseCode` has both. The server,
or standard input, may go silent at any time (`CurlStalls`); such a call can still fail
(`CurlBreaks`) or stay for ever. Three facts about the outside are
assumed: curl succeeds only when the response is complete; it goes on as long as there is
something to go on with; and a server answers an
upload with 200..299 only after its end (it may answer with an error earlier).
`PtExchange` is what is left for the caller: the whole body with its code or 500, or 500
without a body, and an answer in the end unless the call stalls.
`recv.memory` has as many elements as the block has bytes, so a write past the end would
show. `pt_put` of a document is `PtPut` of its text; an upload of nothing reads stdin.
The parsed root is reduced to whether there is one. The program makes one call at a
time and frees the response before the next, since `http_operation` keeps all its state in
locals. `PtClient` has the responses that are held.

### A client (`PtClient`)

`PtClient` puts the parts together: `CallBegin` to `CallUnparsed` or `CallParsed` is one
of the five calls of `pillowtalk.h`. The exchange is that of `PtExchange` (instantiated),
the parse that of `PtParser` on the heap of `PtDocument`, and a response in `resp` owns the
document that was parsed from it. Between calls the program does whatever `PtDocument` can do,
also to the documents in responses, but does not give their roots away: the tests and the
example keep to that, and `pt_free_response` would free such a root again. `Owned` is
what the program holds directly or in responses; with `held` mapped to that, `PtClient`
implements `PtDocument`. A body is parsed as any text, and one that never arrived
(`raw_json` NULL) as none. A call that stalls is one whose `CallPerform` does not come.

### Merging and cloning (`PtMerge`)

Both functions recurse over documents on the heap, and `pt_map_update` frees what it replaces
while it reads. `stack` is the C call stack: a frame has the node it fills, the one it
reads, the loop's place in that (`at`) and the pair `pt_map_get` found (`slot`). A turn is
a loop that passes over a pair (`UpdateSkip`), a call (`UpdateClone`, `UpdateNested`,
`CloneKid`, with the callee up to its loop), a return (`UpdateMismatch`, `UpdateEnd`,
`CloneReturns`, with what the caller does next: it puts the clone in, frees what was there,
and goes to the next cell), or an element of an array that is NULL (`CloneNull`). `GoOn`
reads the next cell from the one at hand; if that has been freed meanwhile the
behaviour is undefined: `stale` says so and the model stops there. `append` has no effect in
the code and is left out. `load` is what the getters give for a leaf; with it a value can be
told from the one it replaces, and `Kind` tells the four types of scalar apart, which
`TypesDiffer` compares.

`Start` is what may be in memory: any heap that is well formed, as `PtDocument` leaves it. So
keys may occur twice or contain a NUL, pairs may have no value, root and additions may be one,
or parts of each other. The program may pass any live node or NULL; of two pairs
with one key `HASH_FIND` may return either (`Found`).

`was`, `copy`, `merged` and `cut` are history, and nothing in the code's part reads them: memory
as it was when the call was made, which node is a clone of which, which pairs of maps were merged,
and which of those calls returned 1.

### Writing and reading (`PtGenerate`)

A program reads a text, writes the document, reads that, and so on. A text is the
sequence of events that yajl reports of it, or that it was written by; it may be cut short
anywhere. `PtParser` has the parser on the heap, callback by callback, without the values
of scalars; here a whole parse is one fold of the callbacks, and the values are what the
module is about: strings and keys lose what is after a NUL when they are written, a
`long long` is cut to an `int`, any true boolean is read as 1, a NULL is written as null.
What a program can tell of a document is `SameLook`: every lookup, and every getter on
what it finds. yajl itself is taken to pass values on; doubles are counted in halves. A
text that is a number and nothing else is left out, since yajl may not report it.

### The hash table (`UtHash`, `UtMap`)

`tbl` and `buckets` are the table; `prev`, `next`, `hh_prev`, `hh_next` and `hashv` are the
fields of each pair's hash handle, `JUNK` where the memory was freed. The loops are made step
by step: `FindNext` is a turn of `HASH_FIND_IN_BKT`, `ExpandPair` and `ExpandBucket` the inner
and the outer turn of `HASH_EXPAND_BUCKETS`, `FreePair` one of `free_map_node`. No call begins
before they end, as the library has one thread; but a search begun before and an expansion
half done have an invariant of their own, which the proofs need. The offset of the handle is
left out and the hash function is a constant. `MaxBuckets` is the only bound: a table that
large is added to no more, for TLC's sake; the theorems are for any.

`order`, `chain` and `moved` are history: the pairs in the map, those in each bucket, and
during an expansion those that were put in each new bucket. Nothing in the code's part reads
them. `UtMap` is the promise, which is what `PtHeap` takes a map to be: `AddPair` is `Add`,
`DropPair` of one of `Matches` is `Unset`, and the end of a map is `FreeBegin`, then
`Drain` from the front until `FreeEnd`. The refinement keeps `order`, `key` and `dying`; that
`order` is the list along `next` is `Fsck`, and finds and expansions are stutters.

### The tail queue (`BsdTailq`, `PtQueue`)

`at[s]` is the pointer stored at address `s`: the `tqh_first` of an array or the `tqe_next`
of an element. `prev` and `last` hold such addresses, as `tqe_prev` and `tqh_last` do, so
that the removal of an element writes through `prev` without knowing whether that is a head.
Memory that was not written or was freed holds `JUNK`. The loops are walked step by step:
`pt_array_remove` reads the next element before it compares, and `free_array_node` takes
arrays in arrays apart innermost first (`dying`), with `TAILQ_FIRST` read again each
time. Nested arrays are any arrays here: which array is in which element is `PtHeap`'s
matter. `order` is history, and `PtQueue` is what `PtHeap` takes `h.chain` of an array to
be: `AddElemFront`, `AddElemBack` and `DropElem` are its `Push` and `TakeOut`. It knows what
the program asked for, too: `asked` is the node to be removed, and the first element that holds it
goes, or nothing when there is none; `dying` has the arrays being freed, and only the
innermost of these loses elements, from its front.

## Runs

| run | expects | bounds | size |
|---|---|---|---|
| `document` | pass | 4 nodes, 3 cells, 2 keys (one a C string), symmetric | 36,678 states, depth 16 |
| `iterator` | pass | 3 nodes, 3 cells, 2 keys, symmetric | 125,968 states |
| `client` | pass | 3 nodes, 2 cells, 1 key, 2 responses, codes 200 and 500, a body and an empty one, symmetric | 166,000 states, depth 20 |
| `http` | pass | bodies of 0, 1 and 4 bytes both ways, pieces of up to 3, codes 201, 404, 500 | 1,257 states |
| `unset`, `iterator_null` | violation | as `document`, `iterator` | |
| `merge` | pass | 14 memories of up to 8 nodes and 7 cells, with 3 of each free, 3 keys (one with a NUL), two calls in any order with `n1`, `n2` or NULL; paths of up to 3 keys; symmetry on what is free; no deadlock check, as calls and memory run out | 17,303 states |
| `merge_mismatch` | violation | as `merge` | |
| `generate` | pass | texts of up to 3 levels and 2 values a container, all their prefixes; documents likewise; ints of 3 bits | 11,000 states |
| `uthash` | pass | 5 pairs, symmetric; 3 keys, two of which share a bucket up to 2 buckets; from 1 bucket up to 16, threshold 2 | 88,609 states |
| `tailq` | pass | 3 arrays, 4 elements, 2 nodes, symmetric | 1,247 states |
| `http_realloc` | violation | as `http`, with `realloc` failing; the program can crash, so no deadlock check | |

Four nodes and three cells are enough for a container in a container in a container,
for two containers with a cell each and one more, for three elements in an array and for
a key twice next to another key. Three elements are what order needs: one removed
between two that stay. Addresses run out and come back, so sequences of calls are of any
length; a call that needs an address when none is left is disabled, never the calls that
free. The four-byte body with pieces of up to three has a piece equal to the rest, one
longer and one shorter, after zero, one, two or three others. The hash table is scaled
down from 32 buckets and a threshold of 10: with these bounds the buckets are doubled up
to four times, chains reach the threshold with and without a multiple, and expansion is
given up (`noexpand`). Merges cannot have all small memories; the 14 have, one by one, what the
loops branch on: a value replaced and one added, a map into a map with a key in common and
without, a mismatch below and at once, between two kinds of number too, arrays, pairs with no
value, keys with a NUL or twice on either side, additions in root through maps and through
arrays, root in additions. Two calls are a merge done again, a clone of what was merged, and a
merge of a document into itself. What the bounds leave out is the business of the theorems. Two responses are what it takes to free
one while the other is held, and to make a call while one is; three nodes are a document
in each and one of the program's. Four elements are one taken out between two in one
array with another array in use, and a node that is in two places.

What the runs show beyond the types:

* `NoDanglingInv`, `OneOwnerInv`, `NoLeakInv`, `ShapeInv`: after any sequence of calls,
  with parses cut short after any event, every pointer is good, each node and cell has
  one owner, each allocation is reachable from an owner, and `len` is the length of the
  queue. So `pt_free_node` of what the program holds frees everything once.
* `StackFollowsGrammar`: no assertion in the callbacks fails, "Shouldn't get here" is not
  got to and the root is set once.
* `BorrowedStaysLive`: a pointer from `pt_map_get` or an iterator dies only when its slot,
  or that of a container around it, is overwritten or removed, or the document freed.
* `KeepsValues`: `PtDocument` implements `PtValues`: a call changes one document at most, at
  one place; what stays in a container keeps its order. Which document and which place the call
  names is not compared: those are in the actions of `PtDocument`.
* `ClientKeepsDocuments`: `PtClient` implements `PtDocument`, so all of the above holds of
  documents in responses too, however calls, edits and frees follow each other.
* `WalkIsExact`, `WalkKeepsOrder`, `GivenMayGo`: a walk misses and repeats nothing while
  the cell to come is there, goes in the order of the container, and may take out
  whatever it gave back.
* `QmdChecks`, `WalkIsOrder`, `KeepsPromise`: the checks `bsd_queue.h` has for kernels never
  fail, in the middle of a removal or a free either; a walk meets what was put in;
  `BsdTailq` implements `PtQueue`, so a removal takes the first element with the node asked for.
* `ReceivedIsArrived`, `SentIsData`: the chunk arithmetic of the two callbacks.
* `SuccessIsEndToEnd`: told of success, the program knows both bodies passed whole.
* `DocumentsStayApart`: at every turn of a merge or a clone, each node has one owner and is there;
  nothing is shared or lost, whether the merge ends early or not, and when its arguments overlap.
* `RestIsUntouched`: a clone changes nothing, and a merge nothing outside root's part.
* `CloneFindsTheSame`: a clone is what its original is, node for node, up to NULs in keys, pairs
  without a value and keys that occur twice.
* `MergeIsUnion`: a map that was merged with no mismatch has all that its counterpart has, with
  a clone of the value there or, of two maps, with these merged.
* `HalfDoneIsSound`: at any turn, and after a mismatch, no pair of root is lost or out of place,
  and what is new is a clone of what additions has for the key.
* `PathsAreMerged`: at every path the root has what additions has there or else what it had.
* `AgainIsSame`: a merge done twice is a merge done once.
* `StaleOnlyThroughArrays`: with additions a part of root, `pt_map_update` can go on in
  memory it has freed, but only if an array is between the two.
* `WritesJson`: whatever the document, half built ones too, what is written is one JSON
  value.
* `TextPasses`, `TextSettles`: a text with no NUL and no wide integer is written as it was
  read; any other changes once and then no more.
* `LooksTheSame`: a document that was written and read looks the same to a program.
* `Fsck`: the integrity check that `uthash.h` has for debugging never fails, and the buckets
  share the pairs among them.
* `FindIsRight`, `FoundStaysFound`: what is in a map is found, and which of two pairs with
  one key it is changes only with the buckets.
* `ChainsBounded`: no bucket is over its threshold. It may be at it: the comment of
  `expand_mult` can be read as if an expansion left each below.
* `KeepsOrder`: `UtHash` implements `UtMap`.
* `KeepsThePromise`: `PtHttp` implements `PtExchange`, its fairness included: a whole body or
  none, the server's code or 500, and an answer in the end unless the other end stalls.

### What the code does otherwise

* `unset`: a text with a key twice gives a map with the key twice; `pt_map_unset` takes
  out one pair, and `pt_map_get` still finds the other.
* `iterator_null`: `pt_iterator_next` returns NULL for a NULL element with more to come.
* `merge_mismatch`: `pt_map_update` returns 0 when what could not be merged is in a map
  within both.
* `http_realloc`: after a failed `realloc` in the middle of a response the call succeeds
  with a text that is not the server's.

### Fairness

None is assumed but in `PtHttp`: a program may stop, and every other property is one of
safety. `PtHttp` assumes that `curl_easy_perform` goes on while there is something to go on
with: `WF` of its three steps together. That there is, is not assumed, since the code does not
see to it: `CONNECTTIMEOUT` bounds the connection only, and a server that goes silent keeps
the caller for ever. `CurlStalls` can come at any time and no fairness ends it. What is
shown is that the callbacks do not add to that: they never make curl go round for ever, and a
call whose other end stays alive comes back.

## Proofs

`PtDocumentProofs` proves, for any sets `Node`, `Cell`, `Key` that satisfy
`AddressAssumption` (NULL is no address and nodes are not cells), the invariants the
`document` run checks: `TypeCorrect`, `NeverDangling`, `AlwaysOneOwner`, `NeverLeaks`,
`ShapeKept`, `CallbacksFindTheirContainer`; and the action property `BorrowedStaysLive`
(`BorrowedNodesStay`).

None of them is inductive alone. To set a value in a cell keeps the heap sound only if
the cell was empty, the value was owned from outside, and the cell is not in the value's
own document; that the parser has such a cell at hand is a fact about its stack; that the
stack is right depends on the heap below it. So they are proved together, as

    IInv == WellFormed(heap, Roots) /\ held \subseteq Node /\ ParserTypeOK /\ StackFollowsGrammar

`PtHeapProofs` has one lemma for each routine: from `WellFormed(h, R)` to
`WellFormed(h', R')`, with `R` the nodes owned from outside. The hard ones are
`FreeTreeWellFormed` (a document is closed upwards as well as downwards, because of
one owner: nothing outside it points into it) and `AttachWellFormed` (reachability is
kept because the new parent is outside the child's document). Reachability is used in
the form `Reached`: whatever closed set holds the owners holds every live node, which
`ReachedIff` shows to be what `NoLeak` says. `PtDocumentProofs` composes these, one lemma
per action, and adds the sequence facts about the two stacks. `BorrowedNodesStay` follows
from `IInv` and what each step frees: only `FreeVal` and `FreeNode` free nodes, and only
those in the document of what was in the slot, or of the node that is freed.

`PtProgramProofs` proves of `PtIterator`, under the same assumption and for a container of any size, the
two invariants of the `iterator` run, the types and `GivenMayGo`, from

    IterInv == IInv /\ IterTypeOK /\ CellsStay /\ PointerStays /\ WalkIsExact /\ WalkKeepsOrder

The heap matters to a walk through the chain of one container only, and all a step does to
a chain is to empty it, to link one fresh cell at an end, or to unlink one (`AllRelinked`). So
what stays keeps its order (`SameOrder`), and what is ahead of the pointer stays ahead.
`GivenMayBeRemoved` adds that `pt_array_remove` takes the first element that holds the node, so
that it never gets beyond the element that was given back.

Of `PtClient` it proves, from `AddressAssumption` and `ClientAssumption` (NULL is
no address of a response, no body, and no record), that `PtClient` implements `PtDocument`
(`ClientHandlesDocuments`), so that what is proved of `PtDocument` carries over
(`ResponsesOwnTheirDocuments`). The invariant is

    ClientInv == Docs!IInv /\ RootsApart /\ RootsDiffer /\ root \notin Owned /\ CallOK /\ RootlessCall

where `Docs` is `PtDocumentProofs` under the refinement mapping. The rest says
what `held` alone does not: that no two responses, and no response and the program,
own one root, so that to free a response gives up one owner; and that a call that is being
parsed has a response with no document yet.

`BsdTailqProofs` proves, from `TailqAssumption` (elements are not arrays; NULL and JUNK differ and
are no addresses, and NULL is no record), for any number of arrays and elements, the four properties
of the `tailq` run, the refinement of `PtQueue` included. The invariant is

    TailqInv == TailqTypeOK /\ MemInv /\ WalkSoFar /\ DyingThere

`MemInv` says that the queues are apart and that each has its pointers right, forth and
back. It is about `order`, the history: `QmdChecks` and `WalkIsOrder` follow from
it, and no induction along the pointers is needed. `WalkSoFar` is that
a search under way has passed only elements that do not hold the node; without it the
refinement could not say which element is taken out. `SeqLemmas` has what all
of these need of sequences without repetition.

`UtHashProofs` proves, from `HashAssumption` (NULL and JUNK are no pair, key, number or record;
the hash of a key is a number; buckets begin as a power of two and the threshold is not 0), for
any hash function and any number of pairs, buckets and threshold, all six properties of the
`uthash` run. The invariant is

    IInv == UtHashTypeOK /\ AppOK /\ RestOK /\ GrowOK /\ FindOK

`AppOK` is the list of all pairs and `RestOK` the buckets at rest; `GrowOK` says where the pairs
are during an expansion, those of the old buckets up to `bkt` gone and those of the one at hand
listed from `thh`, forth only, since `hh_prev` of what is left there leads anywhere; `FindOK` says
that a search is in the right bucket, past pairs with other keys. Under them are lemmas about
doubly linked lists (`LinkedCons`, `LinkedAppend`, `LinkedRemove`).

`ChainsBounded` is not inductive, and what makes it so is not in the code's comments. An
expansion sets `expand_mult` to a multiple of the ideal length, while the threshold counts
multiples of `HASH_BKT_CAPACITY_THRESH`; should the ideal length get above that, buckets would be
left above their bound. It does not, because of a bound that all buckets have in common. Give each
bucket the share `max(expand_mult, count \div Thresh)`; then the shares sum to at most the number
of buckets. An addition that triggers no expansion leaves its bucket's share as it was. When one does,
each bucket has at most `Thresh` times one more than its share was, so there are at most
`2 * num_buckets * Thresh` pairs (`FewPairs`), and the ideal length for twice the buckets is at
most `Thresh` (`IdealBounds`); the new shares are then at most `count \div ideal` each, which
sum to at most the new number of buckets (`NewBounds`). A deletion makes no share larger.
Sums over buckets are by a set of partial sums, and the facts about them by `Induction`: the
set of the naturals for which a formula holds, which the provers can be given, in place of
the formula, which they cannot. `FoundCorrect` is by cases on the places in one
bucket before and after a step, and `OrderCorrect` follows from `AppOK`, step by step.

`PtHttpProofs` proves, for bodies and data of any length and pieces of any size, from
`HttpAssumption` (codes are numbers; NULL is neither a text nor a response), the invariants of
the `http` run. Two of them hold whether `realloc` fails or not, `HttpTypeCorrect` and
`NothingSentIsLost`, from the inductive invariant

    HttpInv == HttpTypeOK /\ CallIsSetUp /\ RoomForNul /\ SentIsData

`CallIsSetUp` is what `http_operation` put in `send_data`, that data is passed only with
`CURLOPT_UPLOAD`, and that nothing is left over between calls; `RoomForNul` is that the block is
one longer than its text, also when an earlier block was dropped. What is received is whole only
while `realloc` does not fail, as `http_realloc` shows; so `NothingReceivedIsLost` and
`SuccessMeansEndToEnd` assume `~ReallocMayFail`, and add to `HttpInv`

    WholeInv == ReceivedIsArrived /\ SuccessIsEndToEnd /\ pc # "crashed"

`SuccessIsEndToEnd` speaks of a response whose chunks are gone, so it cannot be kept by
a step alone: `CurlDoneWhole` has it from what the chunks were when curl returned.
The facts under both are about sequences: `NextPiece` (a piece of a body put after what is
before it) and `EndedByNul` (a text with its NUL). `HttpKeepsThePromise` takes from
the two, under the same assumption, that `PtHttp` implements `PtExchange` but for its fairness:
calls map to `Ask`, the end of an exchange to `Answer`, with the code that curl could not tell
among its answers, `CurlStalls` to `Stall`, `CurlBreaks` to `Break`, `pt_free_response` to
`Forget`, the callbacks to stutters.

`PtMergeProofs` proves, from `AddressAssumption`, `MergeAssumption` (a key up to its first NUL has
none) and `StartAssumption` (the heap is well formed when the program first calls: what
`PtDocumentProofs` proves of any program), for documents of any size and depth and any number of
calls, seven of the nine invariants of the `merge` run. There are three inductive invariants, each
proved on top of the one before. The first is about memory:

    MergeInv == MergeTypeOK /\ WellFormed(heap, Owners) /\ held \cap Filling = {}
                /\ StaleOnlyThroughArrays /\ (~stale => Underway)

`Owners` are the nodes that the program holds and the clones in frames, which no one else does.
`Underway` is about the stack: each frame is at a cell of what it reads; each has been called by
the one before with what is there (`LinkOK`); and of any two frames the later fills, and reads, a
proper part of what the earlier does (`PairOK`), so that what is freed on the way back is no part
of what a caller fills. `Ordered` is why maps in maps are safe: where additions is in root
through maps only, that is so of every pair of maps under way, and what is freed is never a map.
`MergeTypes`, `MergeKeepsDocumentsApart` and `StaleReadsNeedAnArray` follow. `RestInv` adds that
every node that is written to is new or in root's part (`Writable`), and that nothing leads out
of these: `CallsLeaveTheRestAlone`.

The second is what a clone is, where root and additions have no part in common:

    CopyInv == Apart => CopiesOK /\ (\A i : CopyFrameOK(stack[i])) /\ FinishedOK /\ MadeOK

A frame that clones has cloned as many cells as its loop has behind it (`Filled`, `Passage`); with
the last, the node is a finished clone; and a finished one is not written to again, unless
`pt_map_update` merges into it. `ClonesAreFaithful` follows.

The third is what has been merged:

    UnionInv == Apart /\ NamesDiffer =>
      MergedMaps /\ OthersKept /\ \A q \in merged : Placed(q) /\ PairsKept(q) /\ (q \notin cut => Joined(q))

`Joined` says of each value that the loop over q is through with (`Processed`) that root has it.
The loop may be anywhere on the stack, or over, so this is kept by steps of other frames also:
what these free is no part of a merged map (`MergedNotFreed`), because a merged map
is reached from root through merged maps only (`Placed`, `MergedOutside`). `PairsKept` compares a
map with what it was before the call; when two maps are merged in the middle of it, `OthersKept`
says that the new one is as it was, and `NestedIsNew` that it was not merged before: the pair of
root that leads to it has been touched by no value yet, since no two keys of additions are one.
`MergesAreUnions` and `HalfDoneMergesAreSound` follow. Without `NamesDiffer` both are
false, as a second value for a key replaces the first; without `Apart`, additions changes
while it is read.

Model-checked only: `KeepsValues`; `PathsAreMerged` and `AgainIsSame`, which compare documents as
values; and all of `PtGenerate`. Beyond the prover: the
liveness in `KeepsThePromise`; and what the `RECURSIVE` operators of `PtMergeValues`, `PtGenerate`
and `PtDocumentValues` give for every input, since they cannot be used from a module with theorems.
The proofs about `pt_map_update` are node by node instead: at each merged map, each cloned node.

## Not modelled

`pt_init` and `pt_cleanup`, each one call of a global function of libcurl; what yajl does
with a value it refuses to write (a double that is not a number, a document too deep), whose
status the code ignores; indentation; the parts of `uthash.h`, `bsd_queue.h` and `utlist.h`
that nothing calls, which are most of them; failure of `malloc` outside
`recv_memory_callback`; bodies of more than `INT_MAX` bytes; recursion so deep that the C
stack ends. Five hazards in `PROJECT.json` have no property, each with the reason: they are
about what curl, yajl or the server do, or about bytes that are lost without harm to what the
program sees.

What could be added: `KeepsValues` as a theorem, with the value of a document as a recursive
function and an induction over its depth in the form of `Induction`; that the maps and arrays of
`PtHeap` implement `UtMap` and `PtQueue`; `pt_map_update` and iterators in one program; yajl's
refusals and a timeout for the whole exchange, should the library come to handle them.
