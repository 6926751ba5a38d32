---------------------------- MODULE PclusterCache ----------------------------
(***************************************************************************)
(* `PclusterCache` (src/src/fs.rs): the LRU cache of decoded pclusters,    *)
(* bounded by entries and by bytes.  Each operator is one critical section *)
(* under the mutex that guards it, from the cache before to the one after. *)
(*                                                                         *)
(* A cache is a record: cap, the entry bound, 0 when caching is disabled;  *)
(* val, the decoded bytes of each key held; age, the recency of each key   *)
(* held, 0 the most recent; bytes, hits and misses, the counters.          *)
(***************************************************************************)
EXTENDS Integers, Sequences, FiniteSetsExt

CONSTANT ByteLimit      \* DEFAULT_PCLUSTER_CACHE_BYTES

ASSUME LimitAssumption == ByteLimit \in Nat

CacheField == {"cap", "age", "val", "bytes", "hits", "misses"}

Held(c) == DOMAIN c.val
Live(c) == c.cap > 0

\* The bytes the entries of S stand for.
Weight(c, S) == MapThenSumSet(LAMBDA k : Len(c.val[k]), S)

\* PclusterCache::new: byte totals and counters start over.
New(n) == [cap |-> n, age |-> <<>>, val |-> <<>>, bytes |-> 0, hits |-> 0, misses |-> 0]

\* k becomes the most recent; what was more recent than k ages by one.
Touch(age, k) ==
  [x \in DOMAIN age \cup {k} |->
     IF x = k THEN 0
     ELSE IF k \in DOMAIN age /\ age[x] > age[k] THEN age[x]
     ELSE age[x] + 1]

\* cache_lookup: nothing at all when disabled; else a hit counts and refreshes the
\* entry, a miss counts.
Hit(c, k) == Live(c) /\ k \in Held(c)
AfterLookup(c, k) ==
  IF ~Live(c) THEN c
  ELSE IF k \in Held(c) THEN [c EXCEPT !.age = Touch(c.age, k), !.hits = @ + 1]
  ELSE [c EXCEPT !.misses = @ + 1]

\* What LruCache::push displaces: the value held under k, else the oldest entry of
\* a full cache.
Displaced(c, k) ==
  IF k \in Held(c) THEN {k} ELSE {x \in Held(c) : c.age[x] = c.cap - 1}

\* Seeded fault: what a push displaces stays in the byte total.
Pushed_LeaksBytes(c, k, v) ==
  LET kept == (Held(c) \ Displaced(c, k)) \cup {k}
      age  == Touch(c.age, k)
  IN  [c EXCEPT !.age   = [x \in kept |-> age[x]],
                !.val   = [x \in kept |-> IF x = k THEN v ELSE c.val[x]],
                !.bytes = @ + Len(v)]

Pushed(c, k, v) ==
  LET kept == (Held(c) \ Displaced(c, k)) \cup {k}
      age  == Touch(c.age, k)
  IN  [c EXCEPT !.age   = [x \in kept |-> age[x]],
                !.val   = [x \in kept |-> IF x = k THEN v ELSE c.val[x]],
                !.bytes = @ + Len(v) - Weight(c, Displaced(c, k))]

\* The n most recent entries; pop_lru takes the others, oldest first.
Newest(c, n) ==
  {k \in Held(c) : Cardinality({j \in Held(c) : c.age[j] < c.age[k]}) < n}

\* How many entries the loop over pop_lru leaves: the most that fit the limit.
Fitting(c) ==
  CHOOSE n \in 0 .. Cardinality(Held(c)) :
    LET total(m) == c.bytes - Weight(c, Held(c) \ Newest(c, m))
    IN  /\ n = 0 \/ total(n) <= ByteLimit
        /\ \A m \in n + 1 .. Cardinality(Held(c)) : total(m) > ByteLimit

Trimmed(c) ==
  LET kept == Newest(c, Fitting(c))
  IN  [c EXCEPT !.age   = [x \in kept |-> c.age[x]],
                !.val   = [x \in kept |-> c.val[x]],
                !.bytes = @ - Weight(c, Held(c) \ kept)]

\* Seeded fault: an insert does not look whether caching is on.
Insert_ThoughDisabled(c, k, v) ==
  IF Len(v) > ByteLimit THEN c ELSE Trimmed(Pushed(c, k, v))

\* PclusterCache::insert: not when disabled, not what alone exceeds the limit.
Insert(c, k, v) ==
  IF ~Live(c) \/ Len(v) > ByteLimit THEN c ELSE Trimmed(Pushed(c, k, v))
=============================================================================
