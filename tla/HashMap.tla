------------------------------- MODULE HashMap -------------------------------
(***************************************************************************)
(* cdsl_hashmap_t: separate chaining, and a bucket array that is doubled   *)
(* when more than three quarters of the buckets are used, up to a largest  *)
(* size, and that stays as it is when there is no memory for a new one.    *)
(*                                                                         *)
(* A chain is the set of its entries: the code looks for a key before it   *)
(* adds one, so the place of an entry in its chain is never seen.          *)
(***************************************************************************)
EXTENDS Integers, FiniteSets

CONSTANTS
  Keys, Values,
  Hash,           \* Hash[k]: the djb2 value of key k before the remainder
  BucketCounts,   \* what cdsl_hashmap_create is asked for
  MaxBuckets,     \* CDSL_HASHMAP_MAX_BUCKETS
  MaxMapFaults,   \* bound: failed allocations
  NoValue,        \* a removal has no value
  NoCall          \* no call has been made

ASSUME HashAssumption ==
  /\ Hash \in [Keys -> Nat]
  /\ BucketCounts \subseteq Nat \ {0}
  /\ MaxBuckets \in Nat
  /\ MaxMapFaults \in Nat

VARIABLES
  bucketCount,  \* map->bucket_count
  buckets,      \* map->buckets: the set of entries of each chain
  size,         \* map->size
  call,         \* history: the last call, what it was given and what it returned
  mapFaults

mapVars == <<bucketCount, buckets, size, call, mapFaults>>

Entries == [key : Keys, value : Values]
BucketOf(k, n) == Hash[k] % n
Indexes(n) == 0 .. n - 1

MapInit ==
  /\ bucketCount \in BucketCounts
  /\ buckets = [b \in Indexes(bucketCount) |-> {}]
  /\ size = 0
  /\ call = NoCall
  /\ mapFaults = 0

Called(op, k, v, ret) == [op |-> op, key |-> k, value |-> v, ret |-> ret]

Chain(k) == buckets[BucketOf(k, bucketCount)]
Found(k) == \E e \in Chain(k) : e.key = k

\* Mutant: entries stay in the bucket they had.
RehashedInPlace(chains, n) ==
  [b \in Indexes(n) |-> IF b \in DOMAIN chains THEN chains[b] ELSE {}]

\* The chains of an array of n buckets that holds the same entries.
Rehashed(chains, n) ==
  [b \in Indexes(n) |->
     {e \in UNION {chains[c] : c \in DOMAIN chains} : BucketOf(e.key, n) = b}]

\* An array with n entries is to be doubled.
Crowded(n) == bucketCount < MaxBuckets /\ n * 4 > bucketCount * 3
MayDouble == bucketCount * 2 <= MaxBuckets

\* Mutant: the value goes to a new entry although the key has one.
PutAnew(k, v) ==
  /\ Found(k)
  /\ buckets' = [buckets EXCEPT ![BucketOf(k, bucketCount)] =
                   @ \cup {[key |-> k, value |-> v]}]
  /\ call' = Called("put", k, v, TRUE)
  /\ UNCHANGED <<bucketCount, size, mapFaults>>

\* cdsl_hashmap_put of a key that has an entry: its value is replaced.
PutAgain(k, v) ==
  /\ Found(k)
  /\ buckets' = [buckets EXCEPT ![BucketOf(k, bucketCount)] =
       {e \in @ : e.key # k} \cup {[key |-> k, value |-> v]}]
  /\ call' = Called("put", k, v, TRUE)
  /\ UNCHANGED <<bucketCount, size, mapFaults>>

Added(k, v) ==
  [buckets EXCEPT ![BucketOf(k, bucketCount)] = @ \cup {[key |-> k, value |-> v]}]

\* cdsl_hashmap_put of a new key.  The array may be doubled after it.
PutNew(k, v) ==
  /\ ~Found(k)
  /\ size' = size + 1
  /\ call' = Called("put", k, v, TRUE)
  /\ \/ /\ Crowded(size + 1) /\ MayDouble
        /\ bucketCount' = bucketCount * 2
        /\ buckets' = Rehashed(Added(k, v), bucketCount * 2)
        /\ mapFaults' = mapFaults
     \/ /\ \/ ~(Crowded(size + 1) /\ MayDouble) /\ mapFaults' = mapFaults
           \/ /\ Crowded(size + 1) /\ MayDouble
              /\ mapFaults < MaxMapFaults /\ mapFaults' = mapFaults + 1
        /\ buckets' = Added(k, v)
        /\ UNCHANGED bucketCount

\* There is no memory for the entry or for its copy of the key.
PutFails(k, v) ==
  /\ ~Found(k)
  /\ call' = Called("put", k, v, FALSE)
  /\ mapFaults < MaxMapFaults /\ mapFaults' = mapFaults + 1
  /\ UNCHANGED <<bucketCount, buckets, size>>

\* cdsl_hashmap_remove, of a key that may not be there.
RemoveKey(k) ==
  /\ buckets' = [buckets EXCEPT ![BucketOf(k, bucketCount)] =
                   {e \in @ : e.key # k}]
  /\ size' = IF Found(k) THEN size - 1 ELSE size
  /\ call' = Called("remove", k, NoValue, Found(k))
  /\ UNCHANGED <<bucketCount, mapFaults>>

MapNext ==
  \E k \in Keys :
    \/ \E v \in Values : PutAgain(k, v) \/ PutNew(k, v) \/ PutFails(k, v)
    \/ RemoveKey(k)

MapSpec == MapInit /\ [][MapNext]_mapVars

-----------------------------------------------------------------------------
(***************************************************************************)
(* Properties.                                                             *)
(***************************************************************************)
AllEntries == UNION {buckets[b] : b \in DOMAIN buckets}

\* The types of the variables: an index that the hash yields is one of the array.
MapTypeOK ==
  /\ bucketCount \in Nat \ {0}
  /\ buckets \in [Indexes(bucketCount) -> SUBSET Entries]
  /\ size \in Nat
  /\ mapFaults \in 0 .. MaxMapFaults

\* Each entry is in the chain its key hashes to, through all rehashes, and no
\* key has two entries: a lookup looks where the entry is, and what it finds
\* there is the only one.
EntriesAreFindable ==
  /\ \A b \in DOMAIN buckets : \A e \in buckets[b] : BucketOf(e.key, bucketCount) = b
  /\ \A d, e \in AllEntries : d.key = e.key => d = e

\* The number of entries, which decides about doubling, is the number there is.
SizeIsExact == size = Cardinality(AllEntries)

\* Unless memory runs out or the array is as large as it may become, at most
\* three quarters of the buckets' worth of entries are in it.
LoadIsBounded == mapFaults = 0 => (size * 4 <= bucketCount * 3 \/ ~MayDouble)

(***************************************************************************)
(* The hash map implements KeyValueMap, with the table of what lookups     *)
(* return.                                                                 *)
(***************************************************************************)
FoundKeys == {k \in Keys : Found(k)}

\* cdsl_hashmap_get.
Get(k) == (CHOOSE e \in Chain(k) : e.key = k).value

Abstract == INSTANCE KeyValueMap WITH table <- [k \in FoundKeys |-> Get(k)]

\* Through collisions, doublings and failed allocations, lookups see exactly
\* the puts and removals that were made.
ImplementsKeyValueMap == Abstract!Spec
=============================================================================
