----------------------------- MODULE CacheProofs ------------------------------
(***************************************************************************)
(* Proofs about HashMap, for all keys, values, hash functions, sizes of    *)
(* the array and numbers of failed allocations, and about CompileCache,    *)
(* which keeps its entries in such a map, for any number of threads,       *)
(* sources, schemas, calls and failed allocations.                         *)
(***************************************************************************)
EXTENDS CompileCache, HashMap, FiniteSetTheorems, TLAPS

(***************************************************************************)
(* The hash map.  The inductive invariant is about the set of all entries: *)
(* what each operation makes of that set (AllAgain, AllNew, AllRemoved)    *)
(* decides what becomes of the number of entries and of the table of what  *)
(* lookups find.                                                           *)
(***************************************************************************)
MapInv ==
  /\ MapTypeOK
  /\ EntriesAreFindable
  /\ IsFiniteSet(AllEntries)
  /\ SizeIsExact

-----------------------------------------------------------------------------
\* The remainder of a hash is the index of a chain.
LEMMA BucketType ==
  ASSUME NEW k \in Keys, NEW n \in Nat \ {0}
  PROVE  BucketOf(k, n) \in Indexes(n)
<1>1. Hash[k] \in Nat
  BY HashAssumption
<1>2. Hash[k] % n \in 0 .. n - 1
  BY <1>1
<1> QED
  BY <1>2 DEF BucketOf, Indexes

LEMMA EntriesType ==
  ASSUME MapTypeOK, NEW e \in AllEntries
  PROVE  e \in Entries /\ e.key \in Keys /\ e.value \in Values
<1>1. PICK b \in DOMAIN buckets : e \in buckets[b]
  BY DEF AllEntries
<1>2. buckets[b] \subseteq Entries
  BY <1>1 DEF MapTypeOK
<1> QED
  BY <1>1, <1>2 DEF Entries

\* A key is found in its chain exactly when some chain has an entry of it.
LEMMA FoundAnywhere ==
  ASSUME MapTypeOK, EntriesAreFindable, NEW k \in Keys
  PROVE  Found(k) <=> \E e \in AllEntries : e.key = k
<1>1. BucketOf(k, bucketCount) \in DOMAIN buckets
  BY BucketType DEF MapTypeOK
<1>2. ASSUME Found(k) PROVE \E e \in AllEntries : e.key = k
  BY <1>1, <1>2 DEF Found, Chain, AllEntries
<1>3. ASSUME NEW e \in AllEntries, e.key = k PROVE Found(k)
  <2>1. PICK b \in DOMAIN buckets : e \in buckets[b]
    BY DEF AllEntries
  <2>2. BucketOf(k, bucketCount) = b
    BY <1>3, <2>1 DEF EntriesAreFindable
  <2> QED
    BY <1>3, <2>1, <2>2 DEF Found, Chain
<1> QED
  BY <1>2, <1>3

\* A put of a key that is there exchanges its entry.
LEMMA AllAgain ==
  ASSUME MapTypeOK, EntriesAreFindable, NEW k \in Keys, NEW v \in Values, PutAgain(k, v)
  PROVE  AllEntries' = {e \in AllEntries : e.key # k} \cup {[key |-> k, value |-> v]}
<1> DEFINE b == BucketOf(k, bucketCount)
           new == [key |-> k, value |-> v]
<1>1. b \in DOMAIN buckets
  BY BucketType DEF MapTypeOK
<1>2. /\ DOMAIN buckets' = DOMAIN buckets
      /\ buckets'[b] = {e \in buckets[b] : e.key # k} \cup {new}
      /\ \A c \in DOMAIN buckets : c # b => buckets'[c] = buckets[c]
  BY <1>1 DEF PutAgain, MapTypeOK
<1>3. \A c \in DOMAIN buckets : \A e \in buckets[c] : e.key = k => c = b
  BY DEF EntriesAreFindable
<1>4. ASSUME NEW e \in AllEntries' PROVE e = new \/ (e \in AllEntries /\ e.key # k)
  <2>1. PICK c \in DOMAIN buckets : e \in buckets'[c]
    BY <1>2 DEF AllEntries
  <2> QED
    BY <1>1, <1>2, <1>3, <2>1 DEF AllEntries
<1>5. ASSUME NEW e \in AllEntries, e.key # k PROVE e \in AllEntries'
  <2>1. PICK c \in DOMAIN buckets : e \in buckets[c]
    BY DEF AllEntries
  <2>2. e \in buckets'[c]
    BY <1>2, <1>5, <2>1
  <2> QED
    BY <1>2, <2>1, <2>2 DEF AllEntries
<1>6. new \in AllEntries'
  BY <1>1, <1>2 DEF AllEntries
<1> QED
  BY <1>4, <1>5, <1>6

\* A removal takes away what there was of the key.
LEMMA AllRemoved ==
  ASSUME MapTypeOK, EntriesAreFindable, NEW k \in Keys, RemoveKey(k)
  PROVE  AllEntries' = {e \in AllEntries : e.key # k}
<1> DEFINE b == BucketOf(k, bucketCount)
<1>1. b \in DOMAIN buckets
  BY BucketType DEF MapTypeOK
<1>2. /\ DOMAIN buckets' = DOMAIN buckets
      /\ buckets'[b] = {e \in buckets[b] : e.key # k}
      /\ \A c \in DOMAIN buckets : c # b => buckets'[c] = buckets[c]
  BY <1>1 DEF RemoveKey, MapTypeOK
<1>3. \A c \in DOMAIN buckets : \A e \in buckets[c] : e.key = k => c = b
  BY DEF EntriesAreFindable
<1>4. ASSUME NEW e \in AllEntries' PROVE e \in AllEntries /\ e.key # k
  <2>1. PICK c \in DOMAIN buckets : e \in buckets'[c]
    BY <1>2 DEF AllEntries
  <2> QED
    BY <1>1, <1>2, <1>3, <2>1 DEF AllEntries
<1>5. ASSUME NEW e \in AllEntries, e.key # k PROVE e \in AllEntries'
  <2>1. PICK c \in DOMAIN buckets : e \in buckets[c]
    BY DEF AllEntries
  <2>2. e \in buckets'[c]
    BY <1>2, <1>5, <2>1
  <2> QED
    BY <1>2, <2>1, <2>2 DEF AllEntries
<1> QED
  BY <1>4, <1>5

\* The entries are the same in the array they are moved to.
LEMMA AllRehashed ==
  ASSUME NEW chains, NEW n \in Nat \ {0},
         \A c \in DOMAIN chains : \A e \in chains[c] : e.key \in Keys
  PROVE  UNION {Rehashed(chains, n)[b] : b \in Indexes(n)} =
         UNION {chains[c] : c \in DOMAIN chains}
<1> DEFINE all == UNION {chains[c] : c \in DOMAIN chains}
<1>1. \A b \in Indexes(n) : Rehashed(chains, n)[b] = {e \in all : BucketOf(e.key, n) = b}
  BY DEF Rehashed
<1>2. \A e \in all : BucketOf(e.key, n) \in Indexes(n)
  BY BucketType
<1> QED
  BY <1>1, <1>2

\* A put of a new key adds one entry, whether the array is doubled or not.
LEMMA AllNew ==
  ASSUME MapTypeOK, NEW k \in Keys, NEW v \in Values, PutNew(k, v)
  PROVE  AllEntries' = AllEntries \cup {[key |-> k, value |-> v]}
<1> DEFINE b == BucketOf(k, bucketCount)
           new == [key |-> k, value |-> v]
           all == UNION {Added(k, v)[c] : c \in DOMAIN buckets}
<1>1. b \in DOMAIN buckets
  BY BucketType DEF MapTypeOK
<1>2. /\ DOMAIN Added(k, v) = DOMAIN buckets
      /\ Added(k, v)[b] = buckets[b] \cup {new}
      /\ \A c \in DOMAIN buckets : c # b => Added(k, v)[c] = buckets[c]
  BY <1>1 DEF Added, MapTypeOK
<1>3. all = AllEntries \cup {new}
  <2>1. ASSUME NEW e \in all PROVE e \in AllEntries \cup {new}
    <3>1. PICK c \in DOMAIN buckets : e \in Added(k, v)[c]
      OBVIOUS
    <3> QED
      BY <1>2, <3>1 DEF AllEntries
  <2>2. ASSUME NEW e \in AllEntries PROVE e \in all
    <3>1. PICK c \in DOMAIN buckets : e \in buckets[c]
      BY DEF AllEntries
    <3>2. e \in Added(k, v)[c]
      BY <1>2, <3>1
    <3> QED
      BY <3>1, <3>2
  <2>3. new \in all
    BY <1>1, <1>2
  <2> QED
    BY <2>1, <2>2, <2>3
<1>4. CASE buckets' = Added(k, v)
  BY <1>2, <1>3, <1>4 DEF AllEntries
<1>5. CASE buckets' = Rehashed(Added(k, v), bucketCount * 2)
  <2>1. bucketCount * 2 \in Nat \ {0}
    BY DEF MapTypeOK
  <2>2. \A c \in DOMAIN Added(k, v) : \A e \in Added(k, v)[c] : e.key \in Keys
    BY <1>2 DEF MapTypeOK, Entries
  <2>3. DOMAIN buckets' = Indexes(bucketCount * 2)
    BY <1>5 DEF Rehashed
  <2>4. UNION {buckets'[c] : c \in DOMAIN buckets'} = all
    BY <1>2, <1>5, <2>1, <2>2, <2>3, AllRehashed
  <2> QED
    BY <1>3, <2>4 DEF AllEntries
<1> QED
  BY <1>4, <1>5 DEF PutNew

-----------------------------------------------------------------------------
LEMMA MapInvInit == MapInit => MapInv
<1> SUFFICES ASSUME MapInit PROVE MapInv
  OBVIOUS
<1>1. AllEntries = {}
  BY DEF MapInit, AllEntries
<1>2. MapTypeOK
  BY HashAssumption DEF MapInit, MapTypeOK
<1>3. EntriesAreFindable
  BY <1>1 DEF MapInit, EntriesAreFindable
<1> QED
  BY <1>1, <1>2, <1>3, FS_EmptySet DEF MapInv, SizeIsExact, MapInit

LEMMA MapTypeStep == MapInv /\ [MapNext]_mapVars => MapTypeOK'
<1> SUFFICES ASSUME MapInv, [MapNext]_mapVars PROVE MapTypeOK'
  OBVIOUS
<1> USE DEF MapInv, MapTypeOK, Entries
<1>1. ASSUME NEW k \in Keys, NEW v \in Values, PutAgain(k, v) PROVE MapTypeOK'
  <2>1. [key |-> k, value |-> v] \in Entries
    OBVIOUS
  <2>2. BucketOf(k, bucketCount) \in Indexes(bucketCount)
    BY BucketType
  <2>3. {e \in buckets[BucketOf(k, bucketCount)] : e.key # k}
          \cup {[key |-> k, value |-> v]} \in SUBSET Entries
    BY <2>1, <2>2
  <2>4. buckets' \in [Indexes(bucketCount) -> SUBSET Entries]
    BY <1>1, <2>2, <2>3 DEF PutAgain
  <2> QED
    BY <1>1, <2>4 DEF PutAgain
<1>2. ASSUME NEW k \in Keys, NEW v \in Values, PutNew(k, v) PROVE MapTypeOK'
  <2>1. Added(k, v) \in [Indexes(bucketCount) -> SUBSET Entries]
    BY BucketType DEF Added
  <2>2. CASE buckets' = Added(k, v) /\ bucketCount' = bucketCount
    BY <1>2, <2>1, <2>2, HashAssumption DEF PutNew
  <2>3. CASE /\ buckets' = Rehashed(Added(k, v), bucketCount * 2)
             /\ bucketCount' = bucketCount * 2
             /\ mapFaults' = mapFaults
    <3>1. Rehashed(Added(k, v), bucketCount * 2)
            \in [Indexes(bucketCount * 2) -> SUBSET Entries]
      BY <2>1 DEF Rehashed
    <3>2. bucketCount * 2 \in Nat \ {0}
      OBVIOUS
    <3> QED
      BY <1>2, <2>3, <3>1, <3>2 DEF PutNew
  <2> QED
    BY <1>2, <2>2, <2>3 DEF PutNew
<1>3. ASSUME NEW k \in Keys, NEW v \in Values, PutFails(k, v) PROVE MapTypeOK'
  BY <1>3, HashAssumption DEF PutFails
<1>4. ASSUME NEW k \in Keys, RemoveKey(k) PROVE MapTypeOK'
  <2>1. Found(k) => size - 1 \in Nat
    <3> SUFFICES ASSUME Found(k) PROVE size # 0
      OBVIOUS
    <3>1. AllEntries # {}
      BY FoundAnywhere
    <3> QED
      BY <3>1, FS_EmptySet DEF SizeIsExact
  <2> QED
    BY <1>4, <2>1, BucketType DEF RemoveKey
<1>5. CASE UNCHANGED mapVars
  BY <1>5 DEF mapVars
<1> QED
  BY <1>1, <1>2, <1>3, <1>4, <1>5 DEF MapNext

\* Each entry is in its chain, and no key has two: the second follows from what
\* the operation makes of all entries.
LEMMA FindableStep == MapInv /\ [MapNext]_mapVars => EntriesAreFindable'
<1> SUFFICES ASSUME MapInv, [MapNext]_mapVars PROVE EntriesAreFindable'
  OBVIOUS
<1> DEFINE InPlace == \A b \in DOMAIN buckets : \A e \in buckets[b] :
                        BucketOf(e.key, bucketCount) = b
           Unique == \A d, e \in AllEntries : d.key = e.key => d = e
<1>0. MapTypeOK /\ EntriesAreFindable /\ InPlace /\ Unique
  BY DEF MapInv, EntriesAreFindable
<1>1. ASSUME NEW k \in Keys, NEW v \in Values, PutAgain(k, v)
      PROVE  EntriesAreFindable'
  <2>1. InPlace'
    <3>1. BucketOf(k, bucketCount) \in DOMAIN buckets
      BY <1>0, BucketType DEF MapTypeOK
    <3> QED
      BY <1>0, <1>1, <3>1 DEF PutAgain, MapTypeOK, BucketOf
  <2>2. Unique'
    BY <1>0, <1>1, AllAgain
  <2> QED
    BY <2>1, <2>2 DEF EntriesAreFindable
<1>2. ASSUME NEW k \in Keys, NEW v \in Values, PutNew(k, v)
      PROVE  EntriesAreFindable'
  <2>1. InPlace'
    <3>1. BucketOf(k, bucketCount) \in DOMAIN buckets
      BY <1>0, BucketType DEF MapTypeOK
    <3>2. CASE buckets' = Added(k, v) /\ bucketCount' = bucketCount
      BY <1>0, <3>1, <3>2 DEF Added, MapTypeOK, BucketOf
    <3>3. CASE /\ buckets' = Rehashed(Added(k, v), bucketCount * 2)
               /\ bucketCount' = bucketCount * 2
      BY <3>3 DEF Rehashed, BucketOf
    <3> QED
      BY <1>2, <3>2, <3>3 DEF PutNew
  <2>2. \A e \in AllEntries : e.key # k
    BY <1>0, <1>2, FoundAnywhere DEF PutNew
  <2>3. Unique'
    BY <1>0, <1>2, <2>2, AllNew
  <2> QED
    BY <2>1, <2>3 DEF EntriesAreFindable
<1>3. ASSUME NEW k \in Keys, NEW v \in Values, PutFails(k, v)
      PROVE  EntriesAreFindable'
  BY <1>0, <1>3 DEF PutFails, EntriesAreFindable, AllEntries, BucketOf
<1>4. ASSUME NEW k \in Keys, RemoveKey(k) PROVE EntriesAreFindable'
  <2>1. InPlace'
    <3>1. BucketOf(k, bucketCount) \in DOMAIN buckets
      BY <1>0, BucketType DEF MapTypeOK
    <3> QED
      BY <1>0, <1>4, <3>1 DEF RemoveKey, MapTypeOK, BucketOf
  <2>2. Unique'
    BY <1>0, <1>4, AllRemoved
  <2> QED
    BY <2>1, <2>2 DEF EntriesAreFindable
<1>5. CASE UNCHANGED mapVars
  BY <1>0, <1>5 DEF mapVars, EntriesAreFindable, AllEntries, BucketOf
<1> QED
  BY <1>1, <1>2, <1>3, <1>4, <1>5 DEF MapNext

\* The entry of a found key, the only one of that key.
LEMMA TheEntry ==
  ASSUME MapInv, NEW k \in Keys, Found(k)
  PROVE  \E e \in AllEntries :
           e.key = k /\ {d \in AllEntries : d.key # k} = AllEntries \ {e}
<1>1. PICK e \in AllEntries : e.key = k
  BY FoundAnywhere DEF MapInv
<1>2. \A d \in AllEntries : d.key = k => d = e
  BY <1>1 DEF MapInv, EntriesAreFindable
<1> QED
  BY <1>1, <1>2

LEMMA SizeStep ==
  MapInv /\ [MapNext]_mapVars => IsFiniteSet(AllEntries)' /\ SizeIsExact'
<1> SUFFICES ASSUME MapInv, [MapNext]_mapVars
             PROVE  IsFiniteSet(AllEntries') /\ size' = Cardinality(AllEntries')
  BY DEF SizeIsExact
<1>0. MapTypeOK /\ EntriesAreFindable /\ IsFiniteSet(AllEntries)
      /\ size = Cardinality(AllEntries) /\ size \in Nat
  BY DEF MapInv, SizeIsExact, MapTypeOK
<1>1. ASSUME NEW k \in Keys, NEW v \in Values, PutAgain(k, v)
      PROVE  IsFiniteSet(AllEntries') /\ size' = Cardinality(AllEntries')
  <2>1. PICK e \in AllEntries :
          e.key = k /\ {d \in AllEntries : d.key # k} = AllEntries \ {e}
    BY <1>1, TheEntry DEF PutAgain
  <2>2. /\ IsFiniteSet(AllEntries \ {e})
        /\ Cardinality(AllEntries \ {e}) = size - 1
    BY <1>0, <2>1, FS_RemoveElement
  <2>3. [key |-> k, value |-> v] \notin AllEntries \ {e}
    BY <2>1
  <2>4. AllEntries' = (AllEntries \ {e}) \cup {[key |-> k, value |-> v]}
    BY <1>0, <1>1, <2>1, AllAgain
  <2>5. IsFiniteSet(AllEntries') /\ Cardinality(AllEntries') = (size - 1) + 1
    BY <2>2, <2>3, <2>4, FS_AddElement
  <2> QED
    BY <1>0, <1>1, <2>5 DEF PutAgain
<1>2. ASSUME NEW k \in Keys, NEW v \in Values, PutNew(k, v)
      PROVE  IsFiniteSet(AllEntries') /\ size' = Cardinality(AllEntries')
  <2>1. [key |-> k, value |-> v] \notin AllEntries
    BY <1>0, <1>2, FoundAnywhere DEF PutNew
  <2>2. AllEntries' = AllEntries \cup {[key |-> k, value |-> v]}
    BY <1>0, <1>2, AllNew
  <2>3. IsFiniteSet(AllEntries') /\ Cardinality(AllEntries') = size + 1
    BY <1>0, <2>1, <2>2, FS_AddElement
  <2> QED
    BY <1>2, <2>3 DEF PutNew
<1>3. ASSUME NEW k \in Keys, NEW v \in Values, PutFails(k, v)
      PROVE  IsFiniteSet(AllEntries') /\ size' = Cardinality(AllEntries')
  BY <1>0, <1>3 DEF PutFails, AllEntries
<1>4. ASSUME NEW k \in Keys, RemoveKey(k)
      PROVE  IsFiniteSet(AllEntries') /\ size' = Cardinality(AllEntries')
  <2>1. AllEntries' = {d \in AllEntries : d.key # k}
    BY <1>0, <1>4, AllRemoved
  <2>2. CASE Found(k)
    <3>1. PICK e \in AllEntries :
            e.key = k /\ {d \in AllEntries : d.key # k} = AllEntries \ {e}
      BY <2>2, TheEntry
    <3>2. IsFiniteSet(AllEntries') /\ Cardinality(AllEntries') = size - 1
      BY <1>0, <2>1, <3>1, FS_RemoveElement
    <3> QED
      BY <1>4, <2>2, <3>2 DEF RemoveKey
  <2>3. CASE ~Found(k)
    <3>1. AllEntries' = AllEntries
      BY <1>0, <2>1, <2>3, FoundAnywhere
    <3> QED
      BY <1>0, <1>4, <2>3, <3>1 DEF RemoveKey
  <2> QED
    BY <2>2, <2>3
<1>5. CASE UNCHANGED mapVars
  BY <1>0, <1>5 DEF mapVars, AllEntries
<1> QED
  BY <1>1, <1>2, <1>3, <1>4, <1>5 DEF MapNext

LEMMA Inductive == MapSpec => []MapInv
<1>1. MapInv /\ [MapNext]_mapVars => MapInv'
  BY MapTypeStep, FindableStep, SizeStep DEF MapInv
<1> QED
  BY MapInvInit, <1>1, PTL DEF MapSpec

-----------------------------------------------------------------------------
\* The types: among them, that the array has exactly the chains the remainders
\* index, after every cdsl_hashmap_put that doubles it.
THEOREM MapTypeCorrect == MapSpec => []MapTypeOK
<1>1. MapInv => MapTypeOK
  BY DEF MapInv
<1> QED
  BY <1>1, Inductive, PTL

\* Every entry is where cdsl_hashmap_get looks for it, and is the only one of
\* its key, for every hash function and whenever the array was doubled.
THEOREM Findable == MapSpec => []EntriesAreFindable
<1>1. MapInv => EntriesAreFindable
  BY DEF MapInv
<1> QED
  BY <1>1, Inductive, PTL

\* map->size is the number of entries in the chains.
THEOREM SizeCorrect == MapSpec => []SizeIsExact
<1>1. MapInv => SizeIsExact
  BY DEF MapInv
<1> QED
  BY <1>1, Inductive, PTL

\* No put leaves the array more than three quarters full, unless it is as large
\* as it may become or memory ran out.
THEOREM LoadCorrect == MapSpec => []LoadIsBounded
<1>1. MapInit => LoadIsBounded
  BY HashAssumption DEF MapInit, LoadIsBounded
<1>2. MapTypeOK /\ LoadIsBounded /\ [MapNext]_mapVars => LoadIsBounded'
  <2> SUFFICES ASSUME MapTypeOK, LoadIsBounded, [MapNext]_mapVars PROVE LoadIsBounded'
    OBVIOUS
  <2>0. /\ bucketCount \in Nat \ {0} /\ size \in Nat /\ mapFaults \in Nat
        /\ MaxBuckets \in Nat
    BY HashAssumption DEF MapTypeOK
  <2>1. ASSUME NEW k \in Keys, NEW v \in Values, PutAgain(k, v)
        PROVE  LoadIsBounded'
    BY <2>1 DEF PutAgain, LoadIsBounded, MayDouble
  <2>2. ASSUME NEW k \in Keys, NEW v \in Values, PutNew(k, v)
        PROVE  LoadIsBounded'
    <3>1. size' = size + 1
      BY <2>2 DEF PutNew
    <3>2. CASE /\ Crowded(size + 1) /\ MayDouble
               /\ bucketCount' = bucketCount * 2 /\ mapFaults' = mapFaults
      BY <2>0, <3>1, <3>2 DEF LoadIsBounded, MayDouble
    <3>3. CASE /\ ~(Crowded(size + 1) /\ MayDouble)
               /\ bucketCount' = bucketCount /\ mapFaults' = mapFaults
      BY <2>0, <3>1, <3>3 DEF LoadIsBounded, MayDouble, Crowded
    <3>4. CASE mapFaults' = mapFaults + 1
      BY <2>0, <3>4 DEF LoadIsBounded
    <3> QED
      BY <2>2, <3>2, <3>3, <3>4 DEF PutNew
  <2>3. ASSUME NEW k \in Keys, NEW v \in Values, PutFails(k, v)
        PROVE  LoadIsBounded'
    BY <2>0, <2>3 DEF PutFails, LoadIsBounded
  <2>4. ASSUME NEW k \in Keys, RemoveKey(k) PROVE LoadIsBounded'
    BY <2>0, <2>4 DEF RemoveKey, LoadIsBounded, MayDouble
  <2>5. CASE UNCHANGED mapVars
    BY <2>5 DEF mapVars, LoadIsBounded, MayDouble
  <2> QED
    BY <2>1, <2>2, <2>3, <2>4, <2>5 DEF MapNext
<1> QED
  BY <1>1, <1>2, MapTypeCorrect, PTL DEF MapSpec

-----------------------------------------------------------------------------
(***************************************************************************)
(* Refinement of KeyValueMap.  The table of what lookups find is read off  *)
(* the set of all entries (Listed), so each operation's effect on that set *)
(* is its effect on the table.                                             *)
(***************************************************************************)
Table == [k \in FoundKeys |-> Get(k)]

Listed ==
  /\ \A e \in AllEntries : e.key \in FoundKeys /\ Get(e.key) = e.value
  /\ \A k \in FoundKeys : \E e \in AllEntries : e.key = k

LEMMA TableIsListed == MapInv => Listed
<1> SUFFICES ASSUME MapInv PROVE Listed
  OBVIOUS
<1>0. MapTypeOK /\ EntriesAreFindable
  BY DEF MapInv
<1>1. ASSUME NEW e \in AllEntries
      PROVE  e.key \in FoundKeys /\ Get(e.key) = e.value
  <2>1. e.key \in Keys
    BY <1>0, EntriesType
  <2>2. Found(e.key)
    BY <1>0, <2>1, FoundAnywhere
  <2>3. PICK b \in DOMAIN buckets : e \in buckets[b]
    BY DEF AllEntries
  <2>4. b = BucketOf(e.key, bucketCount)
    BY <1>0, <2>3 DEF EntriesAreFindable
  <2>5. e \in Chain(e.key)
    BY <2>3, <2>4 DEF Chain
  <2>6. \A d \in Chain(e.key) : d.key = e.key => d = e
    BY <1>0, <2>3, <2>4 DEF Chain, EntriesAreFindable, AllEntries
  <2>7. (CHOOSE d \in Chain(e.key) : d.key = e.key) = e
    BY <2>5, <2>6
  <2> QED
    BY <2>1, <2>2, <2>7 DEF FoundKeys, Get
<1>2. ASSUME NEW k \in FoundKeys PROVE \E e \in AllEntries : e.key = k
  BY <1>0, FoundAnywhere DEF FoundKeys
<1> QED
  BY <1>1, <1>2 DEF Listed

LEMMA ListedStep == MapInv /\ [MapNext]_mapVars => Listed /\ Listed'
<1>1. MapInv /\ [MapNext]_mapVars => MapInv'
  BY MapTypeStep, FindableStep, SizeStep DEF MapInv
<1> QED
  BY <1>1, TableIsListed, PTL

LEMMA PutRefines ==
  ASSUME MapInv, Listed, Listed', NEW k \in Keys, NEW v \in Values,
         PutAgain(k, v) \/ PutNew(k, v)
  PROVE  Abstract!Put(k, v)
<1> DEFINE new == [key |-> k, value |-> v]
           after == [x \in FoundKeys \cup {k} |-> IF x = k THEN v ELSE Table[x]]
<1>0. MapTypeOK /\ EntriesAreFindable
  BY DEF MapInv
<1>1. /\ new \in AllEntries'
      /\ \A e : e.key # k => (e \in AllEntries' <=> e \in AllEntries)
  <2>1. CASE PutAgain(k, v)
    BY <1>0, <2>1, AllAgain
  <2>2. CASE PutNew(k, v)
    BY <1>0, <2>2, AllNew
  <2> QED
    BY <2>1, <2>2
<1>2. FoundKeys' = FoundKeys \cup {k}
  BY <1>1 DEF Listed
<1>3. Get(k)' = v
  BY <1>1 DEF Listed
<1>4. ASSUME NEW x \in FoundKeys, x # k PROVE Get(x)' = Get(x)
  <2>1. PICK e \in AllEntries : e.key = x
    BY DEF Listed
  <2>2. e \in AllEntries'
    BY <1>1, <1>4, <2>1
  <2> QED
    BY <2>1, <2>2 DEF Listed
<1>5. Table' = after
  BY <1>2, <1>3, <1>4 DEF Table
<1>6. call' = Called("put", k, v, TRUE)
  BY DEF PutAgain, PutNew
<1> QED
  BY <1>5, <1>6 DEF Abstract!Put, Abstract!Called, Called, Table

LEMMA FailureRefines ==
  ASSUME MapInv, NEW k \in Keys, NEW v \in Values, PutFails(k, v)
  PROVE  Abstract!PutFails(k, v)
<1>1. k \notin FoundKeys
  BY DEF PutFails, FoundKeys
<1>2. Table' = Table
  BY DEF PutFails, Table, FoundKeys, Found, Get, Chain, BucketOf
<1> QED
  BY <1>1, <1>2 DEF PutFails, Called, Table, Abstract!PutFails, Abstract!Called

LEMMA RemoveRefines ==
  ASSUME MapInv, Listed, Listed', NEW k \in Keys, RemoveKey(k)
  PROVE  Abstract!Remove(k)
<1>0. MapTypeOK /\ EntriesAreFindable
  BY DEF MapInv
<1>1. AllEntries' = {e \in AllEntries : e.key # k}
  BY <1>0, AllRemoved
<1>2. FoundKeys' = FoundKeys \ {k}
  BY <1>1 DEF Listed
<1>3. ASSUME NEW x \in FoundKeys, x # k PROVE Get(x)' = Get(x)
  <2>1. PICK e \in AllEntries : e.key = x
    BY DEF Listed
  <2> QED
    BY <1>1, <1>3, <2>1 DEF Listed
<1>4. Table' = [x \in FoundKeys \ {k} |-> Table[x]]
  BY <1>2, <1>3 DEF Table
<1>5. Found(k) <=> k \in FoundKeys
  BY DEF FoundKeys
<1>6. call' = Called("remove", k, NoValue, k \in FoundKeys)
  <2>1. CASE Found(k)
    <3>1. Found(k) = TRUE /\ (k \in FoundKeys) = TRUE
      BY <1>5, <2>1
    <3> QED
      BY <3>1 DEF RemoveKey, Called
  <2>2. CASE ~Found(k)
    <3>1. Found(k) = FALSE /\ (k \in FoundKeys) = FALSE
      BY <1>5, <2>2
    <3> QED
      BY <3>1 DEF RemoveKey, Called
  <2> QED
    BY <2>1, <2>2
<1> QED
  BY <1>4, <1>6 DEF Abstract!Remove, Abstract!Called, Called, Table

LEMMA StepRefines ==
  MapInv /\ Listed /\ Listed' /\ [MapNext]_mapVars => [Abstract!Next]_(Abstract!kvars)
<1> SUFFICES ASSUME MapInv, Listed, Listed', [MapNext]_mapVars
             PROVE  Abstract!Next \/ UNCHANGED Abstract!kvars
  OBVIOUS
<1>1. ASSUME NEW k \in Keys, NEW v \in Values, PutAgain(k, v) \/ PutNew(k, v)
      PROVE  Abstract!Next
  BY <1>1, PutRefines DEF Abstract!Next
<1>2. ASSUME NEW k \in Keys, NEW v \in Values, PutFails(k, v)
      PROVE  Abstract!Next
  BY <1>2, FailureRefines DEF Abstract!Next
<1>3. ASSUME NEW k \in Keys, RemoveKey(k) PROVE Abstract!Next
  BY <1>3, RemoveRefines DEF Abstract!Next
<1>4. CASE UNCHANGED mapVars
  BY <1>4 DEF mapVars, Abstract!kvars, FoundKeys, Found, Get, Chain, BucketOf
<1> QED
  BY <1>1, <1>2, <1>3, <1>4 DEF MapNext

LEMMA InitRefines == MapInit => Abstract!Init
<1> SUFFICES ASSUME MapInit PROVE Abstract!Init
  OBVIOUS
<1>1. MapInv
  BY MapInvInit
<1>2. AllEntries = {}
  BY DEF MapInit, AllEntries
<1>3. FoundKeys = {}
  BY <1>1, <1>2, FoundAnywhere DEF MapInv, FoundKeys
<1> QED
  BY <1>3 DEF MapInit, Abstract!Init

\* Whatever collides, is doubled or fails, the map's operations do to lookups
\* what KeyValueMap says they do, and report it truly.
THEOREM Refinement == MapSpec => ImplementsKeyValueMap
<1> QED
  BY InitRefines, ListedStep, StepRefines, Inductive, PTL
  DEF MapSpec, ImplementsKeyValueMap, Abstract!Spec

(***************************************************************************)
(* The compile cache.  The lookup, the parsing and the insertion of one    *)
(* source are three sections, and other threads run between them.  What    *)
(* survives the gaps is InHand: the rule a thread has parsed is its own,   *)
(* is no entry, and was made for the source the thread will look up again. *)
(***************************************************************************)
\* The rule a thread has parsed, until it is entered or dropped.
InHand ==
  /\ \A t \in Threads : parsed[t] # None <=> pc[t] \in {"lockInsert", "insert"}
  /\ \A t \in Threads : parsed[t] # None =>
       /\ parsed[t] \in rules \ (entries \cup leaked)
       /\ parsed[t] \in DOMAIN madeFor /\ madeFor[parsed[t]] = source[t]
       /\ source[t] \in Sources
  /\ \A t, u \in Threads : t # u /\ parsed[t] # None => parsed[t] # parsed[u]

\* Entries have rules, and every rule is an entry's, a thread's, or lost.
Owned ==
  /\ entries \subseteq rules /\ rules \subseteq DOMAIN madeFor
  /\ \A r \in rules : r \in entries \cup leaked \/ \E t \in Threads : parsed[t] = r
  /\ IsFiniteSet(leaked) /\ Cardinality(leaked) <= faults

\* What a caller was given is used until the call of the next function.
InUse == \A t \in Threads : held[t] # None <=> pc[t] = "using"

\* A writer has the lock to itself.
Locked == writer # NoThread => readers = {}

IInv == TypeOK /\ InHand /\ Owned /\ SourcesAreCompiledOnce /\ InUse /\ Locked
-----------------------------------------------------------------------------
LEMMA InitHolds == Init => IInv
<1> SUFFICES ASSUME Init PROVE IInv
  OBVIOUS
<1>1. DOMAIN map = {} /\ DOMAIN madeFor = {}
  BY DEF Init
<1>2. TypeOK
  BY <1>1, CacheAssumption DEF Init, TypeOK, None
<1>3. IsFiniteSet({}) /\ Cardinality({}) = 0
  BY FS_EmptySet
<1> QED
  BY <1>1, <1>2, <1>3 DEF Init, IInv, InHand, Owned, SourcesAreCompiledOnce, InUse, Locked


\* The three groups of TypeOK.
ThreadTypes ==
  /\ pc \in [Threads -> {"idle", "compile", "lookup", "parse", "lockInsert",
                         "insert", "lockRemove", "remove", "using"}]
  /\ source \in [Threads -> Sources \cup {NoSource}]
  /\ schema \in [Threads -> Schemas \cup {NoSchema}]
  /\ parsed \in [Threads -> 0 .. born]
  /\ held \in [Threads -> 0 .. born]
LockTypes ==
  /\ readers = {t \in Threads : pc[t] = "lookup"}
  /\ writer \in Threads \cup {NoThread}
  /\ \A t \in Threads : writer = t <=> pc[t] \in {"insert", "remove"}
MemoryTypes ==
  /\ DOMAIN map \subseteq Sources /\ \A s \in DOMAIN map : map[s] \in 1 .. born
  /\ rules \subseteq 1 .. born /\ entries \subseteq 1 .. born
  /\ DOMAIN madeFor \subseteq 1 .. born
  /\ born \in Nat
  /\ leaked \subseteq 1 .. born
  /\ calls \in 0 .. MaxCalls
  /\ faults \in 0 .. MaxFaults

LEMMA TypeIsThree == TypeOK <=> ThreadTypes /\ LockTypes /\ MemoryTypes
  BY DEF TypeOK, ThreadTypes, LockTypes, MemoryTypes

LEMMA TypeIsThreeNext == TypeOK' <=> ThreadTypes' /\ LockTypes' /\ MemoryTypes'
  BY DEF TypeOK, ThreadTypes, LockTypes, MemoryTypes

LEMMA TypeStep == TypeOK /\ InHand /\ Locked /\ [Next]_vars => TypeOK'
<1> SUFFICES ASSUME TypeOK, InHand, Locked, [Next]_vars PROVE TypeOK'
  OBVIOUS
<1> USE TypeIsThree, TypeIsThreeNext, CacheAssumption DEF ThreadTypes, LockTypes, MemoryTypes, Locked, None, MapWith, MapWithout, Goto, Return, Fault, Cached, callVars, lockVars, memVars
<1>1. ASSUME NEW t \in Threads, Step(t) \/ Calling(t) PROVE TypeOK'
  <2>1. CASE \E s \in Sources, sch \in Schemas \cup {NoSchema} : CallCompile(t, s, sch)
    <3>1. ThreadTypes'
      BY <2>1 DEF CallCompile
    <3>2. LockTypes'
      BY <2>1 DEF CallCompile
    <3>3. MemoryTypes'
      BY <2>1 DEF CallCompile
    <3> QED
      BY <3>1, <3>2, <3>3
  <2>2. CASE LockRead(t)
    <3>1. ThreadTypes'
      BY <2>2 DEF LockRead
    <3>2. LockTypes'
      BY <2>2 DEF LockRead
    <3>3. MemoryTypes'
      BY <2>2 DEF LockRead
    <3> QED
      BY <3>1, <3>2, <3>3
  <2>3. CASE LockWrite(t)
    <3>1. ThreadTypes'
      BY <2>3 DEF LockWrite
    <3>2. LockTypes'
      BY <2>3 DEF LockWrite
    <3>3. MemoryTypes'
      BY <2>3 DEF LockWrite
    <3> QED
      BY <3>1, <3>2, <3>3
  <2>4. CASE LookUp(t)
    <3>1. ThreadTypes'
      BY <2>4 DEF LookUp
    <3>2. LockTypes'
      BY <2>4 DEF LookUp
    <3>3. MemoryTypes'
      BY <2>4 DEF LookUp
    <3> QED
      BY <3>1, <3>2, <3>3
  <2>5. CASE ParseFails(t)
    <3>1. ThreadTypes'
      BY <2>5 DEF ParseFails
    <3>2. LockTypes'
      BY <2>5 DEF ParseFails
    <3>3. MemoryTypes'
      BY <2>5 DEF ParseFails
    <3> QED
      BY <3>1, <3>2, <3>3
  <2>6. CASE ParseAndVerify(t)
    <3>1. ThreadTypes'
      BY <2>6 DEF ParseAndVerify
    <3>2. LockTypes'
      BY <2>6 DEF ParseAndVerify
    <3>3. MemoryTypes'
      BY <2>6 DEF ParseAndVerify
    <3> QED
      BY <3>1, <3>2, <3>3
  <2>7. CASE FindOther(t)
    <3>1. ThreadTypes'
      BY <2>7 DEF FindOther
    <3>2. LockTypes'
      BY <2>7 DEF FindOther
    <3>3. MemoryTypes'
      BY <2>7 DEF FindOther
    <3> QED
      BY <3>1, <3>2, <3>3
  <2>8. CASE Insert(t)
    <3>1. ThreadTypes'
      BY <2>8 DEF Insert
    <3>2. LockTypes'
      BY <2>8 DEF Insert
    <3>3. MemoryTypes'
      <4>1. parsed[t] \in 1 .. born
        BY <2>8 DEF Insert, InHand
      <4>2. DOMAIN map' \subseteq Sources /\ (\A s \in DOMAIN map' : map'[s] \in 1 .. born)
        <5>1. source[t] \in Sources
          BY <2>8 DEF Insert, InHand
        <5>2. CASE map' = MapWith(source[t], parsed[t])
          BY <4>1, <5>1, <5>2
        <5>3. CASE UNCHANGED map
          BY <5>3
        <5> QED
          BY <2>8, <5>2, <5>3 DEF Insert
      <4>3. leaked' \subseteq 1 .. born /\ entries' \subseteq 1 .. born /\ faults' \in 0 .. MaxFaults
        BY <2>8, <4>1 DEF Insert
      <4> QED
        BY <2>8, <4>2, <4>3 DEF Insert
    <3> QED
      BY <3>1, <3>2, <3>3
  <2>9. CASE InsertFails(t)
    <3>1. ThreadTypes'
      BY <2>9 DEF InsertFails
    <3>2. LockTypes'
      BY <2>9 DEF InsertFails
    <3>3. MemoryTypes'
      <4>1. parsed[t] \in 1 .. born
        BY <2>9 DEF InsertFails, InHand
      <4> QED
        BY <2>9, <4>1 DEF InsertFails
    <3> QED
      BY <3>1, <3>2, <3>3
  <2>10. CASE StopUsing(t)
    <3>1. ThreadTypes'
      BY <2>10 DEF StopUsing
    <3>2. LockTypes'
      BY <2>10 DEF StopUsing
    <3>3. MemoryTypes'
      BY <2>10 DEF StopUsing
    <3> QED
      BY <3>1, <3>2, <3>3
  <2>11. CASE \E s \in Sources : CallRemove(t, s)
    <3>1. ThreadTypes'
      BY <2>11 DEF CallRemove
    <3>2. LockTypes'
      BY <2>11 DEF CallRemove
    <3>3. MemoryTypes'
      BY <2>11 DEF CallRemove
    <3> QED
      BY <3>1, <3>2, <3>3
  <2>12. CASE Remove(t)
    <3>1. ThreadTypes'
      BY <2>12 DEF Remove
    <3>2. LockTypes'
      BY <2>12 DEF Remove
    <3>3. MemoryTypes'
      BY <2>12 DEF Remove
    <3> QED
      BY <3>1, <3>2, <3>3
  <2> QED
    BY <1>1, <2>1, <2>2, <2>3, <2>4, <2>5, <2>6, <2>7, <2>8, <2>9, <2>10, <2>11, <2>12
    DEF Step, Compile, Calling
<1>2. CASE FreeCache
  BY <1>2, CacheAssumption DEF FreeCache
<1>3. CASE UNCHANGED vars
  BY <1>3 DEF vars
<1> QED
  BY <1>1, <1>2, <1>3 DEF Next, Finished

LEMMA LockedStep == TypeOK /\ Locked /\ [Next]_vars => Locked'
<1> SUFFICES ASSUME TypeOK, Locked, [Next]_vars PROVE Locked'
  OBVIOUS
<1> USE DEF TypeOK, Locked, Goto, Return, Fault, Cached, callVars, lockVars, memVars
<1>1. ASSUME NEW t \in Threads, Step(t) \/ Calling(t) PROVE Locked'
  <2>1. CASE \E s \in Sources, sch \in Schemas \cup {NoSchema} : CallCompile(t, s, sch)
    BY <2>1 DEF CallCompile
  <2>2. CASE LockRead(t)
    BY <2>2 DEF LockRead
  <2>3. CASE LockWrite(t)
    BY <2>3 DEF LockWrite
  <2>4. CASE LookUp(t)
    BY <2>4 DEF LookUp
  <2>5. CASE ParseFails(t)
    BY <2>5 DEF ParseFails
  <2>6. CASE ParseAndVerify(t)
    BY <2>6 DEF ParseAndVerify
  <2>7. CASE FindOther(t)
    BY <2>7 DEF FindOther
  <2>8. CASE Insert(t)
    BY <2>8 DEF Insert
  <2>9. CASE InsertFails(t)
    BY <2>9 DEF InsertFails
  <2>10. CASE StopUsing(t)
    BY <2>10 DEF StopUsing
  <2>11. CASE \E s \in Sources : CallRemove(t, s)
    BY <2>11 DEF CallRemove
  <2>12. CASE Remove(t)
    BY <2>12 DEF Remove
  <2> QED
    BY <1>1, <2>1, <2>2, <2>3, <2>4, <2>5, <2>6, <2>7, <2>8, <2>9, <2>10, <2>11, <2>12
    DEF Step, Compile, Calling
<1>2. CASE FreeCache
  BY <1>2 DEF FreeCache
<1>3. CASE UNCHANGED vars
  BY <1>3 DEF vars
<1> QED
  BY <1>1, <1>2, <1>3 DEF Next, Finished

LEMMA InHandStep == TypeOK /\ InHand /\ SourcesAreCompiledOnce /\ [Next]_vars => InHand'
<1> SUFFICES ASSUME TypeOK, InHand, SourcesAreCompiledOnce, [Next]_vars PROVE InHand'
  OBVIOUS
<1> USE CacheAssumption DEF TypeOK, InHand, SourcesAreCompiledOnce, None, Goto, Return, Fault, Cached, callVars, lockVars, memVars
<1>1. ASSUME NEW t \in Threads, Step(t) \/ Calling(t) PROVE InHand'
  <2>1. CASE \E s \in Sources, sch \in Schemas \cup {NoSchema} : CallCompile(t, s, sch)
    BY <2>1 DEF CallCompile
  <2>2. CASE LockRead(t)
    BY <2>2 DEF LockRead
  <2>3. CASE LockWrite(t)
    BY <2>3 DEF LockWrite
  <2>4. CASE LookUp(t)
    BY <2>4 DEF LookUp
  <2>5. CASE ParseFails(t)
    BY <2>5 DEF ParseFails
  <2>6. CASE ParseAndVerify(t)
    BY <2>6 DEF ParseAndVerify
  <2>7. CASE FindOther(t)
    BY <2>7 DEF FindOther
  <2>8. CASE Insert(t)
    BY <2>8 DEF Insert
  <2>9. CASE InsertFails(t)
    BY <2>9 DEF InsertFails
  <2>10. CASE StopUsing(t)
    BY <2>10 DEF StopUsing
  <2>11. CASE \E s \in Sources : CallRemove(t, s)
    BY <2>11 DEF CallRemove
  <2>12. CASE Remove(t)
    BY <2>12 DEF Remove
  <2> QED
    BY <1>1, <2>1, <2>2, <2>3, <2>4, <2>5, <2>6, <2>7, <2>8, <2>9, <2>10, <2>11, <2>12
    DEF Step, Compile, Calling
<1>2. CASE FreeCache
  BY <1>2 DEF FreeCache
<1>3. CASE UNCHANGED vars
  BY <1>3 DEF vars
<1> QED
  BY <1>1, <1>2, <1>3 DEF Next, Finished

LEMMA OwnedStep == TypeOK /\ InHand /\ Owned /\ [Next]_vars => Owned'
<1> SUFFICES ASSUME TypeOK, InHand, Owned, [Next]_vars PROVE Owned'
  OBVIOUS
<1> USE DEF TypeOK, InHand, Owned, None, Goto, Return, Fault, Cached, callVars, lockVars, memVars
<1>1. ASSUME NEW t \in Threads, Step(t) \/ Calling(t) PROVE Owned'
  <2>1. CASE \E s \in Sources, sch \in Schemas \cup {NoSchema} : CallCompile(t, s, sch)
    <3>1. PICK s \in Sources, sch \in Schemas \cup {NoSchema} : CallCompile(t, s, sch)
      BY <2>1
    <3> QED
      BY <3>1 DEF CallCompile
  <2>2. CASE LockRead(t)
    BY <2>2 DEF LockRead
  <2>3. CASE LockWrite(t)
    BY <2>3 DEF LockWrite
  <2>4. CASE LookUp(t)
    BY <2>4 DEF LookUp
  <2>5. CASE ParseFails(t)
    <3>1. Cardinality(leaked) \in Nat
      BY FS_CardinalityType
    <3> QED
      BY <2>5, <3>1 DEF ParseFails
  <2>6. CASE ParseAndVerify(t)
    BY <2>6 DEF ParseAndVerify
  <2>7. CASE FindOther(t)
    BY <2>7, ZenonT(60) DEF FindOther
  <2>8. CASE Insert(t)
    <3>1. /\ IsFiniteSet(leaked \cup {parsed[t]})
          /\ Cardinality(leaked \cup {parsed[t]}) \in {Cardinality(leaked), Cardinality(leaked) + 1}
          /\ Cardinality(leaked) \in Nat
      BY FS_AddElement, FS_CardinalityType, Zenon
    <3>2. \/ UNCHANGED <<leaked, faults>>
          \/ leaked' = leaked \cup {parsed[t]} /\ faults' = faults + 1
      BY <2>8 DEF Insert
    <3>3. IsFiniteSet(leaked') /\ Cardinality(leaked') <= faults'
      <4>1. CASE UNCHANGED <<leaked, faults>>
        BY <4>1
      <4>2. CASE leaked' = leaked \cup {parsed[t]} /\ faults' = faults + 1
        BY <3>1, <4>2
      <4> QED
        BY <3>2, <4>1, <4>2
    <3>4. parsed[t] \in rules
      BY <2>8 DEF Insert
    <3> QED
      BY <2>8, <3>3, <3>4, ZenonT(60) DEF Insert
  <2>9. CASE InsertFails(t)
    <3>1. /\ IsFiniteSet(leaked \cup {parsed[t]})
          /\ Cardinality(leaked \cup {parsed[t]}) \in {Cardinality(leaked), Cardinality(leaked) + 1}
          /\ Cardinality(leaked) \in Nat
      BY FS_AddElement, FS_CardinalityType
    <3>2. IsFiniteSet(leaked') /\ Cardinality(leaked') <= faults'
      BY <2>9, <3>1 DEF InsertFails
    <3> QED
      BY <2>9, <3>2 DEF InsertFails
  <2>10. CASE StopUsing(t)
    BY <2>10 DEF StopUsing
  <2>11. CASE \E s \in Sources : CallRemove(t, s)
    BY <2>11 DEF CallRemove
  <2>12. CASE Remove(t)
    <3>1. CASE Cached(source[t])
      <4>1. /\ entries' = entries \ {map[source[t]]} /\ rules' = rules \ {map[source[t]]}
            /\ madeFor' = madeFor
        BY <2>12, <3>1, Zenon DEF Remove
      <4>2. ASSUME NEW r \in rules' PROVE r \in entries' \cup leaked' \/ \E u \in Threads : parsed'[u] = r
        <5>1. r \in rules /\ r # map[source[t]] /\ UNCHANGED <<parsed, leaked>>
          BY <2>12, <3>1 DEF Remove
        <5>2. r \in entries => r \in entries'
          BY <2>12, <3>1, <5>1 DEF Remove
        <5> QED
          BY <5>1, <5>2
      <4>3. UNCHANGED <<leaked, faults>>
        BY <2>12 DEF Remove
      <4> QED
        BY <4>1, <4>2, <4>3
    <3>2. CASE ~Cached(source[t])
      BY <2>12, <3>2, ZenonT(60) DEF Remove
    <3> QED
      BY <3>1, <3>2
  <2> QED
    BY <1>1, <2>1, <2>2, <2>3, <2>4, <2>5, <2>6, <2>7, <2>8, <2>9, <2>10, <2>11, <2>12
    DEF Step, Compile, Calling
<1>2. CASE FreeCache
  BY <1>2 DEF FreeCache
<1>3. CASE UNCHANGED vars
  BY <1>3 DEF vars
<1> QED
  BY <1>1, <1>2, <1>3 DEF Next, Finished

LEMMA OnceStep == TypeOK /\ InHand /\ Owned /\ SourcesAreCompiledOnce /\ [Next]_vars => SourcesAreCompiledOnce'
<1> SUFFICES ASSUME TypeOK, InHand, Owned, SourcesAreCompiledOnce, [Next]_vars PROVE SourcesAreCompiledOnce'
  OBVIOUS
<1> USE DEF TypeOK, InHand, Owned, SourcesAreCompiledOnce, None, MapWith, MapWithout, Goto, Return, Fault, Cached, callVars, lockVars, memVars
<1>1. ASSUME NEW t \in Threads, Step(t) \/ Calling(t) PROVE SourcesAreCompiledOnce'
  <2>1. CASE \E s \in Sources, sch \in Schemas \cup {NoSchema} : CallCompile(t, s, sch)
    <3>1. PICK s \in Sources, sch \in Schemas \cup {NoSchema} : CallCompile(t, s, sch)
      BY <2>1
    <3> QED
      BY <3>1 DEF CallCompile
  <2>2. CASE LockRead(t)
    BY <2>2 DEF LockRead
  <2>3. CASE LockWrite(t)
    BY <2>3 DEF LockWrite
  <2>4. CASE LookUp(t)
    BY <2>4 DEF LookUp
  <2>5. CASE ParseFails(t)
    BY <2>5 DEF ParseFails
  <2>6. CASE ParseAndVerify(t)
    BY <2>6 DEF ParseAndVerify
  <2>7. CASE FindOther(t)
    BY <2>7 DEF FindOther
  <2>8. CASE Insert(t)
    BY <2>8 DEF Insert
  <2>9. CASE InsertFails(t)
    BY <2>9 DEF InsertFails
  <2>10. CASE StopUsing(t)
    BY <2>10 DEF StopUsing
  <2>11. CASE \E s \in Sources : CallRemove(t, s)
    BY <2>11 DEF CallRemove
  <2>12. CASE Remove(t)
    BY <2>12 DEF Remove
  <2> QED
    BY <1>1, <2>1, <2>2, <2>3, <2>4, <2>5, <2>6, <2>7, <2>8, <2>9, <2>10, <2>11, <2>12
    DEF Step, Compile, Calling
<1>2. CASE FreeCache
  BY <1>2 DEF FreeCache
<1>3. CASE UNCHANGED vars
  BY <1>3 DEF vars
<1> QED
  BY <1>1, <1>2, <1>3 DEF Next, Finished

LEMMA InUseStep == TypeOK /\ InHand /\ Owned /\ SourcesAreCompiledOnce /\ InUse /\ [Next]_vars => InUse'
<1> SUFFICES ASSUME TypeOK, InHand, Owned, SourcesAreCompiledOnce, InUse, [Next]_vars PROVE InUse'
  OBVIOUS
<1> USE DEF TypeOK, InHand, SourcesAreCompiledOnce, InUse, None, Goto, Return, Fault, Cached, callVars, lockVars, memVars
<1>1. ASSUME NEW t \in Threads, Step(t) \/ Calling(t) PROVE InUse'
  <2>1. CASE \E s \in Sources, sch \in Schemas \cup {NoSchema} : CallCompile(t, s, sch)
    <3>1. PICK s \in Sources, sch \in Schemas \cup {NoSchema} : CallCompile(t, s, sch)
      BY <2>1
    <3> QED
      BY <3>1 DEF CallCompile
  <2>2. CASE LockRead(t)
    BY <2>2 DEF LockRead
  <2>3. CASE LockWrite(t)
    BY <2>3 DEF LockWrite
  <2>4. CASE LookUp(t)
    BY <2>4 DEF LookUp
  <2>5. CASE ParseFails(t)
    BY <2>5 DEF ParseFails
  <2>6. CASE ParseAndVerify(t)
    BY <2>6 DEF ParseAndVerify
  <2>7. CASE FindOther(t)
    BY <2>7 DEF FindOther
  <2>8. CASE Insert(t)
    BY <2>8 DEF Insert
  <2>9. CASE InsertFails(t)
    BY <2>9 DEF InsertFails
  <2>10. CASE StopUsing(t)
    BY <2>10 DEF StopUsing
  <2>11. CASE \E s \in Sources : CallRemove(t, s)
    BY <2>11 DEF CallRemove
  <2>12. CASE Remove(t)
    BY <2>12 DEF Remove
  <2> QED
    BY <1>1, <2>1, <2>2, <2>3, <2>4, <2>5, <2>6, <2>7, <2>8, <2>9, <2>10, <2>11, <2>12
    DEF Step, Compile, Calling
<1>2. CASE FreeCache
  BY <1>2 DEF FreeCache
<1>3. CASE UNCHANGED vars
  BY <1>3 DEF vars
<1> QED
  BY <1>1, <1>2, <1>3 DEF Next, Finished

LEMMA IInvStep == IInv /\ [Next]_vars => IInv'
  BY TypeStep, LockedStep, InHandStep, OwnedStep, OnceStep, InUseStep DEF IInv

LEMMA Invariance == Spec => []IInv
  BY InitHolds, IInvStep, PTL DEF Spec

-----------------------------------------------------------------------------
\* Every reachable state is well typed, and the lock is held exactly in the
\* critical sections.
THEOREM TypeCorrect == Spec => []TypeOK
<1>1. IInv => TypeOK
  BY DEF IInv
<1> QED
  BY <1>1, Invariance, PTL

\* The second look under the write lock is enough: however many threads parse
\* a source at once, one entry is made of it.
THEOREM CompiledOnce == Spec => []SourcesAreCompiledOnce
<1>1. IInv => SourcesAreCompiledOnce
  BY DEF IInv
<1> QED
  BY <1>1, Invariance, PTL

\* No rule object has two owners, and those that have none are at most as many
\* as the allocations that failed.
THEOREM Ownership == Spec => []RulesHaveOwners
<1>1. IInv => RulesHaveOwners
  <2> DEFINE inHand == {parsed[t] : t \in {u \in Threads : parsed[u] # None}}
  <2> SUFFICES ASSUME IInv PROVE RulesHaveOwners
    OBVIOUS
  <2>1. inHand \subseteq rules /\ inHand \cap entries = {}
    BY DEF IInv, InHand
  <2>2. ASSUME NEW r \in rules PROVE r \in entries \cup inHand \cup (leaked \cap rules)
    <3>1. CASE \E t \in Threads : parsed[t] = r
      BY <3>1 DEF IInv, TypeOK, None
    <3> QED
      BY <3>1 DEF IInv, Owned
  <2>3. entries \subseteq rules
    BY DEF IInv, Owned
  <2>4. \A t, u \in Threads : t # u /\ parsed[t] # None => parsed[t] # parsed[u]
    BY DEF IInv, InHand
  <2>5. Cardinality(leaked) <= faults
    BY DEF IInv, Owned
  <2> QED
    BY <2>1, <2>2, <2>3, <2>4, <2>5 DEF RulesHaveOwners
<1> QED
  BY <1>1, Invariance, PTL

\* What cdsl_compile returns is allocated, and what is freed while somebody
\* uses it was freed by a removal of its own source.
THEOREM RemovalEndsUse == Spec => OnlyRemovalEndsUse
<1> DEFINE Ended ==
      \A t \in Threads : held'[t] # None /\ held'[t] \notin entries' =>
        /\ held'[t] = held[t]
        /\ held[t] \in entries =>
             \E u \in Threads : pc[u] = "remove" /\ source[u] = madeFor[held[t]]
<1>1. IInv /\ [Next]_vars => [Ended]_vars
  <2> SUFFICES ASSUME IInv, Next PROVE Ended
    OBVIOUS
  <2>0. /\ held \in [Threads -> 0 .. born]
        /\ DOMAIN map \subseteq Sources
        /\ \A s \in DOMAIN map : madeFor[map[s]] = s /\ map[s] \in entries
        /\ \A u \in Threads : held[u] # None <=> pc[u] = "using"
    BY DEF IInv, TypeOK, SourcesAreCompiledOnce, InUse
  <2>1. ASSUME NEW t \in Threads, Step(t) \/ Calling(t) PROVE Ended
    <3>1. CASE UNCHANGED <<held, entries>>
      BY <3>1
    <3>2. CASE LookUp(t)
      BY <2>0, <3>2 DEF LookUp, Return, Goto, Cached, memVars, None
    <3>3. CASE ParseFails(t) \/ StopUsing(t)
      BY <2>0, <3>3 DEF ParseFails, StopUsing, Return, Goto, memVars, None
    <3>4. CASE ParseAndVerify(t)
      BY <2>0, <3>4 DEF ParseAndVerify, Return, Goto, None
    <3>5. CASE FindOther(t)
      BY <2>0, <3>5 DEF FindOther, Return, Goto, Cached, None
    <3>6. CASE Insert(t) \/ InsertFails(t)
      BY <2>0, <3>6 DEF Insert, InsertFails, Return, Goto, None
    <3>7. CASE Remove(t)
      BY <2>0, <3>7 DEF Remove, Cached, None
    <3> QED
      BY <2>1, <3>1, <3>2, <3>3, <3>4, <3>5, <3>6, <3>7
      DEF Step, Compile, Calling, LockRead, LockWrite, CallCompile, CallRemove, memVars
  <2>2. CASE FreeCache
    BY <2>0, <2>2 DEF FreeCache, None
  <2>3. CASE Finished
    BY <2>3 DEF Finished, vars, memVars
  <2> QED
    BY <2>1, <2>2, <2>3 DEF Next
<1>2. Spec => [][Ended]_vars
  BY <1>1, Invariance, PTL DEF Spec
<1> QED
  BY <1>2 DEF OnlyRemovalEndsUse

\* The lock excludes readers from a map that is being changed.
THEOREM ReadersAreSafe == Spec => []WritersAreAlone
<1>1. IInv => WritersAreAlone
  BY CacheAssumption DEF IInv, TypeOK, Locked, WritersAreAlone
<1> QED
  BY <1>1, Invariance, PTL

-----------------------------------------------------------------------------
(***************************************************************************)
(* Termination: calls run out of steps, and nobody waits in a circle.      *)
(***************************************************************************)
\* How far a thread is from being idle again.
Level(label) ==
  CASE label = "compile" -> 8
    [] label = "lookup" -> 7
    [] label = "parse" -> 6
    [] label = "lockInsert" -> 5
    [] label = "insert" -> 4
    [] label = "lockRemove" -> 3
    [] label = "remove" -> 2
    [] label = "using" -> 1
    [] OTHER -> 0

Descent ==
  \/ calls' = calls + 1
  \/ /\ calls' = calls
     /\ \E t \in Threads : pc' = [pc EXCEPT ![t] = pc'[t]] /\ Level(pc'[t]) < Level(pc[t])
  \/ UNCHANGED <<calls, pc>> /\ DOMAIN map # {} /\ DOMAIN map' = {}

\* Between two calls every step brings one thread nearer to the end of what it
\* does, and a cache is freed once: a call that parses outside of the lock
\* and looks again takes a bounded number of steps, whatever the others do.
THEOREM StepsDescend == Spec => [][Descent]_vars
<1>1. IInv /\ [Next]_vars => [Descent]_vars
  <2> SUFFICES ASSUME TypeOK, Next, ~UNCHANGED vars PROVE Descent
    BY DEF IInv
  <2>1. ASSUME NEW t \in Threads, Step(t) PROVE Descent
    <3>1. calls' = calls
      BY <2>1 DEF Step, LockRead, LockWrite, Compile, LookUp, ParseFails, ParseAndVerify,
                  FindOther, Insert, InsertFails, StopUsing, Remove
    <3>2. \/ pc[t] = "compile" /\ Goto(t, "lookup")
          \/ pc[t] = "lockInsert" /\ Goto(t, "insert")
          \/ pc[t] = "lockRemove" /\ Goto(t, "remove")
          \/ pc[t] = "lookup" /\ (Goto(t, "using") \/ Goto(t, "idle") \/ Goto(t, "parse"))
          \/ pc[t] = "parse" /\ (Goto(t, "idle") \/ Goto(t, "lockInsert"))
          \/ pc[t] = "insert" /\ (Goto(t, "using") \/ Goto(t, "idle"))
          \/ pc[t] = "using" /\ Goto(t, "idle")
          \/ pc[t] = "remove" /\ Goto(t, "idle")
      <4>1. CASE LockRead(t) \/ LockWrite(t)
        BY <4>1 DEF LockRead, LockWrite, Goto
      <4>2. CASE LookUp(t) \/ ParseFails(t) \/ ParseAndVerify(t)
        BY <4>2 DEF LookUp, ParseFails, ParseAndVerify, Return, Goto
      <4>3. CASE FindOther(t) \/ Insert(t) \/ InsertFails(t)
        BY <4>3 DEF FindOther, Insert, InsertFails, Return, Goto
      <4>4. CASE StopUsing(t) \/ Remove(t)
        BY <4>4 DEF StopUsing, Remove, Return, Goto
      <4> QED
        BY <2>1, <4>1, <4>2, <4>3, <4>4 DEF Step, Compile
    <3>3. PICK label : Goto(t, label) /\ Level(label) < Level(pc[t])
      BY <3>2 DEF Level
    <3>4. pc' = [pc EXCEPT ![t] = pc'[t]] /\ pc'[t] = label
      BY <3>3 DEF Goto, TypeOK
    <3> QED
      BY <3>1, <3>3, <3>4 DEF Descent
  <2>2. ASSUME NEW t \in Threads, Calling(t) PROVE Descent
    BY <2>2 DEF Calling, CallCompile, CallRemove, Descent
  <2>3. CASE FreeCache
    BY <2>3 DEF FreeCache, Descent
  <2> QED
    BY <2>1, <2>2, <2>3 DEF Next, Finished
<1> QED
  BY <1>1, Invariance, PTL DEF Spec

\* A thread without a call, and one that needs a lock somebody else holds.
Waits(t) ==
  \/ pc[t] = "idle"
  \/ pc[t] = "compile" /\ writer # NoThread
  \/ pc[t] \in {"lockInsert", "lockRemove"} /\ ~(writer = NoThread /\ readers = {})

\* As long as a call is under way, or a rule in use, some thread has a step to take: the
\* lock that was given back for the parsing and taken again is never held by a thread
\* that waits for it.
THEOREM NobodyIsStuck ==
  Spec => []((\E t \in Threads : pc[t] # "idle") => \E t \in Threads : ~Waits(t))
<1>1. IInv => ((\E t \in Threads : pc[t] # "idle") => \E t \in Threads : ~Waits(t))
  <2> SUFFICES ASSUME IInv, NEW t \in Threads, pc[t] # "idle"
               PROVE  \E u \in Threads : ~Waits(u)
    OBVIOUS
  <2>0. /\ readers = {u \in Threads : pc[u] = "lookup"}
        /\ writer \in Threads \cup {NoThread}
        /\ \A u \in Threads : writer = u <=> pc[u] \in {"insert", "remove"}
        /\ \A u \in Threads : held[u] # None <=> pc[u] = "using"
    BY DEF IInv, TypeOK, InUse
  <2>1. CASE writer # NoThread
    <3>1. writer \in Threads /\ pc[writer] \in {"insert", "remove"}
      BY <2>0, <2>1
    <3> QED
      BY <3>1 DEF Waits
  <2>2. CASE writer = NoThread /\ readers # {}
    <3>1. PICK u \in Threads : pc[u] = "lookup"
      BY <2>0, <2>2
    <3> QED
      BY <3>1 DEF Waits
  <2>3. CASE writer = NoThread /\ readers = {}
    <3>1. NoThread \notin Threads
      BY CacheAssumption
    <3> QED
      BY <2>0, <2>3, <3>1 DEF Waits
  <2> QED
    BY <2>1, <2>2, <2>3
<1> QED
  BY <1>1, Invariance, PTL
=============================================================================
