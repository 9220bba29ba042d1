------------------------------- MODULE Context -------------------------------
(***************************************************************************)
(* cdsl_context_t: the variables a rule is executed against.  They are     *)
(* kept twice, in a list that owns them (newest first) and in a hash map   *)
(* from names to entries, and string and array values own heap blocks.     *)
(* Any allocation may fail, the one of the hash map included, whose result *)
(* the code ignores: the list then holds an entry that no lookup finds.    *)
(*                                                                         *)
(* A JSON document is its members in the order in which                    *)
(* load_json_recursive comes to them, each with the depth of the object it *)
(* is in; a member that is an object is followed by its own members.       *)
(***************************************************************************)
EXTENDS Integers, FiniteSets, SequencesExt

CONSTANTS
  Names,           \* dotted names of variables
  ReadOnly,        \* the names the schema declares read-only
  Scalars,         \* INT, FLOAT, BOOL, DATE and LONG values
  Strings,         \* STRING values: the entry owns a copy
  Arrays,          \* ARRAY values: the entry owns the array and its items
  NoItems,         \* an ARRAY value whose items could not be allocated
  Object, Null,    \* members of a document that are no values
  Documents,       \* sequences of members
  NoJob,           \* no document is being loaded
  MaxEntries,      \* bound: entries in the list
  MaxFaults        \* bound: failed allocations

Owning == Strings \cup Arrays \cup {NoItems}
Values == Scalars \cup Owning
Member ==
  [name : Names, depth : Nat,
   value : Scalars \cup Strings \cup Arrays \cup {Object, Null}]

ASSUME ContextAssumption ==
  /\ ReadOnly \subseteq Names
  /\ Scalars \cap Owning = {} /\ Strings \cap Arrays = {}
  /\ NoItems \notin Strings \cup Arrays
  /\ {Object, Null} \cap Values = {}
  /\ Documents \subseteq Seq(Member)
  /\ MaxEntries \in Nat /\ MaxFaults \in Nat

VARIABLES
  entries,  \* ctx->entries, first to last
  map,      \* ctx->map: a partial function from names to entries, which are
            \* known by their places counted from the end of the list
  blocks,   \* how many strings and arrays are allocated for values
  job,      \* the document being loaded, and how things were before
  todo,     \* its members that load_json_recursive has not come to
  ended,    \* "no", "freed" (cdsl_context_free) or "crashed"
  faults    \* allocations that have failed

loadVars == <<job, todo>>
vars == <<entries, map, blocks, loadVars, ended, faults>>

Init ==
  /\ entries = <<>>
  /\ map = [n \in {} |-> 0]
  /\ blocks = 0
  /\ job = NoJob
  /\ todo = <<>>
  /\ ended = "no"
  /\ faults = 0

-----------------------------------------------------------------------------
(***************************************************************************)
(* Lookups.                                                                *)
(***************************************************************************)
Found(n) == n \in DOMAIN map
Place(n) == Len(entries) + 1 - map[n]
Lookup == [n \in DOMAIN map |-> entries[Place(n)].value]
Guarded(n) == Found(n) /\ n \in ReadOnly

\* The places of the entries with a name, whether a lookup finds them or not.
Places(n) == {i \in DOMAIN entries : entries[i].name = n}

\* The number of blocks a value owns: an array and its items count as one.
Owned(v) == IF v \in Owning THEN 1 ELSE 0

\* The number of blocks that freeing the value of an entry gives back.
Freed(e) == IF e.dangling THEN 0 ELSE Owned(e.value)

Faulty(k) == faults + k <= MaxFaults /\ faults' = faults + k

\* A value that must not be touched: an array whose count promises items it does
\* not have, or whose block has been freed behind the entry.
Broken(e) == e.value = NoItems \/ e.dangling

\* cdsl_value_free walks over items that are not there, or frees a block for the
\* second time.  What follows is undefined: the process ends here.
Crash ==
  /\ ended' = "crashed"
  /\ UNCHANGED <<entries, map, blocks>>

-----------------------------------------------------------------------------
(***************************************************************************)
(* What the six setters and the array branch of load_json_recursive have   *)
(* in common.  lost allocations have failed for the value before.          *)
(***************************************************************************)
\* Mutant: an array is stored without a look at the schema.
MayReplaceArrays(n, v) == Found(n) /\ (n \notin ReadOnly \/ v \in Arrays)

MayReplace(n, v) == Found(n) /\ n \notin ReadOnly

Stored(n, v) ==
  entries' = [entries EXCEPT ![Place(n)].value = v, ![Place(n)].dangling = FALSE]

\* Mutant: the value that is replaced is not freed.
ReplacedKeeping(n, v) == Stored(n, v) /\ blocks' = blocks + Owned(v)

\* The new value is ready before the old one is freed.
Replaced(n, v) ==
  Stored(n, v) /\ blocks' = blocks + Owned(v) - Freed(entries[Place(n)])

Replace(n, v, lost) ==
  /\ MayReplace(n, v) /\ ~Broken(entries[Place(n)])
  /\ Replaced(n, v)
  /\ Faulty(lost)
  /\ UNCHANGED <<map, ended>>

ReplaceCrashes(n, v, lost) ==
  /\ MayReplace(n, v) /\ Broken(entries[Place(n)])
  /\ Crash
  /\ Faulty(lost)

Link(n, v) ==
  /\ ~Found(n) /\ Len(entries) < MaxEntries
  /\ entries' = <<[name |-> n, value |-> v, dangling |-> FALSE]>> \o entries
  /\ blocks' = blocks + Owned(v)
  /\ UNCHANGED ended

Add(n, v, lost) ==
  /\ Link(n, v)
  /\ map' = [x \in DOMAIN map \cup {n} |->
               IF x = n THEN Len(entries) + 1 ELSE map[x]]
  /\ Faulty(lost)

\* There is no memory for the map's own entry, and nobody asks.
AddUnmapped(n, v, lost) ==
  /\ Link(n, v)
  /\ Faulty(lost + 1)
  /\ UNCHANGED map

\* There is no memory for the entry, its name, or the copy of the value.  What
\* was allocated is freed, and so the array without items is met.
SetFails(n, v, lost) ==
  /\ ~Found(n) \/ (v \in Owning /\ ~Guarded(n) /\ lost = 0)
  /\ Faulty(lost + 1)
  /\ IF v = NoItems THEN Crash ELSE UNCHANGED <<entries, map, blocks, ended>>

\* A read-only variable that has a value keeps it.
Ignore(n, v, lost) ==
  /\ Found(n) /\ ~MayReplace(n, v)
  /\ Faulty(lost)
  /\ IF v = NoItems THEN Crash ELSE UNCHANGED <<entries, map, blocks, ended>>

Assign(n, v, lost) ==
  \/ Replace(n, v, lost) \/ ReplaceCrashes(n, v, lost)
  \/ Add(n, v, lost) \/ AddUnmapped(n, v, lost)
  \/ SetFails(n, v, lost) \/ Ignore(n, v, lost)

-----------------------------------------------------------------------------
\* The blocks the entries own.
Referenced == Cardinality({i \in DOMAIN entries : Freed(entries[i]) = 1})

(***************************************************************************)
(* The operations of an application.                                       *)
(***************************************************************************)
Idle == ended = "no" /\ job = NoJob

\* cdsl_context_set_int, _float, _bool, _string, _date and _long.
Set(n, v) ==
  /\ Idle
  /\ Assign(n, v, 0)
  /\ UNCHANGED loadVars

\* Mutant: the map is not told that the entry is freed.
MapKept(n, place) ==
  [x \in DOMAIN map |-> IF map[x] > place THEN map[x] - 1 ELSE map[x]]

MapWithout(n, place) ==
  [x \in DOMAIN map \ {n} |->
     IF map[x] > place THEN map[x] - 1 ELSE map[x]]

\* cdsl_context_remove takes the first entry of that name off the list, whatever
\* the map has found.
RemoveVariable(n) ==
  /\ Idle
  /\ Places(n) # {}
  /\ LET i == CHOOSE i \in Places(n) : \A j \in Places(n) : i <= j IN
     IF Broken(entries[i])
     THEN Crash
     ELSE /\ entries' = RemoveAt(entries, i)
          /\ blocks' = blocks - Freed(entries[i])
          /\ map' = MapWithout(n, Len(entries) + 1 - i)
          /\ UNCHANGED ended
  /\ UNCHANGED <<loadVars, faults>>

\* Evaluation of the variable in a rule: cdsl_eval_expr_internal hands out a
\* copy of the value, which its user, say count or sum, frees.  A string is
\* duplicated first; an array is not, and the entry is left with a freed block.
Evaluate(n) ==
  /\ Idle
  /\ Found(n)
  /\ IF Broken(entries[Place(n)])
     THEN Crash
     ELSE LET e == entries[Place(n)] IN
          /\ entries' = [entries EXCEPT ![Place(n)].dangling = e.value \in Arrays]
          /\ blocks' = IF e.value \in Arrays THEN blocks - Owned(e.value) ELSE blocks
          /\ UNCHANGED ended
  /\ UNCHANGED <<map, loadVars, faults>>

\* cdsl_context_free.
Free ==
  /\ Idle
  /\ IF \E e \in Range(entries) : Broken(e)
     THEN Crash
     ELSE /\ entries' = <<>>
          /\ map' = [n \in {} |-> 0]
          /\ blocks' = blocks - Referenced
          /\ ended' = "freed"
  /\ UNCHANGED <<loadVars, faults>>

-----------------------------------------------------------------------------
(***************************************************************************)
(* cdsl_context_load_json, member by member.                               *)
(***************************************************************************)
Load(d) ==
  /\ Idle
  /\ job' = [document |-> d, before |-> Lookup, faults |-> faults]
  /\ todo' = d
  /\ UNCHANGED <<entries, map, blocks, ended, faults>>

Loading == ended = "no" /\ todo # <<>>

\* Mutant: a member that is null erases the value it is loaded over.
LoadedValueNulls(m) == IF m.value = Null THEN CHOOSE v \in Scalars : TRUE ELSE m.value

LoadedValue(m) == m.value

LoadMember ==
  /\ Loading
  /\ LoadedValue(Head(todo)) \in Values
  /\ \/ Assign(Head(todo).name, LoadedValue(Head(todo)), 0)
     \/ /\ Head(todo).value \in Arrays
        /\ Assign(Head(todo).name, NoItems, 1)
  /\ todo' = Tail(todo)
  /\ UNCHANGED job

\* The recursion enters an object; null is passed over.
PassMember ==
  /\ Loading
  /\ LoadedValue(Head(todo)) \in {Object, Null}
  /\ todo' = Tail(todo)
  /\ UNCHANGED <<entries, map, blocks, job, ended, faults>>

\* The members left when the call for the object of the first one returns.
AfterObject(members) ==
  LET outer == {i \in DOMAIN members : members[i].depth < Head(members).depth}
      first == CHOOSE i \in outer : \A j \in outer : i <= j
  IN IF outer = {} THEN <<>> ELSE SubSeq(members, first, Len(members))

\* There is no memory for the key, or for a string in an array: this call of
\* load_json_recursive returns, the calls around it go on.
AbandonObject ==
  /\ Loading
  /\ Faulty(1)
  /\ todo' = AfterObject(todo)
  /\ UNCHANGED <<entries, map, blocks, job, ended>>

LoadReturns ==
  /\ ended = "no" /\ job # NoJob /\ todo = <<>>
  /\ job' = NoJob
  /\ UNCHANGED <<entries, map, blocks, todo, ended, faults>>

Ended == ended # "no" /\ UNCHANGED vars

Next ==
  \/ \E n \in Names :
       \/ \E v \in Scalars \cup Strings : Set(n, v)
       \/ RemoveVariable(n)
       \/ Evaluate(n)
  \/ \E d \in Documents : Load(d)
  \/ LoadMember
  \/ PassMember
  \/ AbandonObject
  \/ LoadReturns
  \/ Free
  \/ Ended

Spec == Init /\ [][Next]_vars

-----------------------------------------------------------------------------
(***************************************************************************)
(* Properties.                                                             *)
(***************************************************************************)
Entries == [name : Names, value : Values, dangling : BOOLEAN]

\* The types of the variables.
TypeOK ==
  /\ entries \in Seq(Entries) /\ Len(entries) <= MaxEntries
  /\ DOMAIN map \subseteq Names /\ Range(map) \subseteq 1 .. Len(entries)
  /\ blocks \in Nat
  /\ todo # <<>> => job # NoJob
  /\ ended \in {"no", "freed", "crashed"}
  /\ faults \in 0 .. MaxFaults

\* The map finds the first entry of a name in the list.  cdsl_context_remove
\* rests on it: it unlinks one by the list and the other by the map, and if they
\* were different entries the map would keep a pointer to a freed one.
MapFindsFirstEntry ==
  \A n \in DOMAIN map :
    Place(n) \in Places(n) /\ \A j \in Places(n) : Place(n) <= j

\* The blocks that are allocated are those the entries own: none is left behind
\* by a replaced value, by a set or a load that ran out of memory, or by a context
\* that was freed, and no entry has a block that somebody else has freed, but for
\* arrays a rule has evaluated.
MemoryIsOwned ==
  /\ blocks = Referenced
  /\ \A e \in Range(entries) : e.dangling => e.value \in Arrays

\* An entry that no lookup finds has cost a failed allocation: without one the
\* list holds exactly the variables.
OnlyFaultsHideEntries ==
  Len(entries) <= Cardinality(DOMAIN map) + faults

\* Whatever is set or loaded, a read-only variable that has a value keeps it
\* until it is removed (context_var_is_readonly in every setter and in the
\* array branch of the loader).
ReadOnlyIsKept ==
  [][\A n \in ReadOnly :
       Found(n) /\ Found(n)' => Lookup'[n] = Lookup[n]]_vars

\* "The context `ctx` is shared read-only across worker threads"
\* (docs/user-guide.md:295): a rule that is evaluated leaves its context as it was,
\* which is what lets the threads of a batch share it without a lock.
EvaluationOnlyReads ==
  [][\A n \in Names : Evaluate(n) => UNCHANGED <<entries, map, blocks>>]_vars

\* What a document makes of the variables, all members taken together: the last
\* value of a name counts, the first for a read-only name, which must be new.
ValuesFor(d, n) == {i \in DOMAIN d : d[i].name = n /\ d[i].value \in Values}
LoadedFrom(d, before) ==
  [n \in DOMAIN before \cup {m.name : m \in {x \in Range(d) : x.value \in Values}} |->
     IF ValuesFor(d, n) = {} \/ (n \in ReadOnly /\ n \in DOMAIN before)
     THEN before[n]
     ELSE IF n \in ReadOnly THEN d[Min(ValuesFor(d, n))].value
     ELSE d[Max(ValuesFor(d, n))].value]

\* A load that met no failure leaves what the document says, whatever objects
\* its members are nested in and however often a name occurs.
LoadIsComplete ==
  (job # NoJob /\ todo = <<>> /\ ended = "no") =>
    (job.faults = faults => Lookup = LoadedFrom(job.document, job.before))
=============================================================================
