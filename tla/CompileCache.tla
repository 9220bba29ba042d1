----------------------------- MODULE CompileCache -----------------------------
(***************************************************************************)
(* The compilation cache: cdsl_compile looks a DSL source up under a read  *)
(* lock; when it is not there it parses and verifies the source with no    *)
(* lock held, and looks again under the write lock before it enters the    *)
(* compiled rule.  The cache owns its entries, the threads that compile    *)
(* are handed pointers to them, and cdsl_compile_cache_remove frees one,   *)
(* whether or not somebody still uses it.                                  *)
(*                                                                         *)
(* The map is the partial function HashMap is shown to implement.  The     *)
(* bytecode is compiled under the write lock and belongs to its entry.     *)
(***************************************************************************)
EXTENDS Integers, FiniteSets

CONSTANTS
  Threads,
  Sources,        \* DSL texts, the keys of the cache
  Schemas,        \* schemas a caller may pass
  NoSchema,       \* the caller passes NULL
  Parseable,      \* the sources the parser accepts
  Passes,         \* the pairs of a source and a schema its rule verifies against
  MaxCalls,       \* bound: calls of cdsl_compile and of remove
  MaxFaults       \* bound: failed allocations

NoThread == "no thread"
NoSource == "no source"
None == 0

ASSUME CacheAssumption ==
  /\ IsFiniteSet(Threads)
  /\ NoThread \notin Threads
  /\ NoSource \notin Sources
  /\ NoSchema \notin Schemas
  /\ Parseable \subseteq Sources
  /\ Passes \subseteq Sources \X Schemas
  /\ MaxCalls \in Nat
  /\ MaxFaults \in Nat

VARIABLES
  pc,       \* what each thread does next
  source,   \* the dsl_code of its call
  schema,   \* the schema of its call
  parsed,   \* the rule it has parsed and not handed on
  held,     \* the compiled rule it was given and still uses
  readers,  \* cache->lock, held for reading
  writer,   \* cache->lock, held for writing
  map,      \* cache->map: a partial function from sources to entries
  madeFor,  \* of each rule object: the source it was compiled from
  rules,    \* the rule objects that are allocated, numbered as they are parsed
  entries,  \* the entries that are allocated, known by their rule objects
  born,     \* rule objects parsed so far
  leaked,   \* history: rules and entries nobody owns after a failed allocation
  calls,
  faults

lockVars == <<readers, writer>>
memVars == <<map, madeFor, rules, entries, born, leaked>>
callVars == <<source, schema>>
vars == <<pc, callVars, parsed, held, lockVars, memVars, calls, faults>>

Init ==
  /\ pc = [t \in Threads |-> "idle"]
  /\ source = [t \in Threads |-> NoSource]
  /\ schema = [t \in Threads |-> NoSchema]
  /\ parsed = [t \in Threads |-> None]
  /\ held = [t \in Threads |-> None]
  /\ readers = {}
  /\ writer = NoThread
  /\ map = [s \in {} |-> None]
  /\ madeFor = [r \in {} |-> None]
  /\ rules = {}
  /\ entries = {}
  /\ born = 0
  /\ leaked = {}
  /\ calls = 0
  /\ faults = 0

Goto(t, label) == pc' = [pc EXCEPT ![t] = label]
Cached(s) == s \in DOMAIN map
Fault == faults < MaxFaults /\ faults' = faults + 1

\* The call ends; the caller is given e, or NULL.
Return(t, e) ==
  /\ Goto(t, IF e = None THEN "idle" ELSE "using")
  /\ held' = [held EXCEPT ![t] = e]

-----------------------------------------------------------------------------
(***************************************************************************)
(* The reader-writer lock.                                                 *)
(***************************************************************************)
LockRead(t) ==
  /\ pc[t] = "compile"
  /\ writer = NoThread
  /\ readers' = readers \cup {t}
  /\ Goto(t, "lookup")
  /\ UNCHANGED <<callVars, parsed, held, writer, memVars, calls, faults>>

LockWrite(t) ==
  /\ pc[t] \in {"lockInsert", "lockRemove"}
  /\ writer = NoThread /\ readers = {}
  /\ writer' = t
  /\ Goto(t, IF pc[t] = "lockInsert" THEN "insert" ELSE "remove")
  /\ UNCHANGED <<callVars, parsed, held, readers, memVars, calls, faults>>

-----------------------------------------------------------------------------
(***************************************************************************)
(* cdsl_compile.                                                           *)
(***************************************************************************)
CallCompile(t, s, sch) ==
  /\ pc[t] = "idle"
  /\ calls < MaxCalls
  /\ calls' = calls + 1
  /\ source' = [source EXCEPT ![t] = s]
  /\ schema' = [schema EXCEPT ![t] = sch]
  /\ Goto(t, "compile")
  /\ UNCHANGED <<parsed, held, lockVars, memVars, faults>>

\* Mutant: a miss keeps the read lock.
LookUpKeepsLock(t) ==
  /\ pc[t] = "lookup"
  /\ IF Cached(source[t])
       THEN Return(t, map[source[t]]) /\ readers' = readers \ {t}
       ELSE Goto(t, "parse") /\ UNCHANGED <<held, readers>>
  /\ UNCHANGED <<callVars, parsed, writer, memVars, calls, faults>>

LookUp(t) ==
  /\ pc[t] = "lookup"
  /\ readers' = readers \ {t}
  /\ IF Cached(source[t])
       THEN Return(t, map[source[t]])
       ELSE Goto(t, "parse") /\ UNCHANGED held
  /\ UNCHANGED <<callVars, parsed, writer, memVars, calls, faults>>

Verifies(t) == schema[t] = NoSchema \/ <<source[t], schema[t]>> \in Passes

ParseFails(t) ==
  /\ pc[t] = "parse"
  /\ \/ source[t] \notin Parseable /\ faults' = faults
     \/ source[t] \in Parseable /\ Fault
  /\ Return(t, None)
  /\ UNCHANGED <<callVars, parsed, lockVars, memVars, calls>>

\* The rule is parsed, and freed again when the schema rejects it.
ParseAndVerify(t) ==
  /\ pc[t] = "parse"
  /\ source[t] \in Parseable
  /\ born' = born + 1
  /\ IF Verifies(t)
       THEN /\ parsed' = [parsed EXCEPT ![t] = born + 1]
            /\ rules' = rules \cup {born + 1}
            /\ madeFor' = [r \in DOMAIN madeFor \cup {born + 1} |->
                 IF r = born + 1 THEN source[t] ELSE madeFor[r]]
            /\ Goto(t, "lockInsert")
            /\ UNCHANGED held
       ELSE /\ Return(t, None)
            /\ UNCHANGED <<parsed, rules, madeFor>>
  /\ UNCHANGED <<callVars, lockVars, map, entries, leaked, calls, faults>>

\* Mutant: the caller's own rule takes the place of the entry it finds.
FindOtherReplacing(t) ==
  /\ pc[t] = "insert"
  /\ Cached(source[t])
  /\ rules' = rules \ {map[source[t]]}
  /\ entries' = (entries \ {map[source[t]]}) \cup {parsed[t]}
  /\ map' = [map EXCEPT ![source[t]] = parsed[t]]
  /\ parsed' = [parsed EXCEPT ![t] = None]
  /\ writer' = NoThread
  /\ Return(t, parsed[t])
  /\ UNCHANGED <<callVars, readers, madeFor, born, leaked, calls, faults>>

\* Mutant: the caller's own rule is not freed.
FindOtherLeaking(t) ==
  /\ pc[t] = "insert"
  /\ Cached(source[t])
  /\ parsed' = [parsed EXCEPT ![t] = None]
  /\ writer' = NoThread
  /\ Return(t, map[source[t]])
  /\ UNCHANGED <<callVars, readers, memVars, calls, faults>>

\* Another thread has entered the source meanwhile: its entry is returned.
FindOther(t) ==
  /\ pc[t] = "insert"
  /\ Cached(source[t])
  /\ rules' = rules \ {parsed[t]}
  /\ parsed' = [parsed EXCEPT ![t] = None]
  /\ writer' = NoThread
  /\ Return(t, map[source[t]])
  /\ UNCHANGED <<callVars, readers, map, madeFor, entries, born, leaked, calls,
                 faults>>

MapWith(s, e) == [x \in DOMAIN map \cup {s} |-> IF x = s THEN e ELSE map[x]]

\* Mutant: the second look into the map is missing.
InsertUnchecked(t) ==
  /\ pc[t] = "insert"
  /\ parsed' = [parsed EXCEPT ![t] = None]
  /\ writer' = NoThread
  /\ map' = MapWith(source[t], parsed[t])
  /\ entries' = entries \cup {parsed[t]}
  /\ Return(t, parsed[t])
  /\ UNCHANGED <<callVars, readers, madeFor, rules, born, leaked, calls, faults>>

\* The entry is made and put into the map.  When the put fails the entry is
\* returned all the same, and the map does not know of it.
Insert(t) ==
  /\ pc[t] = "insert"
  /\ ~Cached(source[t])
  /\ parsed' = [parsed EXCEPT ![t] = None]
  /\ writer' = NoThread
  /\ entries' = entries \cup {parsed[t]}
  /\ Return(t, parsed[t])
  /\ \/ /\ map' = MapWith(source[t], parsed[t])
        /\ UNCHANGED <<leaked, faults>>
     \/ /\ Fault
        /\ leaked' = leaked \cup {parsed[t]}
        /\ UNCHANGED map
  /\ UNCHANGED <<callVars, readers, madeFor, rules, born, calls>>

\* The entry, or the copy of its key, cannot be allocated: NULL is returned and
\* the rule is lost.
InsertFails(t) ==
  /\ pc[t] = "insert"
  /\ ~Cached(source[t])
  /\ Fault
  /\ leaked' = leaked \cup {parsed[t]}
  /\ parsed' = [parsed EXCEPT ![t] = None]
  /\ writer' = NoThread
  /\ Return(t, None)
  /\ UNCHANGED <<callVars, readers, map, madeFor, rules, entries, born, calls>>

\* The caller has done with the rule it was given.
StopUsing(t) ==
  /\ pc[t] = "using"
  /\ Return(t, None)
  /\ UNCHANGED <<callVars, parsed, lockVars, memVars, calls, faults>>

-----------------------------------------------------------------------------
(***************************************************************************)
(* cdsl_compile_cache_remove and cdsl_compile_cache_free.                  *)
(***************************************************************************)
CallRemove(t, s) ==
  /\ pc[t] = "idle"
  /\ calls < MaxCalls
  /\ calls' = calls + 1
  /\ source' = [source EXCEPT ![t] = s]
  /\ Goto(t, "lockRemove")
  /\ UNCHANGED <<schema, parsed, held, lockVars, memVars, faults>>

MapWithout(s) == [x \in DOMAIN map \ {s} |-> map[x]]

\* Nobody asks whether the entry is still in use.
Remove(t) ==
  /\ pc[t] = "remove"
  /\ IF Cached(source[t])
       THEN /\ map' = MapWithout(source[t])
            /\ entries' = entries \ {map[source[t]]}
            /\ rules' = rules \ {map[source[t]]}
       ELSE UNCHANGED <<map, entries, rules>>
  /\ writer' = NoThread
  /\ Goto(t, "idle")
  /\ UNCHANGED <<callVars, parsed, held, readers, madeFor, born, leaked, calls,
                 faults>>

\* The owner frees the cache once no thread works with it; a new one may follow.
FreeCache ==
  /\ \A t \in Threads : pc[t] = "idle"
  /\ DOMAIN map # {}
  /\ entries' = entries \ {map[s] : s \in DOMAIN map}
  /\ rules' = rules \ {map[s] : s \in DOMAIN map}
  /\ map' = [s \in {} |-> None]
  /\ UNCHANGED <<pc, callVars, parsed, held, lockVars, madeFor, born, leaked,
                 calls, faults>>

Finished ==
  /\ calls = MaxCalls
  /\ \A t \in Threads : pc[t] = "idle"
  /\ UNCHANGED vars

-----------------------------------------------------------------------------
Compile(t) ==
  \/ LookUp(t)
  \/ ParseFails(t)
  \/ ParseAndVerify(t)
  \/ FindOther(t)
  \/ Insert(t)
  \/ InsertFails(t)
Step(t) ==
  \/ LockRead(t)
  \/ LockWrite(t)
  \/ Compile(t)
  \/ StopUsing(t)
  \/ Remove(t)
Calling(t) ==
  \E s \in Sources :
    \/ \E sch \in Schemas \cup {NoSchema} : CallCompile(t, s, sch)
    \/ CallRemove(t, s)

Next == (\E t \in Threads : Step(t) \/ Calling(t)) \/ FreeCache \/ Finished

\* Each thread keeps running, and stops using what it was given.  Only finitely
\* many calls compete for the lock, so no stronger fairness is needed.
Spec == Init /\ [][Next]_vars
FairSpec == Spec /\ \A t \in Threads : WF_vars(Step(t))

-----------------------------------------------------------------------------
(***************************************************************************)
(* Properties.                                                             *)
(***************************************************************************)

\* The types of the variables, and who holds the lock: on every way out of a
\* critical section it has been given back.
TypeOK ==
  /\ pc \in [Threads -> {"idle", "compile", "lookup", "parse", "lockInsert",
                         "insert", "lockRemove", "remove", "using"}]
  /\ source \in [Threads -> Sources \cup {NoSource}]
  /\ schema \in [Threads -> Schemas \cup {NoSchema}]
  /\ parsed \in [Threads -> 0 .. born]
  /\ held \in [Threads -> 0 .. born]
  /\ readers = {t \in Threads : pc[t] = "lookup"}
  /\ writer \in Threads \cup {NoThread}
  /\ \A t \in Threads : writer = t <=> pc[t] \in {"insert", "remove"}
  /\ DOMAIN map \subseteq Sources /\ \A s \in DOMAIN map : map[s] \in 1 .. born
  /\ rules \subseteq 1 .. born /\ entries \subseteq 1 .. born
  /\ DOMAIN madeFor \subseteq 1 .. born
  /\ born \in Nat
  /\ leaked \subseteq 1 .. born
  /\ calls \in 0 .. MaxCalls
  /\ faults \in 0 .. MaxFaults

\* However many threads compile one source at once, the cache ends up with one
\* entry for it and every thread is given that one: an allocated entry is the
\* one the map has for its source, unless the map could not take it in.
SourcesAreCompiledOnce ==
  /\ \A e \in entries \ leaked :
       Cached(madeFor[e]) /\ map[madeFor[e]] = e
  /\ \A s \in DOMAIN map : madeFor[map[s]] = s /\ map[s] \in entries

\* Every rule object is owned by exactly one: by an entry, or by the thread that
\* has parsed it and waits to enter it.  The only rules without an owner were
\* lost to failed allocations.
RulesHaveOwners ==
  LET inHand == {parsed[t] : t \in {u \in Threads : parsed[u] # None}} IN
  /\ rules = entries \cup inHand \cup (leaked \cap rules)
  /\ inHand \cap entries = {}
  /\ \A t, u \in Threads : t # u /\ parsed[t] # None => parsed[t] # parsed[u]
  /\ Cardinality(leaked) <= faults

\* The table of thread safety (docs/user-guide.md:710) gives the cache an
\* internal lock and no precondition: nobody would use a compiled rule that has
\* been freed.  The lock does not reach so far.
HeldRulesAreLive == \A t \in Threads : held[t] # None => held[t] \in entries

\* What cdsl_compile returns is allocated when it is handed out, and it is freed
\* under its user's hands by nothing but a removal of the very source it was
\* compiled from: not by another thread that compiles that source too, not by
\* the removal of another source, and not by a put that fails.
OnlyRemovalEndsUse ==
  [][\A t \in Threads : held'[t] # None /\ held'[t] \notin entries' =>
       /\ held'[t] = held[t]
       /\ held[t] \in entries =>
            \E u \in Threads : pc[u] = "remove" /\ source[u] = madeFor[held[t]]]_vars

\* A thread that looks an entry up or changes the map is not disturbed: the
\* lookup's pointer is read from a map nobody is changing.
WritersAreAlone ==
  \A t, u \in Threads :
    t # u /\ pc[t] \in {"insert", "remove"} => pc[u] \notin {"lookup", "insert", "remove"}

\* Every call returns: parsing outside of the lock and taking it again leaves
\* no thread waiting for ever.
CallsReturn ==
  \A t \in Threads : pc[t] \notin {"idle", "using"} ~> pc[t] \in {"idle", "using"}
=============================================================================
