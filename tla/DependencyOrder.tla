--------------------------- MODULE DependencyOrder ---------------------------
(***************************************************************************)
(* cdsl_ruleset_topo_sort: a depth-first search that validates the         *)
(* "depends_on" lists of a rule set (validate_deps_recursive) and, when    *)
(* they are accepted, a second one that emits every rule after its         *)
(* dependencies (topo_sort_recursive) and relinks the set in that order.   *)
(*                                                                         *)
(* Both searches cut a list into names with strtok, whose position is one  *)
(* static variable of the C library.  A call for a dependency that has a   *)
(* list of its own moves that position into the inner list's buffer, and   *)
(* the buffer is freed before the outer search asks for its next name.     *)
(* Reading on from a freed buffer is undefined: the C library may find the *)
(* old terminator, which ends the outer list, or whatever the allocator    *)
(* has written there, which is a name no rule has.                         *)
(***************************************************************************)
EXTENDS Integers, Sequences, FiniteSets

CONSTANTS
  DependsOn,   \* the rule sets to examine: the depends_on list of each rule
  MaxFaults    \* bound: allocations that fail in one call

NoSuchRule == 0  \* a name no rule of the set has

ASSUME DependencyAssumption ==
  /\ MaxFaults \in Nat
  /\ \A d \in DependsOn :
       LET n == Cardinality(DOMAIN d) IN
         IsFiniteSet(DOMAIN d) /\ d \in [1 .. n -> Seq(0 .. n)]

VARIABLES
  deps,     \* a rule is its position in the set; its list holds such positions
  mode,     \* "validate", "sort" or "done"
  next,     \* the loop over all entries: the entry it has come to
  color,    \* states[] of the validation: 0 new, 1 on the path, 2 finished
  visited,  \* visited[] of the sort
  path,     \* the recursion: rules whose list is being read, innermost last
  tokens,   \* what strtok has still to cut up
  stale,    \* strtok's position lies in a freed buffer
  unread,   \* history: the names each list on the path had left when it was left
  dropped,  \* history: the names of some list were not all read
  output,   \* sorted_arr
  order,    \* set->entries: the linked list
  result,   \* "none", "ok", "cycle", "missing" or "oom"
  faults    \* allocations that have failed

vars == <<deps, mode, next, color, visited, path, tokens, stale, unread, dropped,
          output, order, result, faults>>

Rules == DOMAIN deps   \* set->count is the number of them
RuleCount == Cardinality(Rules)

Init ==
  /\ deps \in DependsOn
  /\ mode = "validate"
  /\ next = 1
  /\ color = [r \in Rules |-> 0]
  /\ visited = {}
  /\ path = <<>>
  /\ tokens = <<>>
  /\ stale = FALSE
  /\ unread = <<>>
  /\ dropped = FALSE
  /\ output = <<>>
  /\ order = [i \in Rules |-> i]
  /\ result = "none"
  /\ faults = 0

Running == result = "none"
Top == path[Len(path)]
Pop(stack) == SubSeq(stack, 1, Len(stack) - 1)

\* A call begins to read the list of r, strtok(dep_buf, ","); the list that named
\* r has rest left.
OpenList(r, rest) ==
  /\ path' = Append(path, r)
  /\ unread' = [i \in 1 .. Len(path) + 1 |->
                 IF i < Len(path) THEN unread[i]
                 ELSE IF i = Len(path) THEN rest ELSE <<>>]
  /\ tokens' = deps[r]
  /\ stale' = FALSE

CloseList ==
  /\ path' = Pop(path)
  /\ tokens' = <<>>
  /\ stale' = TRUE
  /\ unread' = Pop(unread)
  /\ dropped' = (dropped \/ unread[Len(unread)] # <<>>)

Reject(why) ==
  /\ result' = why
  /\ mode' = "done"

Fault == faults < MaxFaults /\ faults' = faults + 1

-----------------------------------------------------------------------------
(***************************************************************************)
(* Validation.                                                             *)
(***************************************************************************)

\* validate_deps_recursive is entered for r with rest left of the caller's list.
ValidateEntry(r, rest) ==
  \/ /\ color[r] = 1
     /\ Reject("cycle")
     /\ UNCHANGED <<color, path, unread, tokens, stale, faults>>
  \/ /\ color[r] = 2 \/ (color[r] = 0 /\ deps[r] = <<>>)
     /\ color' = [color EXCEPT ![r] = 2]
     /\ tokens' = rest
     /\ UNCHANGED <<path, unread, stale, result, mode, faults>>
  \/ /\ color[r] = 0
     /\ deps[r] # <<>>
     /\ color' = [color EXCEPT ![r] = 1]
     /\ \/ /\ OpenList(r, rest)
           /\ UNCHANGED <<result, mode, faults>>
        \/ /\ Fault
           /\ Reject("oom")
           /\ UNCHANGED <<path, unread, tokens, stale>>

\* Mutant: the loop passes over finished rules without advancing.
ValidateNextRuleStuck ==
  /\ mode = "validate" /\ Running /\ path = <<>>
  /\ next \in Rules
  /\ IF color[next] = 0
       THEN ValidateEntry(next, <<>>) /\ next' = next + 1
       ELSE UNCHANGED <<next, color, path, unread, tokens, stale, result, mode,
                        faults>>
  /\ UNCHANGED <<deps, visited, dropped, output, order>>

ValidateNextRule ==
  /\ mode = "validate" /\ Running /\ path = <<>>
  /\ next \in Rules
  /\ next' = next + 1
  /\ IF color[next] = 0 THEN ValidateEntry(next, <<>>)
     ELSE UNCHANGED <<color, path, unread, tokens, stale, result, mode, faults>>
  /\ UNCHANGED <<deps, visited, dropped, output, order>>

ValidateNextName ==
  /\ mode = "validate" /\ Running /\ path # <<>>
  /\ ~stale /\ tokens # <<>>
  /\ IF Head(tokens) = NoSuchRule
       THEN /\ Reject("missing")
            /\ UNCHANGED <<color, path, unread, tokens, stale, faults>>
       ELSE ValidateEntry(Head(tokens), Tail(tokens))
  /\ UNCHANGED <<deps, next, visited, dropped, output, order>>

\* Mutant: the rule is not marked as finished.
ValidateListEndsUnmarked ==
  /\ mode = "validate" /\ Running /\ path # <<>>
  /\ stale \/ tokens = <<>>
  /\ CloseList
  /\ UNCHANGED <<deps, mode, next, color, visited, output, order, result,
                 faults>>

\* strtok finds no further name: the buffer is freed and the call returns.
ValidateListEnds ==
  /\ mode = "validate" /\ Running /\ path # <<>>
  /\ stale \/ tokens = <<>>
  /\ color' = [color EXCEPT ![Top] = 2]
  /\ CloseList
  /\ UNCHANGED <<deps, mode, next, visited, output, order, result,
                 faults>>

\* strtok reads a name out of the freed buffer.  No rule has it, and the set is
\* refused with the message any unknown name gets, "Missing dependency".
ValidateGarbageName ==
  /\ mode = "validate" /\ Running /\ path # <<>>
  /\ stale
  /\ dropped' = TRUE
  /\ Reject("missing")
  /\ UNCHANGED <<deps, next, color, visited, path, tokens, stale, unread,
                 output, order, faults>>

ValidationPasses ==
  /\ mode = "validate" /\ Running /\ path = <<>>
  /\ next = RuleCount + 1
  /\ mode' = "sort"
  /\ next' = 1
  /\ UNCHANGED <<deps, color, visited, path, tokens, stale, unread, dropped, output,
                 order, result, faults>>

\* states, visited or one of the arrays of entries cannot be allocated.
NoArrays ==
  /\ mode \in {"validate", "sort"} /\ Running /\ next = 1 /\ path = <<>>
  /\ Fault
  /\ Reject("oom")
  /\ UNCHANGED <<deps, next, color, visited, path, tokens, stale, unread, dropped,
                 output, order>>

-----------------------------------------------------------------------------
(***************************************************************************)
(* The sort.                                                               *)
(***************************************************************************)

\* Mutant: the call returns when its list cannot be copied.
SortEntryGivesUp(r, rest) ==
  \/ /\ r \in visited
     /\ tokens' = rest
     /\ UNCHANGED <<visited, path, unread, stale, output, faults>>
  \/ /\ r \notin visited
     /\ \/ deps[r] = <<>> /\ output' = Append(output, r) /\ faults' = faults
        \/ deps[r] # <<>> /\ output' = output /\ Fault
     /\ visited' = visited \cup {r}
     /\ tokens' = rest
     /\ UNCHANGED <<path, unread, stale>>
  \/ /\ r \notin visited /\ deps[r] # <<>>
     /\ visited' = visited \cup {r}
     /\ OpenList(r, rest)
     /\ UNCHANGED <<output, faults>>

SortEntry(r, rest) ==
  \/ /\ r \in visited
     /\ tokens' = rest
     /\ UNCHANGED <<visited, path, unread, stale, output, faults>>
  \/ /\ r \notin visited
     /\ \/ deps[r] = <<>> /\ faults' = faults
        \/ deps[r] # <<>> /\ Fault   \* strdup fails: no list, no error
     /\ visited' = visited \cup {r}
     /\ output' = Append(output, r)
     /\ tokens' = rest
     /\ UNCHANGED <<path, unread, stale>>
  \/ /\ r \notin visited /\ deps[r] # <<>>
     /\ visited' = visited \cup {r}
     /\ OpenList(r, rest)
     /\ UNCHANGED <<output, faults>>

SortNextRule ==
  /\ mode = "sort" /\ Running /\ path = <<>>
  /\ next \in Rules
  /\ next' = next + 1
  /\ SortEntry(next, <<>>)
  /\ UNCHANGED <<deps, mode, color, dropped, order, result>>

SortNextName ==
  /\ mode = "sort" /\ Running /\ path # <<>>
  /\ ~stale /\ tokens # <<>>
  /\ IF Head(tokens) = NoSuchRule
       THEN /\ tokens' = Tail(tokens)
            /\ UNCHANGED <<visited, path, unread, stale, output, faults>>
       ELSE SortEntry(Head(tokens), Tail(tokens))
  /\ UNCHANGED <<deps, mode, next, color, dropped, order, result>>

\* Mutant: a rule is emitted in front of those emitted before it.
SortListEndsReversed ==
  /\ mode = "sort" /\ Running /\ path # <<>>
  /\ stale \/ tokens = <<>>
  /\ output' = <<Top>> \o output
  /\ CloseList
  /\ UNCHANGED <<deps, mode, next, color, visited, order, result, faults>>

\* A name read out of a freed buffer is looked up in vain and changes nothing,
\* so both outcomes end the list here.
SortListEnds ==
  /\ mode = "sort" /\ Running /\ path # <<>>
  /\ stale \/ tokens = <<>>
  /\ output' = Append(output, Top)
  /\ CloseList
  /\ UNCHANGED <<deps, mode, next, color, visited, order, result, faults>>

\* The list is relinked in the order of sorted_arr.
Relink ==
  /\ mode = "sort" /\ Running /\ path = <<>>
  /\ next = RuleCount + 1
  /\ order' = output
  /\ result' = "ok"
  /\ mode' = "done"
  /\ UNCHANGED <<deps, next, color, visited, path, tokens, stale, unread, dropped, output,
                 faults>>

\* A set of at most one rule is returned as it is.
NothingToSort ==
  /\ mode = "validate" /\ Running /\ RuleCount <= 1
  /\ result' = "ok"
  /\ mode' = "done"
  /\ UNCHANGED <<deps, next, color, visited, path, tokens, stale, unread, dropped,
                 output, order, faults>>

\* The call has returned.
Returned == mode = "done" /\ UNCHANGED vars

Validate ==
  /\ RuleCount > 1
  /\ \/ ValidateNextRule
     \/ ValidateNextName
     \/ ValidateListEnds
     \/ ValidateGarbageName
     \/ ValidationPasses
     \/ NoArrays
Sort == SortNextRule \/ SortNextName \/ SortListEnds \/ Relink

Next == Validate \/ Sort \/ NothingToSort \/ Returned
Spec == Init /\ [][Next]_vars
FairSpec == Spec /\ WF_vars(Validate \/ Sort \/ NothingToSort)

-----------------------------------------------------------------------------
(***************************************************************************)
(* What the answer should be, from the lists alone.                        *)
(***************************************************************************)
Dependencies(r) == {deps[r][i] : i \in DOMAIN deps[r]}
Missing == \E r \in Rules : NoSuchRule \in Dependencies(r)

\* Some rule is named in a list and has a list of its own.
Nested == \E r \in Rules : \E d \in Dependencies(r) \cap Rules : deps[d] # <<>>

\* No rule depends on itself: every rule can be given a rank above the ranks
\* of its dependencies.
Acyclic ==
  \E rank \in [Rules -> Rules] :
    \A r \in Rules : \A d \in Dependencies(r) \cap Rules : rank[d] < rank[r]

InDependencyOrder(list) ==
  \A i, j \in DOMAIN list : list[j] \in Dependencies(list[i]) => j < i

-----------------------------------------------------------------------------
(***************************************************************************)
(* Properties.                                                             *)
(***************************************************************************)

\* The types of the variables; sorted_arr is never written past its end.
TypeOK ==
  /\ deps \in DependsOn
  /\ mode \in {"validate", "sort", "done"}
  /\ next \in 1 .. RuleCount + 1
  /\ color \in [Rules -> 0 .. 2]
  /\ visited \subseteq Rules
  /\ path \in Seq(Rules)
  /\ tokens \in Seq(Rules \cup {NoSuchRule})
  /\ stale \in BOOLEAN
  /\ unread \in Seq(Seq(Rules \cup {NoSuchRule})) /\ Len(unread) = Len(path)
  /\ dropped \in BOOLEAN
  /\ output \in Seq(Rules) /\ Len(output) <= RuleCount
  /\ order \in [Rules -> Rules]
  /\ result \in {"none", "ok", "cycle", "missing", "oom"}
  /\ faults \in 0 .. MaxFaults

\* A set is never refused for a cycle it does not have: a dependency that two
\* rules share is no cycle, whatever order the search comes to it in, and names
\* lost by strtok never make one up.  It is refused for a missing rule only when
\* it has one, or when a rule with a list is named in a list: then the name may
\* be one the search read out of a freed buffer.
RefusalsAreTrue ==
  /\ result = "cycle" => ~Acyclic
  /\ result = "missing" => Missing \/ Nested

\* "Validate depends_on references (returns 1 if OK)" (docs/api-reference.md:479):
\* a set without a cycle and without a missing rule is accepted, if memory lasts.
GoodSetsAreAccepted ==
  Acyclic /\ ~Missing /\ faults = 0 => result \in {"none", "ok"}

\* The relinked list holds every rule exactly once, even when names were lost
\* or a list could not be copied; a refused set keeps the order it had.
EntriesAreKept ==
  /\ Len(order) = RuleCount
  /\ \A i, j \in Rules : order[i] = order[j] => i = j
  /\ result \notin {"none", "ok"} => \A i \in Rules : order[i] = i

\* When no name was lost and no allocation failed, an accepted set has no
\* missing rule and no cycle, and every rule comes after its dependencies.
FullyReadSetIsSorted ==
  result = "ok" /\ RuleCount > 1 /\ ~dropped /\ faults = 0 =>
    ~Missing /\ Acyclic /\ InDependencyOrder(order)

\* No search enters a rule whose list it is reading: on a cyclic set too the
\* recursion is at most as deep as the set has rules.
RecursionIsSimple ==
  \A i, j \in DOMAIN path : path[i] = path[j] => i = j

\* The call returns, on cyclic sets too.
SearchEnds == <>(mode = "done")

\* "depends_on metadata with topological sort for ordered execution"
\* (src/README.md): of a set that can be ordered, and is accepted, every rule
\* comes after its dependencies.
OrderRespectsDependencies ==
  result = "ok" /\ Acyclic /\ ~Missing => InDependencyOrder(order)
=============================================================================
