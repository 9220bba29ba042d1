------------------------------- MODULE RuleSet -------------------------------
(***************************************************************************)
(* The rule set: a linked list of rules that is kept in the order of their *)
(* priorities, owns its rules, and is changed between executions by adding *)
(* and removing rules, by loading and hot-reloading them from DSL text or  *)
(* from files, and by a topological sort.                                  *)
(*                                                                         *)
(* A text is known by what the parser makes of it: the name of its last    *)
(* rule, or nothing.  A file name is a text too, since reload decides from *)
(* the text itself whether it was given a file name or DSL.  How the sort  *)
(* orders the list is the subject of DependencyOrder; here it leaves some  *)
(* permutation of the list, which is what EntriesAreKept of that module    *)
(* promises.                                                               *)
(***************************************************************************)
EXTENDS Integers, Sequences, FiniteSets

CONSTANTS
  Names,        \* rule names; two rules may have the same one
  Texts,        \* DSL texts and file names
  NoRule,       \* what the parser makes of a text that is not DSL
  NoFile,       \* the content of a text that does not name a readable file
  Parses,       \* Parses[t]: the name of the rule the parser returns for t
  Verified,     \* the texts whose rule the schema accepts
  Content,      \* Content[t]: the text in the file named t
  LooksLikeDSL, \* the texts that contain "RULE " or "META"
  Priorities,
  MaxRules,     \* bound: rules created in the life of the set
  MaxSetFaults  \* bound: entries that cannot be allocated

ReloadPriority == 0  \* what reload passes on, whatever the rule's priority was

ASSUME RuleSetAssumption ==
  /\ NoRule \notin Names
  /\ NoFile \notin Texts
  /\ Parses \in [Texts -> Names \cup {NoRule}]
  /\ Content \in [Texts -> Texts \cup {NoFile}]
  /\ Verified \subseteq Texts
  /\ LooksLikeDSL \subseteq Texts
  /\ Priorities \subseteq Int
  /\ ReloadPriority \in Priorities
  /\ MaxRules \in Nat
  /\ MaxSetFaults \in Nat

VARIABLES
  entries,    \* set->entries, first to last
  count,      \* set->count
  live,       \* the rule objects that are allocated
  born,       \* rule objects created so far: the next one is born + 1
  reordered,  \* history: the list has been sorted topologically
  last,       \* history: the last call, what it was given and what it returned
  setFaults   \* entries that could not be allocated

setVars == <<entries, count, live, born, reordered, last, setFaults>>

Entry(rule, name, priority) ==
  [rule |-> rule, name |-> name, priority |-> priority]

Call(op, name, ret) == [op |-> op, name |-> name, ret |-> ret]

SetInit ==
  /\ entries = <<>>
  /\ count = 0
  /\ live = {}
  /\ born = 0
  /\ reordered = FALSE
  /\ last = Call("create", NoRule, 1)
  /\ setFaults = 0

-----------------------------------------------------------------------------
(***************************************************************************)
(* cdsl_ruleset_add and cdsl_ruleset_remove.                               *)
(***************************************************************************)

\* Mutant: a rule is put in front of those that have its priority.
InsertionPointBefore(list, p) ==
  IF list = <<>> \/ p <= list[1].priority THEN 0
  ELSE CHOOSE k \in DOMAIN list :
         /\ \A j \in 2 .. k : list[j].priority < p
         /\ k = Len(list) \/ list[k + 1].priority >= p

\* How many entries stay in front of a new one of priority p.
InsertionPoint(list, p) ==
  IF list = <<>> \/ p < list[1].priority THEN 0
  ELSE CHOOSE k \in DOMAIN list :
         /\ \A j \in 2 .. k : list[j].priority <= p
         /\ k = Len(list) \/ list[k + 1].priority > p

Inserted(list, e) ==
  LET k == InsertionPoint(list, e.priority) IN
  SubSeq(list, 1, k) \o <<e>> \o SubSeq(list, k + 1, Len(list))

Named(list, n) == {i \in DOMAIN list : list[i].name = n}
First(list, n) == CHOOSE i \in Named(list, n) : \A j \in Named(list, n) : i <= j

\* Mutant: the last entry moves into the place of the one that is unlinked.
UnlinkedBySwap(list, n) ==
  IF Named(list, n) = {} THEN list
  ELSE [i \in 1 .. Len(list) - 1 |->
          IF i = First(list, n) THEN list[Len(list)] ELSE list[i]]

\* The first entry with the name is unlinked.
Unlinked(list, n) ==
  IF Named(list, n) = {} THEN list
  ELSE SubSeq(list, 1, First(list, n) - 1)
         \o SubSeq(list, First(list, n) + 1, Len(list))
RulesOf(list) == {list[i].rule : i \in DOMAIN list}

\* The rules allocated once the first entry with the name is gone.
AliveWithout(n) ==
  IF Named(entries, n) = {} THEN live
  ELSE live \ {entries[First(entries, n)].rule}

CountWithout(n) == IF Named(entries, n) = {} THEN count ELSE count - 1

\* cdsl_ruleset_add takes over the rule born + 1; the list, its count and the
\* allocated rules are as given.  The rule is freed when there is no memory for
\* its entry, and the caller is not told.
AddRule(list, n, alive, name, priority) ==
  /\ born < MaxRules
  /\ born' = born + 1
  /\ \/ /\ entries' = Inserted(list, Entry(born + 1, name, priority))
        /\ count' = n + 1
        /\ live' = alive \cup {born + 1}
        /\ setFaults' = setFaults
     \/ /\ setFaults < MaxSetFaults
        /\ setFaults' = setFaults + 1
        /\ entries' = list
        /\ count' = n
        /\ live' = alive

Add(name, priority) ==
  /\ AddRule(entries, count, live, name, priority)
  /\ last' = Call("add", name, 1)
  /\ UNCHANGED reordered

Remove(name) ==
  /\ entries' = Unlinked(entries, name)
  /\ count' = CountWithout(name)
  /\ live' = AliveWithout(name)
  /\ last' = Call("remove", name, IF Named(entries, name) = {} THEN 0 ELSE 1)
  /\ UNCHANGED <<born, reordered, setFaults>>

-----------------------------------------------------------------------------
(***************************************************************************)
(* Loading.                                                                *)
(***************************************************************************)

\* The parser returns a rule of the text; with a schema it is verified first.
Parsed(t) == t # NoFile /\ Parses[t] # NoRule
Accepted(t, checked) == checked => t \in Verified

\* The text is not at hand or does not parse: there is no rule to free.
LoadFails(list, n, alive) ==
  /\ entries' = list
  /\ count' = n
  /\ live' = alive
  /\ UNCHANGED <<born, setFaults>>

\* Mutant: a rule the schema rejects is not freed.
RejectRuleLeaking(list, n, alive) ==
  /\ born < MaxRules
  /\ born' = born + 1
  /\ entries' = list
  /\ count' = n
  /\ live' = alive \cup {born + 1}
  /\ UNCHANGED setFaults

\* The schema rejects the rule, which is freed again.
RejectRule(list, n, alive) ==
  /\ born < MaxRules
  /\ born' = born + 1
  /\ entries' = list
  /\ count' = n
  /\ live' = alive
  /\ UNCHANGED setFaults

\* What is left of a load once the text is at hand.
Load(list, n, alive, op, name, t, priority, checked) ==
  \/ /\ Parsed(t) /\ Accepted(t, checked)
     /\ AddRule(list, n, alive, Parses[t], priority)
     /\ last' = Call(op, name, 1)
  \/ /\ Parsed(t) /\ ~Accepted(t, checked)
     /\ RejectRule(list, n, alive)
     /\ last' = Call(op, name, 0)
  \/ /\ ~Parsed(t)
     /\ LoadFails(list, n, alive)
     /\ last' = Call(op, name, 0)

LoadString(t, priority, checked) ==
  /\ Load(entries, count, live, "load", NoRule, t, priority, checked)
  /\ UNCHANGED reordered

LoadFile(t, priority, checked) == LoadString(Content[t], priority, checked)

\* The rule is removed before the text is looked at.
Reload(name, t, checked) ==
  /\ Load(Unlinked(entries, name), CountWithout(name), AliveWithout(name),
          "reload", name, IF t \in LooksLikeDSL THEN t ELSE Content[t],
          ReloadPriority, checked)
  /\ UNCHANGED reordered

-----------------------------------------------------------------------------
(***************************************************************************)
(* The topological sort and the end of the set.                            *)
(***************************************************************************)
Permuted(list) ==
  {[i \in DOMAIN list |-> list[f[i]]] :
     f \in {g \in [DOMAIN list -> DOMAIN list] :
              \A i, j \in DOMAIN list : g[i] = g[j] => i = j}}

TopoSort ==
  \/ /\ entries' \in Permuted(entries)
     /\ reordered' = (reordered \/ entries' # entries)
     /\ last' = Call("sort", NoRule, 1)
     /\ UNCHANGED <<count, live, born, setFaults>>
  \/ /\ count > 1
     /\ last' = Call("sort", NoRule, 0)
     /\ UNCHANGED <<entries, count, live, born, reordered, setFaults>>

\* cdsl_ruleset_free, and a new set in its place.
FreeSet ==
  /\ entries' = <<>>
  /\ count' = 0
  /\ live' = live \ RulesOf(entries)
  /\ reordered' = FALSE
  /\ last' = Call("free", NoRule, 1)
  /\ UNCHANGED <<born, setFaults>>

Loads ==
  \E t \in Texts, checked \in BOOLEAN :
    \/ \E p \in Priorities : LoadString(t, p, checked) \/ LoadFile(t, p, checked)
    \/ \E n \in Names : Reload(n, t, checked)

SetNext ==
  \/ \E n \in Names, p \in Priorities : Add(n, p)
  \/ \E n \in Names : Remove(n)
  \/ Loads
  \/ TopoSort
  \/ FreeSet

SetSpec == SetInit /\ [][SetNext]_setVars

-----------------------------------------------------------------------------
(***************************************************************************)
(* Properties.                                                             *)
(***************************************************************************)

\* Whatever was added, removed, loaded and reloaded, an execution meets the
\* rules by priority, and rules of one priority in the order they came: adding
\* is stable (cdsl_ruleset_add), until a topological sort changes the order.
RulesInPriorityOrder ==
  ~reordered =>
    \A i, j \in DOMAIN entries :
      i < j => \/ entries[i].priority < entries[j].priority
               \/ /\ entries[i].priority = entries[j].priority
                  /\ entries[i].rule < entries[j].rule

\* The set owns each of its rules once: no rule is listed twice, no listed rule
\* has been freed, and none is allocated that is not listed, on every path of
\* the loads, failed ones too; and count, which sizes the arrays of an
\* execution and of the sort, is the length of the list.
RulesAreOwnedOnce ==
  /\ live = RulesOf(entries)
  /\ \A i, j \in DOMAIN entries : entries[i].rule = entries[j].rule => i = j
  /\ count = Len(entries)

\* No call but the sort turns two rules round that both stay in the set.
OrderIsKept ==
  [][last'.op # "sort" =>
       \A i, j \in DOMAIN entries : \A k, l \in DOMAIN entries' :
         /\ i < j
         /\ entries'[k].rule = entries[i].rule
         /\ entries'[l].rule = entries[j].rule
         => k < l]_setVars

\* What the user guide says of a reload ("re-parses and replaces in-place"): the
\* set holds as many rules as before, and all but the reloaded one are where
\* they were.  The code has removed the rule before it reads the text, which
\* may be missing or no rule, and adds the new one with ReloadPriority.
ReloadsReplaceInPlace ==
  [][last'.op = "reload" /\ Named(entries, last'.name) # {} =>
       /\ Len(entries') = Len(entries)
       /\ \A i \in DOMAIN entries \ {First(entries, last'.name)} :
            entries'[i] = entries[i]]_setVars
=============================================================================
