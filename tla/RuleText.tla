------------------------------- MODULE RuleText -------------------------------
(***************************************************************************)
(* From rule text to rule: cdsl_parse_string, the reductions of the        *)
(* grammar it runs, the storage the nodes live in, and the registry of     *)
(* templates that EXTENDS copies from.                                     *)
(*                                                                         *)
(* A text is a sequence of declarations.  Its nodes come from one arena,   *)
(* or, when the arena cannot be created, each rule is a tree on the heap;  *)
(* an arena and a tree are both a "store" here.  A template is looked up   *)
(* under the registry's read lock and copied after the lock is released.   *)
(***************************************************************************)
EXTENDS Integers, Sequences

CONSTANTS
  Threads,
  Names,            \* names of rules and templates
  Texts,            \* the texts a caller may parse
  MaxLength,        \* CDSL_MAX_INPUT_LENGTH, in declarations
  NoName,
  NoRule,
  MaxParses,        \* bound: texts parsed
  MaxFaults         \* bound: failed allocations

\* "rule" and "template" are declarations without a base, "flawed" is a rule
\* with a syntax error inside, "broken" one the parser skips altogether, and
\* "stray" an unknown character before a correct rule.
Plain == {"rule", "template"}
Kinds == Plain \cup {"flawed", "broken", "stray", "extends"}
Declarations == [kind : Kinds, name : Names, base : Names \cup {NoName}]
Rules == [store : Nat, name : Names, at : Nat, whole : BOOLEAN, base : Names \cup {NoName}]
Mishaps == {"error", "unresolved", "inherited", "fault"}

ASSUME RuleTextAssumption ==
  /\ NoRule \notin Rules
  /\ NoName \notin Names
  /\ Texts \subseteq Seq(Declarations) \ {<<>>}
  /\ MaxLength \in Nat
  /\ MaxParses \in Nat
  /\ MaxFaults \in Nat

VARIABLES
  pc,       \* what each thread does next
  text,     \* its dsl_code
  pos,      \* the declaration the parser is at
  wanted,   \* the caller passed a place for errors
  listing,  \* error_list is there
  listed,   \* it holds an error
  heap,     \* there is no arena
  built,    \* the stores made for the text
  first,    \* the value of the first declaration, which stays the value of program
  rule,     \* *rule_ptr
  found,    \* the template cdsl_template_get returned
  mishaps,  \* what went wrong in the text: "error" is error_count > 0
  held,     \* the rule the caller was given and owns
  unlinked, \* the entries cdsl_template_clear has taken off the registry
  registry, \* template_registry, newest entry first
  stores,   \* the stores that are allocated
  lost,     \* history: stores nobody can free any more
  born,     \* history: stores made
  parses,
  faults

inputVars == <<text, pos, wanted, listing, heap>>
valueVars == <<first, rule, found>>
noteVars == <<listed, mishaps>>
memVars == <<stores, lost, born, built>>
vars == <<pc, inputVars, valueVars, noteVars, held, unlinked, registry, memVars, parses, faults>>

Init ==
  /\ pc = [t \in Threads |-> "idle"]
  /\ text = [t \in Threads |-> <<>>]
  /\ pos = [t \in Threads |-> 1]
  /\ wanted = [t \in Threads |-> FALSE]
  /\ listing = [t \in Threads |-> FALSE]
  /\ listed = [t \in Threads |-> FALSE]
  /\ heap = [t \in Threads |-> FALSE]
  /\ built = [t \in Threads |-> {}]
  /\ first = [t \in Threads |-> NoRule]
  /\ rule = [t \in Threads |-> NoRule]
  /\ found = [t \in Threads |-> NoRule]
  /\ mishaps = [t \in Threads |-> {}]
  /\ held = [t \in Threads |-> NoRule]
  /\ unlinked = [t \in Threads |-> <<>>]
  /\ registry = <<>>
  /\ stores = {}
  /\ lost = {}
  /\ born = 0
  /\ parses = 0
  /\ faults = 0

Goto(t, label) == pc' = [pc EXCEPT ![t] = label]
Fault == faults < MaxFaults /\ faults' = faults + 1
NoFault == UNCHANGED faults
Declaration(t) == text[t][pos[t]]
StoreOf(r) == IF r = NoRule THEN {} ELSE {r.store}
StoresOf(rules) == {rules[i].store : i \in DOMAIN rules}
Mishap(t, m) == mishaps' = [mishaps EXCEPT ![t] = @ \cup {m}]

-----------------------------------------------------------------------------
(***************************************************************************)
(* The start of cdsl_parse_string.                                         *)
(***************************************************************************)
Started(t, s, errors) ==
  /\ pc[t] = "idle" /\ held[t] = NoRule
  /\ parses < MaxParses
  /\ parses' = parses + 1
  /\ text' = [text EXCEPT ![t] = s]
  /\ pos' = [pos EXCEPT ![t] = 1]
  /\ wanted' = [wanted EXCEPT ![t] = errors]
  /\ first' = [first EXCEPT ![t] = NoRule]
  /\ rule' = [rule EXCEPT ![t] = NoRule]
  /\ UNCHANGED <<found, held, unlinked, registry, lost>>

\* The text is too long, or the scanner cannot be made: NULL is returned.
Refuse(t, s, errors) ==
  /\ Started(t, s, errors)
  /\ \/ /\ Len(s) > MaxLength
        /\ \/ NoFault /\ listed' = [listed EXCEPT ![t] = errors] /\ mishaps' = [mishaps EXCEPT ![t] = {}]
           \/ Fault /\ listed' = [listed EXCEPT ![t] = FALSE] /\ mishaps' = [mishaps EXCEPT ![t] = {"fault"}]
     \/ /\ Len(s) <= MaxLength
        /\ Fault
        /\ listed' = [listed EXCEPT ![t] = FALSE]
        /\ mishaps' = [mishaps EXCEPT ![t] = {"fault"}]
  /\ UNCHANGED <<pc, listing, heap, stores, born, built>>

\* The list of errors or the arena may fail to be created.
Begin(t, s, errors) ==
  /\ Started(t, s, errors)
  /\ Len(s) <= MaxLength
  /\ Goto(t, "declare")
  /\ listed' = [listed EXCEPT ![t] = FALSE]
  /\ \E failed \in {"nothing", "arena"} \cup (IF errors THEN {"list"} ELSE {}) :
       /\ IF failed = "nothing"
            THEN NoFault /\ mishaps' = [mishaps EXCEPT ![t] = {}]
            ELSE Fault /\ mishaps' = [mishaps EXCEPT ![t] = {"fault"}]
       /\ listing' = [listing EXCEPT ![t] = errors /\ failed # "list"]
       /\ heap' = [heap EXCEPT ![t] = failed = "arena"]
       /\ IF failed = "arena"
            THEN UNCHANGED <<built, stores, born>>
            ELSE /\ born' = born + 1
                 /\ stores' = stores \cup {born + 1}
                 /\ built' = [built EXCEPT ![t] = {born + 1}]

-----------------------------------------------------------------------------
(***************************************************************************)
(* The reductions.  A declaration yields a rule or NULL, and program       *)
(* remembers the latest rule, or else the value of the first declaration.  *)
(***************************************************************************)
Latest(t, value) == IF value = NoRule /\ pos[t] > 1 THEN first[t] ELSE value

Reduce(t, value) ==
  /\ first' = [first EXCEPT ![t] = IF pos[t] = 1 THEN value ELSE @]
  /\ rule' = [rule EXCEPT ![t] = Latest(t, value)]
  /\ found' = [found EXCEPT ![t] = NoRule]
  /\ pos' = [pos EXCEPT ![t] = @ + 1]
  /\ Goto(t, IF pos[t] = Len(text[t]) THEN "end" ELSE "declare")
  /\ UNCHANGED <<text, wanted, listing, heap, held, unlinked, registry, parses>>

\* A tree for the text, and nodes that no tree holds and nobody frees.
Allocate(t, mine, gone) ==
  /\ mine \subseteq {born + 1} /\ gone \subseteq {born + 2}
  /\ born' = IF mine \cup gone = {} THEN born ELSE born + 2
  /\ stores' = stores \cup mine \cup gone
  /\ built' = [built EXCEPT ![t] = @ \cup mine]
  /\ lost' = lost \cup gone

\* A node that is dropped on the heap may leave its parts behind.
Leavings(t) == IF heap[t] THEN SUBSET {born + 2} ELSE {{}}

\* The store of a new rule: the arena of the text, or a tree of its own.
InStore(t, id, gone) ==
  IF heap[t] THEN id = born + 1 /\ Allocate(t, {id}, gone)
             ELSE id \in built[t] /\ Allocate(t, {}, gone)

RuleOf(t, id, whole, base) ==
  [store |-> id, name |-> Declaration(t).name, at |-> pos[t], whole |-> whole, base |-> base]

\* The rule is made; a node that finds no memory is left out of it.
Make(t, whole, base, trouble) ==
  \E id \in 1..(born + 1), gone \in Leavings(t) :
    /\ InStore(t, id, gone)
    /\ UNCHANGED listed
    /\ \/ /\ NoFault /\ gone = {}
          /\ Reduce(t, RuleOf(t, id, whole, base))
          /\ mishaps' = [mishaps EXCEPT ![t] = @ \cup trouble]
       \/ /\ Fault
          /\ Reduce(t, RuleOf(t, id, FALSE, base))
          /\ mishaps' = [mishaps EXCEPT ![t] = @ \cup trouble \cup {"fault"}]

\* The rule node itself finds no memory.  EXTENDS forgets the name of the
\* template, and every rule its own parts: they stay behind on the heap.
MakeNothing(t) ==
  /\ Fault
  /\ Mishap(t, "fault")
  /\ Reduce(t, NoRule)
  /\ Allocate(t, {}, IF heap[t] \/ Declaration(t).kind = "extends" THEN {born + 2} ELSE {})
  /\ UNCHANGED listed

Reading == {"declare", "recover", "copy"}
Dangling(t) == ~ (StoreOf(found[t]) \subseteq stores)

\* cdsl_arena_strdup copies to where it found no memory, copy_metric_list
\* reads a template that is freed: either may be the end of the process.
Crash(t) ==
  /\ \/ pc[t] \in Reading /\ Fault
     \/ pc[t] = "copy" /\ Dangling(t) /\ NoFault
  /\ pc' = [u \in Threads |-> "crashed"]
  /\ UNCHANGED <<inputVars, valueVars, noteVars, held, unlinked, registry, memVars, parses>>

\* yyerror lists an error, if there is a list and memory for one.
ListError(t) == listed' = [listed EXCEPT ![t] = listing[t]]

At(t, kinds) == pc[t] = "declare" /\ Declaration(t).kind \in kinds

DeclareRule(t) ==
  /\ At(t, Plain)
  /\ Make(t, TRUE, NoName, {}) \/ MakeNothing(t)

\* yyerror is called, and the parser pops what it has read of the rule: only
\* tokens have a destructor, so that nodes on the heap are left behind.
SyntaxError(t) ==
  /\ At(t, {"flawed", "broken"})
  /\ \/ NoFault /\ ListError(t) /\ Mishap(t, "error")
     \/ Fault /\ UNCHANGED listed /\ mishaps' = [mishaps EXCEPT ![t] = @ \cup {"error", "fault"}]
  /\ \E gone \in Leavings(t) : Allocate(t, {}, gone)
  /\ Goto(t, "recover")
  /\ UNCHANGED <<inputVars, valueVars, held, unlinked, registry, parses>>

\* An error node, or nothing, stands for what could not be read, or the
\* parser is past the rule before it can go on.
Recover(t) ==
  /\ pc[t] = "recover"
  /\ IF Declaration(t).kind = "broken"
       THEN NoFault /\ Reduce(t, NoRule) /\ UNCHANGED <<noteVars, memVars>>
       ELSE Make(t, FALSE, NoName, {}) \/ MakeNothing(t)

\* The lexer lists an unknown character and does not count it.
DeclareStray(t) ==
  /\ At(t, {"stray"})
  /\ NoFault
  /\ UNCHANGED mishaps
  /\ ListError(t)
  /\ \E id \in 1..(born + 1) :
       InStore(t, id, {}) /\ Reduce(t, RuleOf(t, id, TRUE, NoName))

-----------------------------------------------------------------------------
(***************************************************************************)
(* EXTENDS: the template is found under the lock and copied without it.    *)
(***************************************************************************)
Registered(name) == {i \in DOMAIN registry : registry[i].name = name}
Newest(name) == registry[CHOOSE i \in Registered(name) : \A j \in Registered(name) : i <= j]

FindTemplate(t) ==
  /\ At(t, {"extends"})
  /\ Registered(Declaration(t).base) # {}
  /\ found' = [found EXCEPT ![t] = Newest(Declaration(t).base)]
  /\ Goto(t, "copy")
  /\ UNCHANGED <<inputVars, first, rule, noteVars, held, unlinked, registry, memVars, parses, faults>>

MissTemplate(t) ==
  /\ At(t, {"extends"})
  /\ Registered(Declaration(t).base) = {}
  /\ Mishap(t, "unresolved")
  /\ Reduce(t, NoRule)
  /\ UNCHANGED <<listed, memVars, faults>>

\* A template that has been freed is read as it was, or damaged.
Readable(t) == {found[t].whole} \cup (IF Dangling(t) THEN {FALSE} ELSE {})

CopyTemplate(t) ==
  /\ pc[t] = "copy"
  /\ \/ \E whole \in Readable(t) :
          Make(t, whole, found[t].name, IF whole THEN {} ELSE {"inherited"})
     \/ MakeNothing(t)

Extend(t) == FindTemplate(t) \/ MissTemplate(t) \/ CopyTemplate(t)

-----------------------------------------------------------------------------
(***************************************************************************)
(* The end of cdsl_parse_string.                                           *)
(***************************************************************************)
Failing(t) == "error" \in mishaps[t]

\* Mutant: the caller who wants no errors is given what there is.
GivenUpNever(t) == FALSE

GivenUp(t) == Failing(t) /\ ~wanted[t]

\* Mutant: what is not handed out is not freed either.
FreedWithoutRule(t) ==
  IF rule[t] = NoRule /\ Failing(t) /\ ~heap[t] THEN built[t] ELSE {}

\* Mutant: the arena goes whenever the parse fails.
FreedOnFailure(t) == IF Failing(t) /\ ~heap[t] THEN built[t] ELSE {}

Freed(t) ==
  IF rule[t] # NoRule
    THEN IF GivenUp(t) THEN StoreOf(rule[t]) ELSE {}
    ELSE IF Failing(t) /\ ~heap[t] THEN built[t] ELSE {}

Given(t) == IF GivenUp(t) THEN NoRule ELSE rule[t]

EndParse(t) ==
  /\ pc[t] = "end"
  /\ held' = [held EXCEPT ![t] = Given(t)]
  /\ stores' = stores \ Freed(t)
  /\ lost' = lost \cup (built[t] \ (Freed(t) \cup StoreOf(Given(t))))
  /\ built' = [built EXCEPT ![t] = {}]
  /\ first' = [first EXCEPT ![t] = NoRule]
  /\ rule' = [rule EXCEPT ![t] = NoRule]
  /\ Goto(t, "idle")
  /\ UNCHANGED <<inputVars, found, noteVars, unlinked, registry, born, parses, faults>>

Parse(t) ==
  \/ \E s \in Texts, errors \in BOOLEAN : Refuse(t, s, errors) \/ Begin(t, s, errors)
  \/ DeclareRule(t) \/ DeclareStray(t) \/ SyntaxError(t) \/ Recover(t)
  \/ Extend(t)
  \/ Crash(t)
  \/ EndParse(t)

-----------------------------------------------------------------------------
(***************************************************************************)
(* What the caller does with a rule.                                       *)
(***************************************************************************)
Holding(t) == pc[t] = "idle" /\ held[t] # NoRule
ownerVars == <<pc, inputVars, valueVars, noteVars, unlinked, born, built, parses>>

FreeRule(t) ==
  /\ Holding(t)
  /\ stores' = stores \ StoreOf(held[t])
  /\ held' = [held EXCEPT ![t] = NoRule]
  /\ UNCHANGED <<ownerVars, registry, lost, faults>>

\* Mutant: the caller goes on owning a rule it has registered.
RegisterKept(t) ==
  /\ Holding(t)
  /\ NoFault
  /\ registry' = <<held[t]>> \o registry
  /\ UNCHANGED <<ownerVars, held, stores, lost>>

\* The registry owns the rule from here on; without memory for an entry the
\* call returns in silence and nobody does.
Register(t) ==
  /\ Holding(t)
  /\ held' = [held EXCEPT ![t] = NoRule]
  /\ \/ NoFault /\ registry' = <<held[t]>> \o registry /\ UNCHANGED lost
     \/ Fault /\ lost' = lost \cup StoreOf(held[t]) /\ UNCHANGED registry
  /\ UNCHANGED <<ownerVars, stores>>

\* cdsl_template_clear: the list is unlinked under the write lock ...
UnlinkTemplates(t) ==
  /\ pc[t] = "idle"
  /\ registry # <<>>
  /\ unlinked' = [unlinked EXCEPT ![t] = registry]
  /\ registry' = <<>>
  /\ Goto(t, "clear")
  /\ UNCHANGED <<inputVars, valueVars, noteVars, held, memVars, parses, faults>>

\* ... and its rules are freed after the lock is released.
FreeTemplates(t) ==
  /\ pc[t] = "clear"
  /\ stores' = stores \ StoresOf(unlinked[t])
  /\ unlinked' = [unlinked EXCEPT ![t] = <<>>]
  /\ Goto(t, "idle")
  /\ UNCHANGED <<inputVars, valueVars, noteVars, held, registry, lost, born, built, parses, faults>>

Own(t) == FreeRule(t) \/ Register(t) \/ UnlinkTemplates(t) \/ FreeTemplates(t)

\* Every text the bound allows is parsed and nothing is left to free, or the
\* process is gone.
Finished ==
  /\ \/ /\ parses = MaxParses /\ registry = <<>>
        /\ \A t \in Threads : pc[t] = "idle" /\ held[t] = NoRule
     \/ \A t \in Threads : pc[t] = "crashed"
  /\ UNCHANGED vars

Next == (\E t \in Threads : Parse(t) \/ Own(t)) \/ Finished

Spec == Init /\ [][Next]_vars

-----------------------------------------------------------------------------
(***************************************************************************)
(* Properties.                                                             *)
(***************************************************************************)
RuleOrNone == Rules \cup {NoRule}

\* The type of every variable of the parser, the registry and the stores.
TypeOK ==
  /\ pc \in [Threads -> Reading \cup {"idle", "end", "clear", "crashed"}]
  /\ text \in [Threads -> Seq(Declarations)]
  /\ pos \in [Threads -> Nat \ {0}]
  /\ wanted \in [Threads -> BOOLEAN]
  /\ listing \in [Threads -> BOOLEAN]
  /\ listed \in [Threads -> BOOLEAN]
  /\ heap \in [Threads -> BOOLEAN]
  /\ built \in [Threads -> SUBSET Nat]
  /\ first \in [Threads -> RuleOrNone]
  /\ rule \in [Threads -> RuleOrNone]
  /\ found \in [Threads -> RuleOrNone]
  /\ held \in [Threads -> RuleOrNone]
  /\ mishaps \in [Threads -> SUBSET Mishaps]
  /\ unlinked \in [Threads -> Seq(Rules)]
  /\ registry \in Seq(Rules)
  /\ stores \in SUBSET (1..born)
  /\ lost \in SUBSET Nat
  /\ born \in Nat /\ parses \in Nat /\ faults \in Nat

\* Every rule a caller holds, the registry hands out or a parser is building
\* lies in a store that is allocated: freeing a text that failed, a rule or the
\* registry never pulls a store from under another user.  What EXTENDS copies
\* is not among them (CopiedTemplatesAreLive).
RulesAreLive ==
  /\ \A t \in Threads : StoreOf(held[t]) \cup StoreOf(first[t]) \cup StoreOf(rule[t]) \subseteq stores
  /\ StoresOf(registry) \subseteq stores

\* The user guide's claim that the calls on templates are safe from several
\* threads: the template EXTENDS is copying is allocated.
CopiedTemplatesAreLive == \A t \in Threads : StoreOf(found[t]) \subseteq stores

\* The stores one owner answers for: a parse, a caller, a clearing thread.
Owned(t) == StoreOf(held[t]) \cup built[t] \cup StoresOf(unlinked[t])

\* Every allocated store has exactly one owner that will free it, or is lost:
\* the registry, the caller of one parse, or a parse or clear under way.
StoresHaveOneOwner ==
  /\ stores = (UNION {Owned(t) : t \in Threads}) \cup StoresOf(registry) \cup lost
  /\ \A t, u \in Threads : t # u => Owned(t) \cap Owned(u) = {}
  /\ \A t \in Threads :
       /\ StoreOf(held[t]) \cap (built[t] \cup StoresOf(unlinked[t])) = {}
       /\ built[t] \cap StoresOf(unlinked[t]) = {}
       /\ Owned(t) \cap (StoresOf(registry) \cup lost) = {}
  /\ StoresOf(registry) \cap lost = {}
  /\ \A i, j \in DOMAIN registry : i # j => registry[i].store # registry[j].store

\* What may cost a text memory: an allocation that failed on the way (there is
\* no arena without one), or an unknown template at an end with neither a rule
\* nor an error.
Excused(t) ==
  \/ "fault" \in mishaps[t]
  \/ pc[t] = "end" /\ "unresolved" \in mishaps[t] /\ ~Failing(t) /\ rule[t] = NoRule

\* As long as every allocation of a text succeeds, nothing of it is lost,
\* whatever errors it has and whatever the caller wants to hear of them, but for
\* the text that names an unknown template and yields neither rule nor error.
LeaksAreKnown ==
  [][lost' # lost =>
       faults' > faults \/ \E t \in Threads : pc'[t] # pc[t] /\ Excused(t)]_vars

\* What cdsl_parse_string returns is the last rule of its text, whole, or the
\* caller learns otherwise: an error is listed, or no list was wanted and the
\* result is NULL.  Lost memory, an unknown template and a template that was
\* registered with an error, or freed while it was copied, are the exceptions,
\* and they are silent.
ReturnsAreHonest ==
  [][\A t \in Threads : pc[t] = "end" /\ pc'[t] = "idle" =>
       \/ held'[t] # NoRule /\ held'[t].whole /\ held'[t].at = Len(text[t])
       \/ listed[t]
       \/ ~wanted[t] /\ held'[t] = NoRule /\ "error" \in mishaps[t]
       \/ mishaps[t] \cap {"unresolved", "inherited", "fault"} # {}]_vars

=============================================================================
